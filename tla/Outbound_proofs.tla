--------------------------- MODULE Outbound_proofs ---------------------------
(***************************************************************************)
(* The sending side of the streams of a connection, for any streams,       *)
(* windows and data: it uses the flow controller as FlowControl assumes,   *)
(* so that what FlowControl_proofs shows holds here, too; a response that  *)
(* ended is complete; and the sending side of a server implements          *)
(* ResponseStream.                                                         *)
(***************************************************************************)
EXTENDS Outbound, TLAPS

Flow == INSTANCE FlowControl_proofs WITH EndFlags <- BOOLEAN, SettingsDeltas <- {}

LEMMA FlowAssumed == Flow!FlowControlAssumption
BY OutboundAssumption DEF Flow!FlowControlAssumption, IsFiniteSet, Flow!IsFiniteSet

----------------------------------------------------------------------------
(* Bytes on their way *)

\* The operations of a queue carry the bytes from .. to of a stream: p[i] is
\* where the i-th one ends, and what follows the last DATA carries nothing.
Carries(q, from, to) ==
    \E p \in [0..Len(q) -> 0..to] :
        /\ p[0] = from /\ p[Len(q)] = to
        /\ \A i \in 1..Len(q) : p[i] = p[i - 1] + q[i].n
        /\ \A i \in 0..Len(q) : (\A j \in (i + 1)..Len(q) : q[j].kind # "data") => p[i] = to

LEMMA CarriesNothing == ASSUME NEW a \in Nat PROVE Carries(<<>>, a, a)
<1> DEFINE p == [i \in 0..0 |-> a]
<1>1. p \in [0..Len(<<>>) -> 0..a] /\ p[0] = a /\ Len(<<>>) = 0
  OBVIOUS
<1> HIDE DEF p
<1> QED
  BY <1>1 DEF Carries

LEMMA CarriesAppended ==
    ASSUME NEW S, NEW q \in Seq(S), NEW op \in S, NEW a \in Nat, NEW b \in Nat,
           op.n \in Nat, op.kind = "data" \/ op.n = 0, Carries(q, a, b)
    PROVE  Carries(Append(q, op), a, b + op.n)
<1>1. PICK p \in [0..Len(q) -> 0..b] :
        /\ p[0] = a /\ p[Len(q)] = b
        /\ \A i \in 1..Len(q) : p[i] = p[i - 1] + q[i].n
        /\ \A i \in 0..Len(q) : (\A j \in (i + 1)..Len(q) : q[j].kind # "data") => p[i] = b
  BY DEF Carries
<1> DEFINE r == Append(q, op)
           c == b + op.n
           last == Len(q) + 1
           e == [i \in 0..last |-> IF i = last THEN c ELSE p[i]]
<1>2. /\ Len(r) = last /\ Len(q) \in Nat /\ r[last] = op
      /\ \A i \in 1..Len(q) : r[i] = q[i]
  OBVIOUS
<1>3. e \in [0..last -> 0..c] /\ e[0] = a /\ e[last] = c
  BY <1>1, <1>2
<1>4. \A i \in 1..last : e[i] = e[i - 1] + r[i].n
  BY <1>1, <1>2
<1>5. ASSUME NEW i \in 0..last, \A j \in (i + 1)..last : r[j].kind # "data" PROVE e[i] = c
  <2>1. CASE i = last
    BY <2>1
  <2>2. CASE i # last
    <3>1. op.n = 0 /\ i \in 0..Len(q)
      BY <1>2, <1>5, <2>2
    <3>2. \A j \in (i + 1)..Len(q) : q[j].kind # "data"
      BY <1>2, <1>5, <2>2
    <3> QED
      BY <1>1, <1>2, <3>1, <3>2, <2>2
  <2> QED
    BY <2>1, <2>2
<1> HIDE DEF e, r, c, last
<1>6. Carries(r, a, c)
  BY <1>2, <1>3, <1>4, <1>5 DEF Carries
<1> QED
  BY <1>6 DEF r, c

LEMMA CarriesRest ==
    ASSUME NEW S, NEW q \in Seq(S), q # <<>>, NEW a \in Nat, NEW b \in Nat,
           Head(q).n \in Nat, Carries(q, a, b)
    PROVE  a + Head(q).n <= b /\ Carries(Tail(q), a + Head(q).n, b)
<1>1. PICK p \in [0..Len(q) -> 0..b] :
        /\ p[0] = a /\ p[Len(q)] = b
        /\ \A i \in 1..Len(q) : p[i] = p[i - 1] + q[i].n
        /\ \A i \in 0..Len(q) : (\A j \in (i + 1)..Len(q) : q[j].kind # "data") => p[i] = b
  BY DEF Carries
<1> DEFINE r == Tail(q)
           last == Len(q) - 1
           e == [i \in 0..last |-> p[i + 1]]
           c == a + Head(q).n
<1>2. /\ Len(r) = last /\ last \in Nat /\ Head(q) = q[1]
      /\ \A i \in 1..last : r[i] = q[i + 1]
  OBVIOUS
<1>3. e \in [0..last -> 0..b] /\ e[0] = c /\ e[last] = b
  BY <1>1, <1>2
<1>4. \A i \in 1..last : e[i] = e[i - 1] + r[i].n
  BY <1>1, <1>2
<1>5. ASSUME NEW i \in 0..last, \A j \in (i + 1)..last : r[j].kind # "data" PROVE e[i] = b
  <2>1. \A j \in (i + 2)..Len(q) : q[j].kind # "data"
    <3> SUFFICES ASSUME NEW j \in (i + 2)..Len(q) PROVE q[j].kind # "data"
      OBVIOUS
    <3>1. j - 1 \in (i + 1)..last /\ (j - 1) + 1 = j
      BY <1>2
    <3> QED
      BY <1>2, <1>5, <3>1
  <2> QED
    BY <1>1, <1>2, <2>1
<1>6. c <= b
  BY <1>2, <1>3
<1> HIDE DEF e, r, c, last
<1>7. Carries(r, c, b)
  BY <1>2, <1>3, <1>4, <1>5 DEF Carries
<1> QED
  BY <1>6, <1>7 DEF r, c

LEMMA CarriesNoData ==
    ASSUME NEW S, NEW q \in Seq(S), NEW a \in Nat, NEW b \in Nat, Carries(q, a, b)
    PROVE  a <= b /\ ((\A i \in DOMAIN q : q[i].kind # "data") => a = b)
<1>1. Len(q) \in Nat /\ DOMAIN q = 1..Len(q)
  OBVIOUS
<1> QED
  BY <1>1 DEF Carries
----------------------------------------------------------------------------
(* The flow controller's steps, as Outbound and as FlowControl_proofs name them *)

LEMMA SameSteps ==
    /\ FC!Init <=> Flow!Init
    /\ FC!TypeOK <=> Flow!TypeOK
    /\ \A s \in Streams, n \in Nat, e \in BOOLEAN : FC!WriteData(s, n, e) <=> Flow!WriteData(s, n, e)
    /\ \A s \in Streams : FC!Transmit(s) <=> Flow!Transmit(s)
    /\ \A s \in Streams : FC!LocalReset(s) <=> Flow!LocalReset(s)
    /\ \A s \in Streams : FC!SendTrailers(s) <=> Flow!SendTrailers(s)
    /\ \A s \in Streams : FC!PeerReset(s) <=> Flow!PeerReset(s)
    /\ \A s \in Streams, d \in 1..MaxWindow : FC!StreamWindowUpdate(s, d) <=> Flow!StreamWindowUpdate(s, d)
    /\ \A d \in 1..MaxWindow : FC!ConnWindowUpdate(d) <=> Flow!ConnWindowUpdate(d)
    /\ FC!ConnectionLost <=> Flow!ConnectionLost
<1> USE DEF FC!itemVars, FC!h2Vars, FC!ghosts, Flow!itemVars, Flow!h2Vars, Flow!ghosts
<1>1. FC!Init <=> Flow!Init
  BY DEF FC!Init, Flow!Init
<1>2. FC!TypeOK <=> Flow!TypeOK
  BY DEF FC!TypeOK, Flow!TypeOK, FC!Marks, Flow!Marks
<1>3. ASSUME NEW s \in Streams, NEW n \in Nat, NEW e \in BOOLEAN
      PROVE  FC!WriteData(s, n, e) <=> Flow!WriteData(s, n, e)
  BY DEF FC!WriteData, Flow!WriteData, FC!ExtendData, Flow!ExtendData, FC!Supersede, Flow!Supersede,
     FC!Requeue, Flow!Requeue
<1>4. ASSUME NEW s \in Streams PROVE FC!Transmit(s) <=> Flow!Transmit(s)
  BY DEF FC!Transmit, Flow!Transmit, FC!TransmitClosed, Flow!TransmitClosed, FC!TransmitFails,
     Flow!TransmitFails, FC!TransmitPart, Flow!TransmitPart, FC!TransmitAll, Flow!TransmitAll,
     FC!Serving, Flow!Serving, FC!Emit, Flow!Emit, FC!Skips, Flow!Skips, FC!MustSend, Flow!MustSend,
     FC!ToSend, Flow!ToSend, FC!Rest, Flow!Rest, FC!Window, Flow!Window, FC!Min2, Flow!Min2,
     FC!Refused, Flow!Refused
<1>5. ASSUME NEW s \in Streams
      PROVE  /\ FC!LocalReset(s) <=> Flow!LocalReset(s)
             /\ FC!SendTrailers(s) <=> Flow!SendTrailers(s)
             /\ FC!PeerReset(s) <=> Flow!PeerReset(s)
  BY DEF FC!LocalReset, Flow!LocalReset, FC!SendTrailers, Flow!SendTrailers, FC!PeerReset, Flow!PeerReset
<1>6. ASSUME NEW s \in Streams, NEW d \in 1..MaxWindow
      PROVE  FC!StreamWindowUpdate(s, d) <=> Flow!StreamWindowUpdate(s, d)
  BY DEF FC!StreamWindowUpdate, Flow!StreamWindowUpdate, FC!Released, Flow!Released
<1>7. ASSUME NEW d \in 1..MaxWindow PROVE FC!ConnWindowUpdate(d) <=> Flow!ConnWindowUpdate(d)
  BY DEF FC!ConnWindowUpdate, Flow!ConnWindowUpdate, FC!ReleaseOrders, Flow!ReleaseOrders,
     FC!Bijection, Flow!Bijection, FC!Surjection, Flow!Surjection, FC!Injection, Flow!Injection,
     FC!IsInjective, Flow!IsInjective, FC!Cardinality, Flow!Cardinality
<1>8. FC!ConnectionLost <=> Flow!ConnectionLost
  BY DEF FC!ConnectionLost, Flow!ConnectionLost
<1> QED
  BY <1>1, <1>2, <1>3, <1>4, <1>5, <1>6, <1>7, <1>8
----------------------------------------------------------------------------
(* Types *)

DataOps == [kind : {"data"}, n : Nat \ {0}, end : BOOLEAN]
Ops == DataOps \cup [kind : {"headers", "rst"}, n : {0}, end : BOOLEAN]
Frames == DataOps \cup {LastDataFrame}

OwnTypes ==
    /\ clientSide \in BOOLEAN
    /\ caller \in [Streams -> {"new", "open", "done"}] /\ cancelled \in [Streams -> BOOLEAN]
    /\ given \in [Streams -> Nat]
    /\ callbacks \in [Streams -> Seq(Ops)] /\ dataQueue \in [Streams -> Seq(Frames)]
    /\ known \subseteq Streams /\ headers \in [Streams -> {"none", "open", "end"}]
    /\ dataSent \in [Streams -> Nat] /\ pc \in [Streams -> Label]

LEMMA OpTypes ==
    /\ \A kind \in {"headers", "rst"}, e \in BOOLEAN :
          Op(kind, 0, e) \in Ops /\ Op(kind, 0, e).kind = kind /\ Op(kind, 0, e).n = 0
              /\ Op(kind, 0, e).end = e
    /\ \A n \in Nat \ {0}, e \in BOOLEAN :
          Op("data", n, e) \in Ops /\ Op("data", n, e).kind = "data" /\ Op("data", n, e).n = n
              /\ Op("data", n, e).end = e
    /\ \A op \in Ops : /\ op.n \in Nat /\ op.end \in BOOLEAN /\ op.kind \in {"data", "headers", "rst"}
                       /\ op.kind = "data" => op.n > 0 /\ op \in Frames
                       /\ op.kind # "data" => op.n = 0
    /\ \A op \in Frames : /\ op.n \in Nat /\ op.end \in BOOLEAN /\ op.kind \in {"data", "last"}
                          /\ op.kind = "data" => op.n > 0
                          /\ op.kind # "data" => op.n = 0
    /\ LastDataFrame \in Frames /\ LastDataFrame.kind = "last" /\ LastDataFrame.n = 0
    /\ LastDataFrame.end = FALSE
<1>1. ASSUME NEW kind, NEW n, NEW e
      PROVE  Op(kind, n, e) = [kind |-> kind, n |-> n, end |-> e] /\ Op(kind, n, e).kind = kind
             /\ Op(kind, n, e).n = n /\ Op(kind, n, e).end = e
  BY DEF Op
<1>2. \A kind \in {"headers", "rst"}, e \in BOOLEAN : Op(kind, 0, e) \in Ops
  BY <1>1 DEF Ops
<1>3. \A n \in Nat \ {0}, e \in BOOLEAN : Op("data", n, e) \in Ops
  BY <1>1 DEF Ops, DataOps
<1>4. ASSUME NEW op \in Ops
      PROVE  /\ op.n \in Nat /\ op.end \in BOOLEAN /\ op.kind \in {"data", "headers", "rst"}
             /\ op.kind = "data" => op.n > 0 /\ op \in Frames
             /\ op.kind # "data" => op.n = 0
  BY DEF Ops, DataOps, Frames
<1>5. LastDataFrame \in Frames /\ LastDataFrame.kind = "last" /\ LastDataFrame.n = 0
      /\ LastDataFrame.end = FALSE
  BY DEF Op, LastDataFrame, Frames
<1>6. ASSUME NEW op \in Frames
      PROVE  /\ op.n \in Nat /\ op.end \in BOOLEAN /\ op.kind \in {"data", "last"}
             /\ op.kind = "data" => op.n > 0
             /\ op.kind # "data" => op.n = 0
  <2>1. op \in DataOps \/ op = LastDataFrame
    BY DEF Frames
  <2>2. CASE op \in DataOps
    BY <2>2 DEF DataOps
  <2>3. CASE op = LastDataFrame
    <3>1. op.kind = "last" /\ op.n = 0
      BY <1>5, <2>3
    <3>2. op.end \in BOOLEAN
      BY <1>5, <2>3, Zenon
    <3> QED
      BY <3>1, <3>2
  <2> QED
    BY <2>1, <2>2, <2>3
<1> QED
  BY <1>1, <1>2, <1>3, <1>4, <1>5, <1>6

\* What a queue is when an operation is put at its end.
LEMMA AppendOps ==
    ASSUME NEW S, NEW q \in Seq(S), NEW op \in S
    PROVE  /\ Append(q, op) \in Seq(S) /\ Append(q, op) # <<>>
           /\ Len(q) \in Nat /\ DOMAIN q = 1..Len(q) /\ DOMAIN Append(q, op) = 1..(Len(q) + 1)
           /\ \A i \in DOMAIN q : Append(q, op)[i] = q[i]
           /\ Append(q, op)[Len(q) + 1] = op
           /\ Head(Append(q, op)) = IF q = <<>> THEN op ELSE Head(q)
<1>1. /\ Append(q, op) \in Seq(S) /\ Len(Append(q, op)) = Len(q) + 1
      /\ Len(q) \in Nat /\ DOMAIN q = 1..Len(q) /\ DOMAIN Append(q, op) = 1..(Len(q) + 1)
      /\ \A i \in DOMAIN q : Append(q, op)[i] = q[i]
      /\ Append(q, op)[Len(q) + 1] = op
  OBVIOUS
<1>2. Append(q, op) # <<>> /\ Head(Append(q, op)) = Append(q, op)[1]
  BY <1>1
<1>3. CASE q = <<>>
  BY <1>1, <1>2, <1>3
<1>4. CASE q # <<>>
  <2>1. Len(q) > 0 /\ Head(q) = q[1]
    BY <1>4
  <2> QED
    BY <1>1, <1>2, <1>4, <2>1
<1> QED
  BY <1>1, <1>2, <1>3, <1>4

\* The head of a queue, and what follows it.
LEMMA HeadOps ==
    ASSUME NEW S, NEW q \in Seq(S), q # <<>>
    PROVE  /\ Head(q) \in S /\ Tail(q) \in Seq(S) /\ Head(q) = q[1] /\ 1 \in DOMAIN q
           /\ \A i \in DOMAIN Tail(q) : i \in Nat \ {0} /\ i + 1 \in DOMAIN q /\ Tail(q)[i] = q[i + 1]
OBVIOUS

LEMMA OwnTypesInit == Init => OwnTypes
BY OutboundAssumption DEF Init, OwnTypes, Calls, Label

\* Every step keeps the controllers and their queues well typed.
LEMMA OwnTypesStep == OwnTypes /\ Flow!TypeOK /\ [Next]_vars => OwnTypes'
<1> SUFFICES ASSUME OwnTypes, Flow!TypeOK, [Next]_vars PROVE OwnTypes'
  OBVIOUS
<1>S. \A s \in Calls : s \in Streams
  BY DEF Calls
<1>P. ASSUME NEW s \in Calls, NEW op \in Ops, Post(s, op)
      PROVE  /\ UNCHANGED <<clientSide, known, headers, dataQueue, dataSent, pc>>
             /\ callbacks' \in [Streams -> Seq(Ops)]
  <2>1. Append(callbacks[s], op) \in Seq(Ops)
    BY <1>S, AppendOps DEF OwnTypes
  <2> QED
    BY <1>P, <2>1 DEF Post, OwnTypes, ctlVars
<1>C. ASSUME NEW s \in Calls, NEW kind, NextCallback(s, kind)
      PROVE  /\ UNCHANGED <<clientSide, caller, cancelled, given>> /\ callbacks' \in [Streams -> Seq(Ops)]
             /\ Head(callbacks[s]) \in Ops /\ Head(callbacks[s]).kind = kind
  BY <1>C, HeadOps DEF NextCallback, OwnTypes, callVars, Calls
<1>W. ASSUME NEW s \in Calls, NextWrite(s)
      PROVE  /\ UNCHANGED <<clientSide, caller, cancelled, given, callbacks, known, headers>>
             /\ dataQueue' \in [Streams -> Seq(Frames)]
  BY <1>W, HeadOps DEF NextWrite, OwnTypes, callVars, Calls
<1>1. ASSUME NEW s \in Calls, NEW end \in BOOLEAN, SendHeaders(s, end) PROVE OwnTypes'
  <2>1. Op("headers", 0, end) \in Ops /\ Post(s, Op("headers", 0, end))
    BY <1>1, OpTypes DEF SendHeaders
  <2>2. UNCHANGED <<clientSide, known, headers, dataQueue, dataSent, pc>> /\ callbacks' \in [Streams -> Seq(Ops)]
    BY <1>P, <2>1
  <2>3. caller' \in [Streams -> {"new", "open", "done"}] /\ UNCHANGED <<cancelled, given>>
    BY <1>1 DEF SendHeaders, OwnTypes
  <2> QED
    BY <2>2, <2>3 DEF OwnTypes
<1>2. ASSUME NEW s \in Calls, NEW n \in 1..MaxBytes, NEW end \in BOOLEAN, SendData(s, n, end)
      PROVE  OwnTypes'
  <2>1. n \in Nat \ {0}
    BY OutboundAssumption
  <2> QED
    <3>1. Op("data", n, end) \in Ops /\ Post(s, Op("data", n, end))
      BY <1>2, <2>1, OpTypes DEF SendData
    <3>2. UNCHANGED <<clientSide, known, headers, dataQueue, dataSent, pc>> /\ callbacks' \in [Streams -> Seq(Ops)]
      BY <3>1, <1>P
    <3>3. given' \in [Streams -> Nat]
      BY <1>2, <1>S, <2>1 DEF SendData, OwnTypes
    <3>4. caller' \in [Streams -> {"new", "open", "done"}] /\ cancelled' = cancelled
      BY <1>2 DEF SendData, OwnTypes
    <3> QED
      BY <3>2, <3>3, <3>4 DEF OwnTypes
<1>3. ASSUME NEW s \in Calls, SendTrailers(s) \/ CancelByLocal(s) PROVE OwnTypes'
  <2>1. UNCHANGED <<clientSide, known, headers, dataQueue, dataSent, pc>> /\ callbacks' \in [Streams -> Seq(Ops)]
    BY <1>3, <1>P, OpTypes DEF SendTrailers, CancelByLocal
  <2> QED
    BY <1>3, <2>1 DEF SendTrailers, CancelByLocal, OwnTypes
<1>4. ASSUME NEW s \in Calls, HeadersCallback(s) PROVE OwnTypes'
  <2>1. Append(dataQueue[s], LastDataFrame) \in Seq(Frames)
    BY <1>S, AppendOps, OpTypes DEF OwnTypes
  <2> QED
    <3>1. /\ UNCHANGED <<clientSide, caller, cancelled, given, known, dataSent, pc>>
          /\ callbacks' \in [Streams -> Seq(Ops)]
      BY <1>4, <1>C DEF HeadersCallback
    <3>2. headers' \in [Streams -> {"none", "open", "end"}]
      BY <1>4 DEF HeadersCallback, OwnTypes
    <3>3. dataQueue' \in [Streams -> Seq(Frames)]
      BY <1>4, <2>1 DEF HeadersCallback, OwnTypes
    <3> QED
      BY <3>1, <3>2, <3>3 DEF OwnTypes
<1>5. ASSUME NEW s \in Calls, DataCallback(s) PROVE OwnTypes'
  <2>1. Head(callbacks[s]) \in Frames
    BY <1>5, <1>C, OpTypes DEF DataCallback
  <2>2. Append(dataQueue[s], Head(callbacks[s])) \in Seq(Frames)
    BY <1>S, <2>1, AppendOps DEF OwnTypes
  <2> QED
    BY <1>5, <1>C, <2>2 DEF DataCallback, OwnTypes
<1>6. ASSUME NEW s \in Calls, RstCallback(s) PROVE OwnTypes'
  BY <1>6, <1>C DEF RstCallback, OwnTypes, ctlVars
<1>7. ASSUME NEW s \in Calls, WriteHeaders(s) PROVE OwnTypes'
  BY <1>7 DEF WriteHeaders, Fails, Goto, OwnTypes, callVars, Label, Calls
<1>8. ASSUME NEW s \in Calls, ForwardData(s) PROVE OwnTypes'
  <2>1. /\ UNCHANGED <<clientSide, caller, cancelled, given, callbacks, known, headers>>
        /\ dataQueue' \in [Streams -> Seq(Frames)]
    BY <1>8, <1>W DEF ForwardData
  <2>2. dataSent' \in [Streams -> Nat]
    <3>1. writes[s] + 1 \in Nat
      BY <1>S DEF Flow!TypeOK
    <3> QED
      BY <1>8, <3>1 DEF ForwardData, NewEvent, OwnTypes
  <2>3. pc' \in [Streams -> Label]
    <3>1. PICK label \in Label : Goto(s, label)
      BY <1>8 DEF ForwardData, Label
    <3> QED
      BY <3>1 DEF Goto, OwnTypes
  <2> QED
    BY <2>1, <2>2, <2>3 DEF OwnTypes
<1>9. ASSUME NEW s \in Calls, ReachLast(s) PROVE OwnTypes'
  BY <1>9, <1>W DEF ReachLast, Goto, OwnTypes, Label
<1>10. ASSUME NEW s \in Calls, WriteTrailers(s) PROVE OwnTypes'
  BY <1>10 DEF WriteTrailers, Fails, Goto, OwnTypes, callVars, Label
<1>11. ASSUME UNCHANGED Own PROVE OwnTypes'
  BY <1>11 DEF Own, OwnTypes, callVars, ctlVars
<1>12. CASE UNCHANGED vars
  BY <1>11, <1>12 DEF vars, Own
<1> QED
  BY <1>1, <1>2, <1>3, <1>4, <1>5, <1>6, <1>7, <1>8, <1>9, <1>10, <1>11, <1>12
     DEF Next, Callers, Callback, Run, RivalWrites, Transmit, PeerReset, WindowUpdate, ConnectionLost
----------------------------------------------------------------------------
(* What a step does to one stream *)

SameCall(s) == UNCHANGED <<caller[s], cancelled[s], given[s]>>
SameCtl(s) == UNCHANGED <<headers[s], dataQueue[s], dataSent[s], pc[s]>>
SameFlow(s) == UNCHANGED <<endStream[s], accepted[s], sent[s], writes[s], marks[s], localClosed[s]>>
SameOps(s) == callbacks'[s] = callbacks[s]

Posts(s, op) == ~localClosed[s] /\ callbacks'[s] = Append(callbacks[s], op) /\ SameCtl(s) /\ SameFlow(s)

StartsCall(s) == \E end \in BOOLEAN :
    /\ caller[s] = "new" /\ (end => ~clientSide) /\ Posts(s, Op("headers", 0, end))
    /\ caller'[s] = (IF end THEN "done" ELSE "open") /\ UNCHANGED <<cancelled[s], given[s]>>

GivesData(s) == \E n \in Nat \ {0}, end \in BOOLEAN :
    /\ caller[s] = "open" /\ (end => clientSide) /\ Posts(s, Op("data", n, end))
    /\ given'[s] = given[s] + n /\ given[s] + n <= MaxBytes
    /\ caller'[s] = (IF end THEN "done" ELSE "open") /\ UNCHANGED cancelled[s]

EndsCall(s) ==
    /\ caller[s] = "open" /\ ~clientSide /\ Posts(s, Op("headers", 0, TRUE))
    /\ caller'[s] = "done" /\ UNCHANGED <<cancelled[s], given[s]>>

Cancels(s) ==
    /\ ~cancelled[s] /\ caller[s] # "new" /\ Posts(s, Op("rst", 0, FALSE))
    /\ cancelled'[s] = TRUE /\ UNCHANGED <<caller[s], given[s]>>

Takes(s, kind) ==
    /\ callbacks[s] # <<>> /\ Head(callbacks[s]).kind = kind
    /\ callbacks'[s] = Tail(callbacks[s]) /\ SameCall(s)

TakesHeaders(s) ==
    /\ Takes(s, "headers") /\ SameFlow(s) /\ UNCHANGED <<dataSent[s], pc[s]>>
    /\ \/ /\ headers[s] = "none" /\ headers'[s] = (IF Head(callbacks[s]).end THEN "end" ELSE "open")
          /\ dataQueue'[s] = dataQueue[s]
       \/ /\ headers[s] # "none" /\ dataQueue'[s] = Append(dataQueue[s], LastDataFrame)
          /\ headers'[s] = headers[s]

TakesData(s) ==
    /\ Takes(s, "data") /\ SameFlow(s) /\ UNCHANGED <<headers[s], dataSent[s], pc[s]>>
    /\ dataQueue'[s] = Append(dataQueue[s], Head(callbacks[s]))

TakesReset(s) ==
    /\ Takes(s, "rst") /\ SameCtl(s) /\ UNCHANGED <<endStream[s], accepted[s], sent[s], writes[s]>>
    /\ \/ marks'[s] = marks[s] \cup {"rst"} /\ localClosed'[s] = TRUE
       \/ UNCHANGED <<marks[s], localClosed[s]>>

Closed(s) == marks[s] = {} /\ marks'[s] = {"end"} /\ localClosed'[s] = TRUE /\ pc'[s] = "done"
StillOpen(s) == UNCHANGED <<marks[s], localClosed[s]>>

PutsHeaders(s) ==
    /\ pc[s] = "headers" /\ headers[s] # "none" /\ ~localClosed[s]
    /\ SameCall(s) /\ SameOps(s) /\ UNCHANGED <<headers[s], dataQueue[s], dataSent[s]>>
    /\ UNCHANGED <<endStream[s], accepted[s], sent[s], writes[s]>>
    /\ \/ headers[s] = "end" /\ Closed(s)
       \/ StillOpen(s) /\ pc'[s] \in {"failed", "data"}

Dequeues(s) ==
    /\ pc[s] = "data" /\ ~localClosed[s] /\ dataQueue[s] # <<>> /\ dataQueue'[s] = Tail(dataQueue[s])
    /\ SameCall(s) /\ SameOps(s) /\ UNCHANGED <<headers[s], sent[s]>> /\ StillOpen(s)

PutsData(s) ==
    LET frame == Head(dataQueue[s]) IN
    /\ Dequeues(s) /\ frame.kind = "data"
    /\ endStream'[s] = frame.end /\ accepted'[s] = accepted[s] + frame.n
    /\ writes'[s] = writes[s] + 1 /\ dataSent'[s] = writes[s] + 1
    /\ pc'[s] = (IF frame.end THEN "done" ELSE "data")

PutsLast(s) ==
    /\ Dequeues(s) /\ Head(dataQueue[s]).kind = "last" /\ pc'[s] = "trailers"
    /\ UNCHANGED <<endStream[s], accepted[s], writes[s], dataSent[s]>>

PutsTrailers(s) ==
    /\ pc[s] = "trailers" /\ ~localClosed[s] /\ dataSent[s] \in fired[s]
    /\ SameCall(s) /\ SameOps(s) /\ UNCHANGED <<headers[s], dataQueue[s], dataSent[s]>>
    /\ UNCHANGED <<endStream[s], accepted[s], sent[s], writes[s]>>
    /\ Closed(s) \/ (StillOpen(s) /\ pc'[s] = "failed")

Transmits(s) ==
    /\ SameCall(s) /\ SameOps(s) /\ SameCtl(s) /\ UNCHANGED <<endStream[s], accepted[s], writes[s]>>
    /\ sent'[s] \in Nat /\ sent[s] <= sent'[s] /\ (sent'[s] = sent[s] \/ marks[s] = {})
    /\ localClosed[s] => localClosed'[s]
    /\ marks'[s] = marks[s] \/ (endStream[s] /\ marks'[s] = marks[s] \cup {"end"})

PeerCloses(s) ==
    /\ SameCall(s) /\ SameOps(s) /\ SameCtl(s)
    /\ UNCHANGED <<endStream[s], accepted[s], sent[s], writes[s], localClosed[s]>>
    /\ marks'[s] = marks[s] \cup {"peer_rst"}

Untouched(s) == SameCall(s) /\ SameOps(s) /\ SameCtl(s) /\ SameFlow(s)

LEMMA CallSteps ==
    ASSUME OwnTypes, NEW s \in Calls, NEW r \in Calls, Callers(r)
    PROVE  /\ clientSide' = clientSide
           /\ r # s => Untouched(s)
           /\ r = s => StartsCall(s) \/ GivesData(s) \/ EndsCall(s) \/ Cancels(s)
<1> USE DEF OwnTypes, Calls, Untouched, SameCall, SameOps, SameCtl, SameFlow, flowVars, ctlVars
<1>P. ASSUME NEW op, Post(r, op)
      PROVE  /\ clientSide' = clientSide
             /\ r # s => SameOps(s) /\ SameCtl(s) /\ SameFlow(s)
             /\ Posts(r, op)
  BY <1>P DEF Post, Posts
<1>1. ASSUME NEW end \in BOOLEAN, SendHeaders(r, end)
      PROVE  clientSide' = clientSide /\ (r # s => Untouched(s)) /\ (r = s => StartsCall(s))
  <2>1. Post(r, Op("headers", 0, end))
    BY <1>1 DEF SendHeaders
  <2>2. r # s => caller'[s] = caller[s] /\ cancelled'[s] = cancelled[s] /\ given'[s] = given[s]
    BY <1>1 DEF SendHeaders
  <2>3. /\ caller[r] = "new" /\ (end => ~clientSide) /\ caller'[r] = (IF end THEN "done" ELSE "open")
        /\ UNCHANGED <<cancelled[r], given[r]>>
    BY <1>1 DEF SendHeaders
  <2> QED
    BY <1>P, <2>1, <2>2, <2>3 DEF StartsCall
<1>2. ASSUME NEW n \in 1..MaxBytes, NEW end \in BOOLEAN, SendData(r, n, end)
      PROVE  clientSide' = clientSide /\ (r # s => Untouched(s)) /\ (r = s => GivesData(s))
  <2>1. Post(r, Op("data", n, end)) /\ n \in Nat \ {0}
    BY <1>2, OutboundAssumption DEF SendData
  <2>2. r # s => caller'[s] = caller[s] /\ cancelled'[s] = cancelled[s] /\ given'[s] = given[s]
    BY <1>2 DEF SendData
  <2>3. /\ caller[r] = "open" /\ (end => clientSide) /\ caller'[r] = (IF end THEN "done" ELSE "open")
        /\ given'[r] = given[r] + n /\ given[r] + n <= MaxBytes /\ UNCHANGED cancelled[r]
    BY <1>2 DEF SendData
  <2> QED
    BY <1>P, <2>1, <2>2, <2>3 DEF GivesData
<1>3. ASSUME SendTrailers(r)
      PROVE  clientSide' = clientSide /\ (r # s => Untouched(s)) /\ (r = s => EndsCall(s))
  <2>1. Post(r, Op("headers", 0, TRUE))
    BY <1>3 DEF SendTrailers
  <2>2. r # s => caller'[s] = caller[s] /\ cancelled'[s] = cancelled[s] /\ given'[s] = given[s]
    BY <1>3 DEF SendTrailers
  <2>3. /\ caller[r] = "open" /\ ~clientSide /\ caller'[r] = "done"
        /\ UNCHANGED <<cancelled[r], given[r]>>
    BY <1>3 DEF SendTrailers
  <2> QED
    BY <1>P, <2>1, <2>2, <2>3 DEF EndsCall
<1>4. ASSUME CancelByLocal(r)
      PROVE  clientSide' = clientSide /\ (r # s => Untouched(s)) /\ (r = s => Cancels(s))
  <2>1. Post(r, Op("rst", 0, FALSE))
    BY <1>4 DEF CancelByLocal
  <2>2. r # s => caller'[s] = caller[s] /\ cancelled'[s] = cancelled[s] /\ given'[s] = given[s]
    BY <1>4 DEF CancelByLocal
  <2>3. /\ ~cancelled[r] /\ caller[r] # "new" /\ cancelled'[r] = TRUE /\ UNCHANGED <<caller[r], given[r]>>
    BY <1>4 DEF CancelByLocal
  <2> QED
    BY <1>P, <2>1, <2>2, <2>3 DEF Cancels
<1> QED
  BY <1>1, <1>2, <1>3, <1>4 DEF Callers

LEMMA CallbackSteps ==
    ASSUME OwnTypes, Flow!TypeOK, NEW s \in Calls, NEW r \in Calls, Callback(r)
    PROVE  /\ clientSide' = clientSide
           /\ r # s => Untouched(s)
           /\ r = s => TakesHeaders(s) \/ TakesData(s) \/ TakesReset(s)
<1> USE DEF OwnTypes, Calls, Untouched, SameCall, SameOps, SameCtl, SameFlow
<1>C. ASSUME NEW kind, NextCallback(r, kind)
      PROVE  clientSide' = clientSide /\ SameCall(s) /\ (r # s => SameOps(s)) /\ Takes(r, kind)
  BY <1>C DEF NextCallback, Takes, callVars
<1>1. ASSUME HeadersCallback(r)
      PROVE  clientSide' = clientSide /\ (r # s => Untouched(s)) /\ (r = s => TakesHeaders(s))
  <2>1. NextCallback(r, "headers") /\ SameFlow(s) /\ UNCHANGED <<dataSent[s], pc[s]>>
    BY <1>1 DEF HeadersCallback, flowVars
  <2>2. r # s => headers'[s] = headers[s] /\ dataQueue'[s] = dataQueue[s]
    BY <1>1 DEF HeadersCallback
  <2>3. \/ /\ headers[r] = "none" /\ headers'[r] = (IF Head(callbacks[r]).end THEN "end" ELSE "open")
           /\ dataQueue'[r] = dataQueue[r]
        \/ /\ headers[r] # "none" /\ dataQueue'[r] = Append(dataQueue[r], LastDataFrame)
           /\ headers'[r] = headers[r]
    BY <1>1 DEF HeadersCallback
  <2> QED
    BY <1>C, <2>1, <2>2, <2>3 DEF TakesHeaders
<1>2. ASSUME DataCallback(r)
      PROVE  clientSide' = clientSide /\ (r # s => Untouched(s)) /\ (r = s => TakesData(s))
  <2>1. NextCallback(r, "data") /\ SameFlow(s) /\ UNCHANGED <<headers[s], dataSent[s], pc[s]>>
    BY <1>2 DEF DataCallback, flowVars
  <2>2. (r # s => dataQueue'[s] = dataQueue[s]) /\ dataQueue'[r] = Append(dataQueue[r], Head(callbacks[r]))
    BY <1>2 DEF DataCallback
  <2> QED
    BY <1>C, <2>1, <2>2 DEF TakesData
<1>3. ASSUME RstCallback(r)
      PROVE  clientSide' = clientSide /\ (r # s => Untouched(s)) /\ (r = s => TakesReset(s))
  <2>1. NextCallback(r, "rst") /\ SameCtl(s)
    BY <1>3 DEF RstCallback, ctlVars
  <2>2. /\ UNCHANGED <<endStream[s], accepted[s], sent[s], writes[s]>>
        /\ r # s => UNCHANGED <<marks[s], localClosed[s]>>
        /\ \/ marks'[r] = marks[r] \cup {"rst"} /\ localClosed'[r] = TRUE
           \/ UNCHANGED <<marks[r], localClosed[r]>>
    <3>1. CASE UNCHANGED flowVars
      BY <3>1 DEF flowVars
    <3>2. CASE FC!LocalReset(r)
      BY <3>2 DEF FC!LocalReset, FC!itemVars, FC!ghosts, Flow!TypeOK
    <3> QED
      BY <1>3, <3>1, <3>2 DEF RstCallback
  <2> QED
    BY <1>C, <2>1, <2>2 DEF TakesReset
<1> QED
  BY <1>1, <1>2, <1>3 DEF Callback

LEMMA RunSteps ==
    ASSUME OwnTypes, Flow!TypeOK, NEW s \in Calls, NEW r \in Calls, Run(r)
    PROVE  /\ clientSide' = clientSide
           /\ r # s => Untouched(s)
           /\ r = s => PutsHeaders(s) \/ PutsData(s) \/ PutsLast(s) \/ PutsTrailers(s)
<1> USE DEF OwnTypes, Calls, Untouched, SameCall, SameOps, SameCtl, SameFlow, StillOpen, callVars
<1>F. ASSUME UNCHANGED flowVars PROVE SameFlow(s)
  BY <1>F DEF flowVars
<1>T. ASSUME FC!SendTrailers(r)
      PROVE  /\ r # s => SameFlow(s)
             /\ marks[r] = {} /\ marks'[r] = {"end"} /\ localClosed'[r] = TRUE
             /\ UNCHANGED <<endStream[s], accepted[s], sent[s], writes[s]>>
  BY <1>T DEF FC!SendTrailers, FC!itemVars, FC!ghosts, Flow!TypeOK
<1>1. ASSUME WriteHeaders(r)
      PROVE  clientSide' = clientSide /\ (r # s => Untouched(s)) /\ (r = s => PutsHeaders(s))
  <2>1. /\ pc[r] = "headers" /\ ~localClosed[r] /\ headers[r] # "none" /\ clientSide' = clientSide
        /\ SameCall(s) /\ SameOps(s) /\ UNCHANGED <<headers[s], dataQueue[s], dataSent[s]>>
    BY <1>1 DEF WriteHeaders, At
  <2>2. \/ UNCHANGED flowVars /\ \E l \in {"failed", "data"} : Goto(r, l)
        \/ headers[r] = "end" /\ FC!SendTrailers(r) /\ Goto(r, "done")
    BY <1>1 DEF WriteHeaders, Fails
  <2>3. CASE UNCHANGED flowVars /\ \E l \in {"failed", "data"} : Goto(r, l)
    <3>1. (r # s => pc'[s] = pc[s]) /\ pc'[r] \in {"failed", "data"}
      BY <2>3 DEF Goto
    <3> QED
      BY <1>F, <2>1, <2>3, <3>1 DEF PutsHeaders
  <2>4. CASE headers[r] = "end" /\ FC!SendTrailers(r) /\ Goto(r, "done")
    <3>1. (r # s => pc'[s] = pc[s]) /\ pc'[r] = "done"
      BY <2>4 DEF Goto
    <3> QED
      BY <1>T, <2>1, <2>4, <3>1 DEF PutsHeaders, Closed
  <2> QED
    BY <2>2, <2>3, <2>4
<1>W. ASSUME NextWrite(r)
      PROVE  /\ clientSide' = clientSide /\ SameCall(s) /\ SameOps(s) /\ headers'[s] = headers[s]
             /\ r # s => dataQueue'[s] = dataQueue[s]
             /\ pc[r] = "data" /\ ~localClosed[r] /\ dataQueue[r] # <<>>
             /\ dataQueue'[r] = Tail(dataQueue[r])
  BY <1>W DEF NextWrite, At
<1>2. ASSUME ForwardData(r)
      PROVE  clientSide' = clientSide /\ (r # s => Untouched(s)) /\ (r = s => PutsData(s))
  <2> DEFINE frame == Head(dataQueue[r])
  <2>1. /\ NextWrite(r) /\ frame.kind = "data" /\ FC!WriteData(r, frame.n, frame.end)
        /\ (r # s => pc'[s] = pc[s]) /\ pc'[r] = (IF frame.end THEN "done" ELSE "data")
    BY <1>2 DEF ForwardData, Goto
  <2>2. (r # s => dataSent'[s] = dataSent[s]) /\ dataSent'[r] = writes[r] + 1
    BY <1>2 DEF ForwardData, NewEvent
  <2> HIDE DEF frame
  <2>3. /\ endStream'[r] = frame.end /\ accepted'[r] = accepted[r] + frame.n
        /\ writes'[r] = writes[r] + 1 /\ UNCHANGED <<sent[r], marks[r], localClosed[r]>>
        /\ r # s => SameFlow(s)
    BY <2>1 DEF FC!WriteData, FC!h2Vars, Flow!TypeOK
  <2> QED
    BY <1>W, <2>1, <2>2, <2>3 DEF PutsData, Dequeues, frame
<1>3. ASSUME ReachLast(r)
      PROVE  clientSide' = clientSide /\ (r # s => Untouched(s)) /\ (r = s => PutsLast(s))
  <2>1. /\ NextWrite(r) /\ Head(dataQueue[r]).kind = "last" /\ UNCHANGED <<flowVars, dataSent>>
        /\ (r # s => pc'[s] = pc[s]) /\ pc'[r] = "trailers"
    BY <1>3 DEF ReachLast, Goto
  <2> QED
    BY <1>F, <1>W, <2>1 DEF PutsLast, Dequeues
<1>4. ASSUME WriteTrailers(r)
      PROVE  clientSide' = clientSide /\ (r # s => Untouched(s)) /\ (r = s => PutsTrailers(s))
  <2>1. /\ pc[r] = "trailers" /\ ~localClosed[r] /\ dataSent[r] \in fired[r] /\ clientSide' = clientSide
        /\ SameCall(s) /\ SameOps(s) /\ UNCHANGED <<headers[s], dataQueue[s], dataSent[s]>>
    BY <1>4 DEF WriteTrailers, At, LastDataSent
  <2>2. \/ UNCHANGED flowVars /\ Goto(r, "failed")
        \/ FC!SendTrailers(r) /\ Goto(r, "done")
    BY <1>4 DEF WriteTrailers, Fails
  <2>3. CASE UNCHANGED flowVars /\ Goto(r, "failed")
    <3>1. (r # s => pc'[s] = pc[s]) /\ pc'[r] = "failed"
      BY <2>3 DEF Goto
    <3> QED
      BY <1>F, <2>1, <2>3, <3>1 DEF PutsTrailers
  <2>4. CASE FC!SendTrailers(r) /\ Goto(r, "done")
    <3>1. (r # s => pc'[s] = pc[s]) /\ pc'[r] = "done"
      BY <2>4 DEF Goto
    <3> QED
      BY <1>T, <2>1, <2>4, <3>1 DEF PutsTrailers, Closed
  <2> QED
    BY <2>2, <2>3, <2>4
<1> QED
  BY <1>1, <1>2, <1>3, <1>4 DEF Run

LEMMA ConnectionSteps ==
    ASSUME OwnTypes, Flow!TypeOK, UNCHANGED Own, NEW s \in Calls
    PROVE  /\ clientSide' = clientSide /\ SameCall(s) /\ SameOps(s) /\ SameCtl(s)
           /\ \A r \in Streams : Flow!Transmit(r) => (r = s /\ Transmits(s)) \/ Untouched(s)
           /\ \A r \in Streams : FC!PeerReset(r) => (r = s /\ PeerCloses(s)) \/ Untouched(s)
           /\ \A r \in Rivals, n \in Nat, e \in BOOLEAN : FC!WriteData(r, n, e) => Untouched(s)
           /\ \A r \in Streams, d \in 1..MaxWindow : FC!StreamWindowUpdate(r, d) => Untouched(s)
           /\ \A d \in 1..MaxWindow : FC!ConnWindowUpdate(d) => Untouched(s)
           /\ FC!ConnectionLost => Untouched(s)
           /\ UNCHANGED flowVars => Untouched(s)
<1> USE DEF OwnTypes, Calls, SameCall, SameOps, SameCtl, SameFlow
<1>1. clientSide' = clientSide /\ SameCall(s) /\ SameOps(s) /\ SameCtl(s)
  BY DEF Own, callVars, ctlVars
<1>2. ASSUME NEW r \in Streams, Flow!Transmit(r) PROVE (r = s /\ Transmits(s)) \/ Untouched(s)
  <2>1. CASE Flow!TransmitClosed(r) \/ Flow!TransmitFails(r)
    BY <1>1, <2>1 DEF Flow!TransmitClosed, Flow!TransmitFails, Flow!itemVars, Flow!h2Vars, Flow!ghosts,
       Untouched
  <2>2. CASE Flow!TransmitPart(r) \/ Flow!TransmitAll(r)
    <3>1. Flow!Emit(r) /\ ~localClosed[r]
      BY <2>2 DEF Flow!TransmitPart, Flow!TransmitAll, Flow!Emit, Flow!Skips
    <3>2. /\ Flow!ToSend(r) \in Nat /\ sent'[r] = sent[r] + Flow!ToSend(r) /\ accepted' = accepted
          /\ \A q \in Streams \ {r} : sent'[q] = sent[q]
      BY <3>1, FlowAssumed, Flow!Slice, Flow!Emitted
    <3>3. UNCHANGED <<endStream, writes>>
      BY <3>1 DEF Flow!Emit
    <3>4. /\ r # s => marks'[s] = marks[s] /\ localClosed'[s] = localClosed[s]
          /\ marks'[r] = marks[r] \/ (endStream[r] /\ marks'[r] = marks[r] \cup {"end"})
      <4>1. CASE Flow!TransmitPart(r)
        <5>1. localClosed' = localClosed
          BY <4>1 DEF Flow!TransmitPart
        <5>2. marks' = marks \/ (endStream[r] /\ marks' = [marks EXCEPT ![r] = @ \cup {"end"}])
          BY <3>2, <4>1 DEF Flow!TransmitPart, Flow!MustSend
        <5> QED
          BY <5>1, <5>2 DEF Flow!TypeOK
      <4>2. CASE Flow!TransmitAll(r)
        BY <4>2 DEF Flow!TransmitAll, Flow!TypeOK
      <4> QED
        BY <2>2, <4>1, <4>2
    <3>5. CASE r = s
      <4>1. sent'[s] \in Nat /\ sent[s] <= sent'[s] /\ (sent'[s] = sent[s] \/ Flow!ToSend(s) > 0)
        BY <3>2, <3>5 DEF Flow!TypeOK
      <4>2. Flow!ToSend(s) > 0 => marks[s] = {}
        BY <3>1, <3>5 DEF Flow!Emit, Flow!MustSend, Flow!Refused
      <4> QED
        BY <1>1, <3>1, <3>2, <3>3, <3>4, <3>5, <4>1, <4>2 DEF Transmits
    <3>6. CASE r # s
      BY <1>1, <3>2, <3>3, <3>4, <3>6 DEF Untouched
    <3> QED
      BY <3>5, <3>6
  <2> QED
    BY <1>2, <2>1, <2>2 DEF Flow!Transmit
<1>3. ASSUME NEW r \in Streams, FC!PeerReset(r) PROVE (r = s /\ PeerCloses(s)) \/ Untouched(s)
  BY <1>1, <1>3 DEF FC!PeerReset, FC!itemVars, FC!ghosts, Flow!TypeOK, PeerCloses, Untouched
<1>4. ASSUME NEW r \in Rivals, NEW n \in Nat, NEW e \in BOOLEAN, FC!WriteData(r, n, e) PROVE Untouched(s)
  BY <1>1, <1>4 DEF FC!WriteData, FC!h2Vars, Flow!TypeOK, Untouched
<1>5. ASSUME \/ \E r \in Streams, d \in 1..MaxWindow : FC!StreamWindowUpdate(r, d)
             \/ \E d \in 1..MaxWindow : FC!ConnWindowUpdate(d)
             \/ FC!ConnectionLost \/ UNCHANGED flowVars
      PROVE  Untouched(s)
  BY <1>1, <1>5 DEF FC!StreamWindowUpdate, FC!ConnWindowUpdate, FC!ConnectionLost, FC!itemVars, FC!h2Vars,
     FC!ghosts, flowVars, Untouched
<1> QED
  BY <1>1, <1>2, <1>3, <1>4, <1>5

\* The steps, as one stream whose controller is modelled sees them.
LEMMA StepOf ==
    ASSUME OwnTypes, Flow!TypeOK, [Next]_vars, NEW s \in Calls
    PROVE  /\ clientSide' = clientSide
           /\ \/ StartsCall(s) \/ GivesData(s) \/ EndsCall(s) \/ Cancels(s)
              \/ TakesHeaders(s) \/ TakesData(s) \/ TakesReset(s)
              \/ PutsHeaders(s) \/ PutsData(s) \/ PutsLast(s) \/ PutsTrailers(s)
              \/ Transmits(s) \/ PeerCloses(s) \/ Untouched(s)
<1>1. ASSUME NEW r \in Calls, Callers(r) \/ Callback(r) \/ Run(r)
      PROVE  /\ clientSide' = clientSide
             /\ \/ StartsCall(s) \/ GivesData(s) \/ EndsCall(s) \/ Cancels(s)
                \/ TakesHeaders(s) \/ TakesData(s) \/ TakesReset(s)
                \/ PutsHeaders(s) \/ PutsData(s) \/ PutsLast(s) \/ PutsTrailers(s)
                \/ Untouched(s)
  BY <1>1, CallSteps, CallbackSteps, RunSteps, Zenon
<1>2. ASSUME UNCHANGED Own,
             \/ \E r \in Streams : FC!Transmit(r) \/ FC!PeerReset(r)
             \/ \E r \in Rivals : FC!WriteData(r, 1, FALSE)
             \/ \E r \in Streams, d \in 1..MaxWindow : FC!StreamWindowUpdate(r, d)
             \/ \E d \in 1..MaxWindow : FC!ConnWindowUpdate(d)
             \/ FC!ConnectionLost \/ UNCHANGED flowVars
      PROVE  clientSide' = clientSide /\ (Transmits(s) \/ PeerCloses(s) \/ Untouched(s))
  BY <1>2, ConnectionSteps, SameSteps
<1> QED
  BY <1>1, <1>2, Zenon DEF Next, RivalWrites, Transmit, PeerReset, WindowUpdate, ConnectionLost, vars, Own
----------------------------------------------------------------------------
(* The bytes of a stream, from send_data to write_data *)

\* What the call layer has given and the flow controller has not accepted is in the
\* two queues, in order.
Bytes(s) ==
    /\ given[s] <= MaxBytes
    /\ \E m \in 0..MaxBytes : Carries(dataQueue[s], accepted[s], m) /\ Carries(callbacks[s], m, given[s])

LEMMA BytesInit == Init => \A s \in Calls : Bytes(s)
BY CarriesNothing, OutboundAssumption DEF Init, FC!Init, Bytes, Calls

LEMMA BytesStep ==
    ASSUME OwnTypes, Flow!TypeOK, [Next]_vars, NEW s \in Calls, Bytes(s)
    PROVE  Bytes(s)'
<1>1. /\ callbacks[s] \in Seq(Ops) /\ dataQueue[s] \in Seq(Frames)
      /\ accepted[s] \in Nat /\ given[s] \in Nat /\ MaxBytes \in Nat
  BY OutboundAssumption DEF OwnTypes, Flow!TypeOK, Calls
<1>2. PICK m \in 0..MaxBytes : Carries(dataQueue[s], accepted[s], m) /\ Carries(callbacks[s], m, given[s])
  BY DEF Bytes
<1>3. given[s] <= MaxBytes
  BY DEF Bytes
<1>4. ASSUME NEW q \in 0..MaxBytes, given'[s] <= MaxBytes,
             Carries(dataQueue'[s], accepted'[s], q), Carries(callbacks'[s], q, given'[s])
      PROVE  Bytes(s)'
  BY <1>4 DEF Bytes
<1>U. ASSUME SameCtl(s) \/ dataQueue'[s] = dataQueue[s], SameOps(s), UNCHANGED <<accepted[s], given[s]>>
      PROVE  Bytes(s)'
  BY <1>2, <1>3, <1>4, <1>U DEF SameCtl, SameOps
<1>A. ASSUME NEW op \in Ops, Posts(s, op), given'[s] = given[s] + op.n, given'[s] <= MaxBytes
      PROVE  Bytes(s)'
  <2>1. op.n \in Nat /\ (op.kind = "data" \/ op.n = 0)
    BY OpTypes
  <2>2. Carries(Append(callbacks[s], op), m, given[s] + op.n)
    BY <1>1, <1>2, <2>1, CarriesAppended
  <2> QED
    BY <1>2, <1>4, <1>A, <2>2 DEF Posts, SameCtl, SameFlow
<1>5. CASE StartsCall(s) \/ EndsCall(s) \/ Cancels(s)
  <2>1. PICK op \in Ops : Posts(s, op) /\ op.n = 0 /\ given'[s] = given[s]
    BY <1>5, OpTypes DEF StartsCall, EndsCall, Cancels
  <2> QED
    BY <1>1, <1>3, <1>A, <2>1
<1>6. CASE GivesData(s)
  <2>1. PICK n \in Nat \ {0}, end \in BOOLEAN :
          /\ Posts(s, Op("data", n, end)) /\ given'[s] = given[s] + n /\ given[s] + n <= MaxBytes
    BY <1>6 DEF GivesData
  <2>2. Op("data", n, end) \in Ops /\ Op("data", n, end).n = n
    BY OpTypes
  <2> QED
    BY <1>A, <2>1, <2>2
<1>T. ASSUME NEW kind, Takes(s, kind)
      PROVE  /\ Head(callbacks[s]) \in Ops /\ Head(callbacks[s]).n \in Nat
             /\ kind # "data" => Head(callbacks[s]).n = 0
             /\ m + Head(callbacks[s]).n <= given[s]
             /\ Carries(callbacks'[s], m + Head(callbacks[s]).n, given'[s])
  <2>1. Head(callbacks[s]) \in Ops /\ callbacks[s] # <<>> /\ Head(callbacks[s]).kind = kind
        /\ callbacks'[s] = Tail(callbacks[s]) /\ given'[s] = given[s]
    BY <1>1, <1>T, HeadOps DEF Takes, SameCall
  <2>2. Head(callbacks[s]).n \in Nat /\ (kind # "data" => Head(callbacks[s]).n = 0)
    BY <2>1, OpTypes
  <2> QED
    BY <1>1, <1>2, <2>1, <2>2, CarriesRest
<1>7. CASE TakesHeaders(s)
  <2>1. Carries(callbacks'[s], m, given'[s]) /\ accepted'[s] = accepted[s] /\ given'[s] = given[s]
    BY <1>7, <1>T DEF TakesHeaders, Takes, SameCall, SameFlow
  <2>2. Carries(dataQueue'[s], accepted[s], m)
    <3>1. CASE dataQueue'[s] = dataQueue[s]
      BY <1>2, <3>1
    <3>2. CASE dataQueue'[s] = Append(dataQueue[s], LastDataFrame)
      <4>1. Carries(Append(dataQueue[s], LastDataFrame), accepted[s], m + 0)
        BY <1>1, <1>2, OpTypes, CarriesAppended
      <4> QED
        BY <3>2, <4>1
    <3> QED
      BY <1>7, <3>1, <3>2 DEF TakesHeaders
  <2> QED
    BY <1>3, <1>4, <2>1, <2>2
<1>8. CASE TakesData(s)
  <2> DEFINE op == Head(callbacks[s])
  <2>1. /\ op \in Ops /\ op.n \in Nat /\ m + op.n <= given[s] /\ Carries(callbacks'[s], m + op.n, given'[s])
    BY <1>8, <1>T DEF TakesData
  <2>2. /\ op.kind = "data" /\ dataQueue'[s] = Append(dataQueue[s], op)
        /\ accepted'[s] = accepted[s] /\ given'[s] = given[s]
    BY <1>8 DEF TakesData, Takes, SameCall, SameFlow
  <2> HIDE DEF op
  <2>3. op \in Frames
    BY <2>1, <2>2, OpTypes
  <2>4. Carries(dataQueue'[s], accepted'[s], m + op.n)
    BY <1>1, <1>2, <2>1, <2>2, <2>3, CarriesAppended
  <2>5. m + op.n \in 0..MaxBytes
    BY <1>1, <1>3, <2>1
  <2> QED
    BY <1>3, <1>4, <2>1, <2>2, <2>4, <2>5
<1>9. CASE TakesReset(s)
  <2>1. /\ Carries(callbacks'[s], m, given'[s]) /\ given'[s] = given[s]
        /\ accepted'[s] = accepted[s] /\ dataQueue'[s] = dataQueue[s]
    BY <1>9, <1>T DEF TakesReset, Takes, SameCall, SameCtl
  <2> QED
    BY <1>2, <1>3, <1>4, <2>1
<1>10. CASE PutsData(s) \/ PutsLast(s)
  <2>1. /\ dataQueue[s] # <<>> /\ dataQueue'[s] = Tail(dataQueue[s])
        /\ callbacks'[s] = callbacks[s] /\ given'[s] = given[s]
    BY <1>10 DEF PutsData, PutsLast, Dequeues, SameCall, SameOps
  <2>2. Head(dataQueue[s]).n \in Nat /\ accepted'[s] = accepted[s] + Head(dataQueue[s]).n
    <3>1. Head(dataQueue[s]) \in Frames
      BY <1>1, <2>1, HeadOps
    <3>2. CASE PutsData(s)
      BY <3>1, <3>2, OpTypes DEF PutsData
    <3>3. CASE PutsLast(s)
      <4>1. Head(dataQueue[s]).n = 0 /\ accepted'[s] = accepted[s]
        BY <3>1, <3>3, OpTypes DEF PutsLast
      <4> QED
        BY <1>1, <4>1
    <3> QED
      BY <1>10, <3>2, <3>3
  <2>3. Carries(dataQueue'[s], accepted'[s], m)
    BY <1>1, <1>2, <2>1, <2>2, CarriesRest
  <2> QED
    BY <1>2, <1>3, <1>4, <2>1, <2>3
<1>11. CASE PutsHeaders(s) \/ PutsTrailers(s) \/ Transmits(s) \/ PeerCloses(s) \/ Untouched(s)
  BY <1>11, <1>U DEF PutsHeaders, PutsTrailers, Transmits, PeerCloses, Untouched, SameCall, SameFlow
<1> QED
  BY <1>5, <1>6, <1>7, <1>8, <1>9, <1>10, <1>11, StepOf
----------------------------------------------------------------------------
(* The order of the operations of a stream *)

\* The first headers come first and start the coroutine; without END_STREAM only the
\* first do not end the stream, and with it they are alone.
Headed(s) ==
    /\ caller[s] = "new" => callbacks[s] = <<>> /\ headers[s] = "none" /\ given[s] = 0
    /\ caller[s] # "new" /\ headers[s] = "none" =>
          callbacks[s] # <<>> /\ Head(callbacks[s]).kind = "headers"
              /\ (Head(callbacks[s]).end => given[s] = 0 /\ caller[s] = "done")
    /\ headers[s] = "end" => given[s] = 0 /\ caller[s] = "done"
    /\ \A i \in DOMAIN callbacks[s] :
          callbacks[s][i].kind = "headers" /\ (i > 1 \/ headers[s] # "none") => callbacks[s][i].end

LEMMA HeadedInit == Init => \A s \in Calls : Headed(s)
BY DEF Init, Headed, Calls

LEMMA HeadedStep ==
    ASSUME OwnTypes, Flow!TypeOK, [Next]_vars, NEW s \in Calls, Headed(s)
    PROVE  Headed(s)'
<1>1. callbacks[s] \in Seq(Ops) /\ caller[s] \in {"new", "open", "done"} /\ headers[s] \in {"none", "open", "end"}
  BY DEF OwnTypes, Calls
<1>U. ASSUME SameOps(s), headers'[s] = headers[s], UNCHANGED <<given[s], caller[s]>> PROVE Headed(s)'
  BY <1>U DEF Headed, SameOps
<1>A. ASSUME NEW op \in Ops, Posts(s, op)
      PROVE  /\ callbacks'[s] # <<>> /\ headers'[s] = headers[s]
             /\ Head(callbacks'[s]) = IF callbacks[s] = <<>> THEN op ELSE Head(callbacks[s])
             /\ \A i \in DOMAIN callbacks'[s] :
                   \/ i \in DOMAIN callbacks[s] /\ callbacks'[s][i] = callbacks[s][i]
                   \/ callbacks'[s][i] = op /\ (callbacks[s] = <<>> => i = 1)
  BY <1>1, <1>A, AppendOps DEF Posts, SameCtl
<1>2. CASE StartsCall(s)
  <2>1. PICK end \in BOOLEAN : /\ caller[s] = "new" /\ Posts(s, Op("headers", 0, end)) /\ given'[s] = given[s]
                               /\ caller'[s] = (IF end THEN "done" ELSE "open")
    BY <1>2 DEF StartsCall
  <2> DEFINE op == Op("headers", 0, end)
  <2>2. op \in Ops /\ op.kind = "headers" /\ op.end = end /\ Posts(s, op)
    BY <2>1, OpTypes
  <2> HIDE DEF op
  <2>3. callbacks[s] = <<>> /\ headers[s] = "none" /\ given[s] = 0
    BY <2>1 DEF Headed
  <2>4. /\ callbacks'[s] # <<>> /\ headers'[s] = "none" /\ Head(callbacks'[s]) = op
        /\ \A i \in DOMAIN callbacks'[s] : i = 1
    BY <1>A, <2>2, <2>3
  <2> QED
    BY <2>1, <2>2, <2>3, <2>4 DEF Headed
<1>3. CASE GivesData(s) \/ EndsCall(s) \/ Cancels(s)
  <2>1. PICK op \in Ops :
          /\ Posts(s, op) /\ caller[s] # "new" /\ caller'[s] \in {"open", "done"}
          /\ op.kind = "headers" => op.end
          /\ caller[s] = "done" => caller'[s] = "done" /\ given'[s] = given[s]
    <3>1. CASE GivesData(s)
      <4>1. PICK n \in Nat \ {0}, end \in BOOLEAN :
              /\ Posts(s, Op("data", n, end)) /\ caller[s] = "open" /\ caller'[s] \in {"open", "done"}
        BY <3>1 DEF GivesData
      <4>2. Op("data", n, end) \in Ops /\ Op("data", n, end).kind = "data"
        BY OpTypes
      <4> QED
        BY <4>1, <4>2
    <3>2. CASE EndsCall(s)
      BY <3>2, OpTypes DEF EndsCall
    <3>3. CASE Cancels(s)
      <4>1. Op("rst", 0, FALSE) \in Ops /\ Op("rst", 0, FALSE).kind = "rst"
        BY OpTypes
      <4>2. Posts(s, Op("rst", 0, FALSE)) /\ caller[s] # "new" /\ caller'[s] = caller[s] /\ given'[s] = given[s]
        BY <3>3 DEF Cancels
      <4> QED
        BY <1>1, <4>1, <4>2
    <3> QED
      BY <1>3, <3>1, <3>2, <3>3
  <2>2. /\ callbacks'[s] # <<>> /\ headers'[s] = headers[s]
        /\ Head(callbacks'[s]) = IF callbacks[s] = <<>> THEN op ELSE Head(callbacks[s])
        /\ \A i \in DOMAIN callbacks'[s] :
              (i \in DOMAIN callbacks[s] /\ callbacks'[s][i] = callbacks[s][i]) \/ callbacks'[s][i] = op
    BY <1>A, <2>1
  <2> QED
    BY <2>1, <2>2 DEF Headed
<1>T. ASSUME NEW kind, Takes(s, kind)
      PROVE  /\ caller[s] # "new" /\ UNCHANGED <<caller[s], given[s]>>
             /\ Head(callbacks[s]).kind = kind /\ Head(callbacks[s]) = callbacks[s][1] /\ 1 \in DOMAIN callbacks[s]
             /\ headers[s] = "none" => kind = "headers"
             /\ \A i \in DOMAIN callbacks'[s] : callbacks'[s][i].kind = "headers" => callbacks'[s][i].end
  <2>1. callbacks[s] # <<>> /\ callbacks'[s] = Tail(callbacks[s]) /\ Head(callbacks[s]).kind = kind
        /\ UNCHANGED <<caller[s], given[s]>>
    BY <1>T DEF Takes, SameCall
  <2>2. /\ Head(callbacks[s]) = callbacks[s][1] /\ 1 \in DOMAIN callbacks[s]
        /\ \A i \in DOMAIN callbacks'[s] : i + 1 > 1 /\ i + 1 \in DOMAIN callbacks[s]
                                           /\ callbacks'[s][i] = callbacks[s][i + 1]
    BY <1>1, <2>1, HeadOps
  <2> QED
    BY <2>1, <2>2 DEF Headed
<1>4. CASE TakesHeaders(s)
  <2>1. Takes(s, "headers") /\ Head(callbacks[s]).end \in BOOLEAN
    BY <1>1, <1>4, HeadOps, OpTypes DEF TakesHeaders, Takes
  <2>2. CASE headers[s] = "none" /\ headers'[s] = (IF Head(callbacks[s]).end THEN "end" ELSE "open")
    BY <1>T, <2>1, <2>2 DEF Headed
  <2>3. CASE headers[s] # "none" /\ headers'[s] = headers[s]
    BY <1>T, <2>1, <2>3 DEF Headed
  <2> QED
    BY <1>4, <2>2, <2>3 DEF TakesHeaders
<1>5. CASE TakesData(s) \/ TakesReset(s)
  <2>1. PICK kind \in {"data", "rst"} : Takes(s, kind) /\ headers'[s] = headers[s]
    BY <1>5 DEF TakesData, TakesReset, SameCtl
  <2> QED
    BY <1>T, <2>1 DEF Headed
<1>6. CASE PutsHeaders(s) \/ PutsData(s) \/ PutsLast(s) \/ PutsTrailers(s)
  BY <1>6, <1>U DEF PutsHeaders, PutsData, PutsLast, PutsTrailers, Dequeues, SameCall
<1>7. CASE Transmits(s) \/ PeerCloses(s) \/ Untouched(s)
  BY <1>7, <1>U DEF Transmits, PeerCloses, Untouched, SameCall, SameCtl
<1> QED
  BY <1>2, <1>3, <1>4, <1>5, <1>6, <1>7, StepOf

\* The operation that ends the stream: no send_data comes after it.
Closes(op) == op.kind = "headers" /\ op.end

HasLast(s) == \E i \in DOMAIN dataQueue[s] : dataQueue[s][i].kind = "last"
NoMoreData(s) == caller[s] = "done" /\ \A j \in DOMAIN callbacks[s] : callbacks[s][j].kind # "data"

\* Once the sentinel is in the queue, or behind it, nothing more is given or queued:
\* it is behind all the data of the stream.
Ordered(s) ==
    /\ \A i \in DOMAIN callbacks[s] : Closes(callbacks[s][i]) =>
          caller[s] = "done" /\ \A j \in DOMAIN callbacks[s] : i < j => callbacks[s][j].kind # "data"
    /\ \A i, j \in DOMAIN dataQueue[s] :
          dataQueue[s][i].kind = "last" /\ i < j => dataQueue[s][j].kind = "last"
    /\ HasLast(s) \/ pc[s] = "trailers" => NoMoreData(s)
    /\ pc[s] = "trailers" => \A i \in DOMAIN dataQueue[s] : dataQueue[s][i].kind = "last"

LEMMA OrderedInit == Init => \A s \in Calls : Ordered(s)
BY DEF Init, Ordered, HasLast, Calls

LEMMA OrderedStep ==
    ASSUME OwnTypes, Flow!TypeOK, [Next]_vars, NEW s \in Calls, Headed(s), Ordered(s)
    PROVE  Ordered(s)'
<1>1. /\ callbacks[s] \in Seq(Ops) /\ dataQueue[s] \in Seq(Frames)
      /\ caller[s] \in {"new", "open", "done"}
  BY DEF OwnTypes, Calls
<1>U. ASSUME SameOps(s), dataQueue'[s] = dataQueue[s], pc'[s] # "trailers" \/ pc'[s] = pc[s],
             UNCHANGED caller[s]
      PROVE  Ordered(s)'
  BY <1>U DEF Ordered, SameOps, HasLast, NoMoreData
\* The call layer ends the stream once.
<1>A. ASSUME NEW op \in Ops, Posts(s, op), caller[s] = "done" => caller'[s] = "done" /\ op.kind = "rst",
             Closes(op) => caller'[s] = "done"
      PROVE  Ordered(s)'
  <2>1. /\ DOMAIN callbacks[s] = 1..Len(callbacks[s]) /\ Len(callbacks[s]) \in Nat
        /\ DOMAIN callbacks'[s] = 1..(Len(callbacks[s]) + 1)
        /\ \A i \in DOMAIN callbacks[s] : callbacks'[s][i] = callbacks[s][i]
        /\ callbacks'[s][Len(callbacks[s]) + 1] = op
        /\ UNCHANGED <<dataQueue[s], pc[s]>>
    BY <1>1, <1>A, AppendOps DEF Posts, SameCtl
  <2>2. ASSUME NEW i \in DOMAIN callbacks'[s], Closes(callbacks'[s][i])
        PROVE  /\ caller'[s] = "done"
               /\ \A j \in DOMAIN callbacks'[s] : i < j => callbacks'[s][j].kind # "data"
    <3>1. CASE i \in DOMAIN callbacks[s]
      <4>1. Closes(callbacks[s][i])
        BY <2>1, <2>2, <3>1
      <4>2. caller[s] = "done" /\ \A j \in DOMAIN callbacks[s] : i < j => callbacks[s][j].kind # "data"
        BY <3>1, <4>1 DEF Ordered
      <4> QED
        BY <1>A, <2>1, <3>1, <4>2
    <3>2. CASE i = Len(callbacks[s]) + 1
      BY <1>A, <2>1, <2>2, <3>2
    <3> QED
      BY <2>1, <3>1, <3>2
  <2>3. NoMoreData(s) => NoMoreData(s)'
    BY <1>A, <2>1 DEF NoMoreData
  <2> QED
    BY <2>1, <2>2, <2>3 DEF Ordered, HasLast
<1>2. CASE StartsCall(s) \/ GivesData(s) \/ EndsCall(s) \/ Cancels(s)
  <2>1. PICK op \in Ops :
          /\ Posts(s, op)
          /\ caller[s] = "done" => caller'[s] = "done" /\ op.kind = "rst"
          /\ Closes(op) => caller'[s] = "done"
    <3>1. CASE StartsCall(s)
      <4>1. PICK end \in BOOLEAN : /\ Posts(s, Op("headers", 0, end)) /\ caller[s] = "new"
                                   /\ caller'[s] = (IF end THEN "done" ELSE "open")
        BY <3>1 DEF StartsCall
      <4>2. Op("headers", 0, end) \in Ops /\ Op("headers", 0, end).end = end
        BY OpTypes
      <4> QED
        BY <4>1, <4>2 DEF Closes
    <3>2. CASE GivesData(s)
      <4>1. PICK n \in Nat \ {0}, end \in BOOLEAN : Posts(s, Op("data", n, end)) /\ caller[s] = "open"
        BY <3>2 DEF GivesData
      <4>2. Op("data", n, end) \in Ops /\ Op("data", n, end).kind = "data"
        BY OpTypes
      <4> QED
        BY <4>1, <4>2 DEF Closes
    <3>3. CASE EndsCall(s)
      BY <3>3, OpTypes DEF EndsCall, Closes
    <3>4. CASE Cancels(s)
      <4>1. Op("rst", 0, FALSE) \in Ops /\ Op("rst", 0, FALSE).kind = "rst"
        BY OpTypes
      <4> QED
        BY <3>4, <4>1 DEF Cancels, Closes
    <3> QED
      BY <1>2, <3>1, <3>2, <3>3, <3>4
  <2> QED
    BY <1>A, <2>1
<1>T. ASSUME NEW kind, Takes(s, kind)
      PROVE  /\ UNCHANGED caller[s] /\ callbacks[s][1].kind = kind /\ 1 \in DOMAIN callbacks[s]
             /\ Head(callbacks[s]) = callbacks[s][1] /\ callbacks[s][1] \in Ops
             /\ \A i \in DOMAIN callbacks'[s] :
                   i > 0 /\ i \in Int /\ i + 1 \in DOMAIN callbacks[s] /\ callbacks'[s][i] = callbacks[s][i + 1]
             /\ NoMoreData(s) => NoMoreData(s)'
             /\ \A i \in DOMAIN callbacks'[s] : Closes(callbacks'[s][i]) =>
                   caller'[s] = "done" /\ \A j \in DOMAIN callbacks'[s] : i < j => callbacks'[s][j].kind # "data"
  <2>1. callbacks[s] # <<>> /\ callbacks'[s] = Tail(callbacks[s]) /\ Head(callbacks[s]).kind = kind
        /\ UNCHANGED caller[s]
    BY <1>T DEF Takes, SameCall
  <2>2. /\ Head(callbacks[s]) = callbacks[s][1] /\ 1 \in DOMAIN callbacks[s] /\ callbacks[s][1] \in Ops
        /\ \A i \in DOMAIN callbacks'[s] :
              i > 0 /\ i \in Int /\ i + 1 \in DOMAIN callbacks[s] /\ callbacks'[s][i] = callbacks[s][i + 1]
    BY <1>1, <2>1, HeadOps
  <2>3. ASSUME NEW i \in DOMAIN callbacks'[s], Closes(callbacks'[s][i])
        PROVE  caller'[s] = "done" /\ \A j \in DOMAIN callbacks'[s] : i < j => callbacks'[s][j].kind # "data"
    <3>1. Closes(callbacks[s][i + 1])
      BY <2>2, <2>3
    <3>2. caller[s] = "done" /\ \A j \in DOMAIN callbacks[s] : i + 1 < j => callbacks[s][j].kind # "data"
      BY <2>2, <3>1 DEF Ordered
    <3> QED
      BY <2>1, <2>2, <3>2
  <2>4. NoMoreData(s) => NoMoreData(s)'
    BY <2>1, <2>2 DEF NoMoreData
  <2> QED
    BY <2>1, <2>2, <2>3, <2>4
<1>3. CASE TakesHeaders(s)
  <2>0. Takes(s, "headers") /\ pc'[s] = pc[s]
    BY <1>3 DEF TakesHeaders
  <2>1. CASE dataQueue'[s] = dataQueue[s]
    BY <1>T, <2>0, <2>1 DEF Ordered, HasLast
  <2>2. CASE headers[s] # "none" /\ dataQueue'[s] = Append(dataQueue[s], LastDataFrame)
    <3>1. Closes(callbacks[s][1])
      BY <1>T, <2>0, <2>2 DEF Headed, Closes
    <3>2. NoMoreData(s)
      <4>1. /\ caller[s] = "done"
            /\ \A j \in DOMAIN callbacks[s] : 1 < j => callbacks[s][j].kind # "data"
        BY <1>T, <2>0, <3>1 DEF Ordered
      <4>2. \A j \in DOMAIN callbacks[s] : j \in Nat \ {0}
        BY <1>1
      <4> QED
        BY <1>T, <2>0, <4>1, <4>2 DEF NoMoreData
    <3>3. /\ DOMAIN dataQueue'[s] = 1..(Len(dataQueue[s]) + 1) /\ DOMAIN dataQueue[s] = 1..Len(dataQueue[s])
          /\ Len(dataQueue[s]) \in Nat
          /\ \A i \in DOMAIN dataQueue[s] : dataQueue'[s][i] = dataQueue[s][i]
          /\ dataQueue'[s][Len(dataQueue[s]) + 1].kind = "last"
      BY <1>1, <2>2, AppendOps, OpTypes
    <3>4. \A i, j \in DOMAIN dataQueue'[s] :
             dataQueue'[s][i].kind = "last" /\ i < j => dataQueue'[s][j].kind = "last"
      BY <3>3 DEF Ordered
    <3>5. pc'[s] = "trailers" => \A i \in DOMAIN dataQueue'[s] : dataQueue'[s][i].kind = "last"
      BY <2>0, <3>3 DEF Ordered
    <3> QED
      BY <1>T, <2>0, <3>2, <3>4, <3>5 DEF Ordered
  <2> QED
    BY <1>3, <2>1, <2>2 DEF TakesHeaders
<1>4. CASE TakesData(s)
  <2>1. Takes(s, "data") /\ pc'[s] = pc[s] /\ dataQueue'[s] = Append(dataQueue[s], Head(callbacks[s]))
    BY <1>4 DEF TakesData
  <2>2. ~NoMoreData(s)
    BY <1>T, <2>1 DEF NoMoreData
  <2>3. ~HasLast(s) /\ pc[s] # "trailers"
    BY <2>2 DEF Ordered
  <2>4. Head(callbacks[s]) \in Frames /\ Head(callbacks[s]).kind = "data"
    BY <1>T, <2>1, OpTypes
  <2>5. \A i \in DOMAIN dataQueue'[s] :
           (i \in DOMAIN dataQueue[s] /\ dataQueue'[s][i] = dataQueue[s][i])
              \/ dataQueue'[s][i] = Head(callbacks[s])
    BY <1>1, <2>1, <2>4, AppendOps
  <2>6. \A i \in DOMAIN dataQueue'[s] : dataQueue'[s][i].kind # "last"
    BY <2>3, <2>4, <2>5 DEF HasLast
  <2> QED
    BY <1>T, <2>1, <2>3, <2>6 DEF Ordered, HasLast
<1>5. CASE TakesReset(s)
  <2>1. Takes(s, "rst") /\ UNCHANGED <<dataQueue[s], pc[s]>>
    BY <1>5 DEF TakesReset, SameCtl
  <2> QED
    BY <1>T, <2>1 DEF Ordered, HasLast
<1>D. ASSUME Dequeues(s)
      PROVE  /\ UNCHANGED caller[s] /\ SameOps(s) /\ pc[s] = "data"
             /\ Head(dataQueue[s]) = dataQueue[s][1] /\ 1 \in DOMAIN dataQueue[s]
             /\ \A i \in DOMAIN dataQueue'[s] :
                   i > 0 /\ i \in Int /\ i + 1 \in DOMAIN dataQueue[s] /\ dataQueue'[s][i] = dataQueue[s][i + 1]
             /\ \A i, j \in DOMAIN dataQueue'[s] :
                   dataQueue'[s][i].kind = "last" /\ i < j => dataQueue'[s][j].kind = "last"
  <2>1. /\ UNCHANGED caller[s] /\ SameOps(s) /\ dataQueue[s] # <<>>
        /\ dataQueue'[s] = Tail(dataQueue[s]) /\ pc[s] = "data"
    BY <1>D DEF Dequeues, SameCall
  <2>2. /\ Head(dataQueue[s]) = dataQueue[s][1] /\ 1 \in DOMAIN dataQueue[s]
        /\ \A i \in DOMAIN dataQueue'[s] :
              i > 0 /\ i \in Int /\ i + 1 \in DOMAIN dataQueue[s] /\ dataQueue'[s][i] = dataQueue[s][i + 1]
    BY <1>1, <2>1, HeadOps
  <2>3. ASSUME NEW i \in DOMAIN dataQueue'[s], NEW j \in DOMAIN dataQueue'[s],
               dataQueue'[s][i].kind = "last", i < j
        PROVE  dataQueue'[s][j].kind = "last"
    <3>1. dataQueue[s][i + 1].kind = "last" /\ i + 1 < j + 1
      BY <2>2, <2>3
    <3> QED
      BY <2>2, <3>1 DEF Ordered
  <2> QED
    BY <2>1, <2>2, <2>3
<1>6. CASE PutsData(s)
  <2>1. Dequeues(s) /\ pc'[s] # "trailers"
    BY <1>6 DEF PutsData
  <2>2. HasLast(s)' => HasLast(s)
    BY <1>D, <2>1 DEF HasLast
  <2> QED
    BY <1>D, <2>1, <2>2 DEF Ordered, NoMoreData, SameOps
<1>7. CASE PutsLast(s)
  <2>1. Dequeues(s) /\ Head(dataQueue[s]).kind = "last"
    BY <1>7 DEF PutsLast
  <2>2. NoMoreData(s)
    BY <1>D, <2>1 DEF Ordered, HasLast
  <2>3. \A i \in DOMAIN dataQueue'[s] : dataQueue'[s][i].kind = "last"
    <3>1. \A i \in DOMAIN dataQueue'[s] : 1 < i + 1
      BY <1>D, <2>1
    <3> QED
      BY <1>D, <2>1, <3>1 DEF Ordered
  <2> QED
    BY <1>D, <2>1, <2>2, <2>3 DEF Ordered, NoMoreData, SameOps
<1>8. CASE PutsHeaders(s) \/ PutsTrailers(s) \/ Transmits(s) \/ PeerCloses(s) \/ Untouched(s)
  BY <1>8, <1>U DEF PutsHeaders, PutsTrailers, Transmits, PeerCloses, Untouched, SameCall, SameCtl, Closed
<1> QED
  BY <1>2, <1>3, <1>4, <1>5, <1>6, <1>7, <1>8, StepOf
----------------------------------------------------------------------------
(* END_STREAM flags, events and resets *)

\* A server's DATA never carries END_STREAM, the DATA that carries it is the last the
\* coroutine writes, and the event it waits for is the one of the last write.
Flags(s) ==
    /\ ~clientSide =>
          /\ ~endStream[s]
          /\ \A i \in DOMAIN callbacks[s] : callbacks[s][i].kind = "data" => ~callbacks[s][i].end
          /\ \A i \in DOMAIN dataQueue[s] : ~dataQueue[s][i].end
    /\ endStream[s] => pc[s] = "done"
    /\ pc[s] = "headers" => writes[s] = 0
    /\ dataSent[s] = writes[s]

LEMMA FlagsInit == Init => \A s \in Calls : Flags(s)
BY DEF Init, FC!Init, Flags, Calls

LEMMA FlagsStep ==
    ASSUME OwnTypes, Flow!TypeOK, [Next]_vars, NEW s \in Calls, Flags(s)
    PROVE  Flags(s)'
<1>1. callbacks[s] \in Seq(Ops) /\ dataQueue[s] \in Seq(Frames) /\ clientSide' = clientSide
  BY StepOf DEF OwnTypes, Calls
<1>U. ASSUME SameOps(s), dataQueue'[s] = dataQueue[s], UNCHANGED <<endStream[s], writes[s], dataSent[s]>>,
             pc'[s] # "headers" \/ pc'[s] = pc[s], endStream[s] => pc'[s] = "done"
      PROVE  Flags(s)'
  BY <1>1, <1>U DEF Flags, SameOps
<1>A. ASSUME NEW op \in Ops, Posts(s, op), op.kind = "data" => (op.end => clientSide)
      PROVE  Flags(s)'
  <2>1. /\ \A i \in DOMAIN callbacks'[s] :
              (i \in DOMAIN callbacks[s] /\ callbacks'[s][i] = callbacks[s][i]) \/ callbacks'[s][i] = op
        /\ UNCHANGED <<dataQueue[s], pc[s], dataSent[s], writes[s], endStream[s]>>
    BY <1>1, <1>A, AppendOps DEF Posts, SameCtl, SameFlow
  <2> QED
    BY <1>1, <1>A, <2>1, Zenon DEF Flags
<1>2. CASE StartsCall(s) \/ GivesData(s) \/ EndsCall(s) \/ Cancels(s)
  <2>1. PICK op \in Ops : Posts(s, op) /\ (op.kind = "data" => (op.end => clientSide))
    <3>1. CASE StartsCall(s) \/ EndsCall(s) \/ Cancels(s)
      <4>1. PICK kind \in {"headers", "rst"}, end \in BOOLEAN : Posts(s, Op(kind, 0, end))
        BY <3>1 DEF StartsCall, EndsCall, Cancels
      <4>2. Op(kind, 0, end) \in Ops /\ Op(kind, 0, end).kind # "data"
        BY OpTypes
      <4> QED
        BY <4>1, <4>2
    <3>2. CASE GivesData(s)
      <4>1. PICK n \in Nat \ {0}, end \in BOOLEAN : Posts(s, Op("data", n, end)) /\ (end => clientSide)
        BY <3>2 DEF GivesData
      <4>2. Op("data", n, end) \in Ops /\ Op("data", n, end).end = end
        BY OpTypes
      <4> QED
        BY <4>1, <4>2
    <3> QED
      BY <1>2, <3>1, <3>2
  <2> QED
    BY <1>A, <2>1
<1>T. ASSUME NEW kind, Takes(s, kind)
      PROVE  /\ Head(callbacks[s]) = callbacks[s][1] /\ 1 \in DOMAIN callbacks[s]
             /\ Head(callbacks[s]).kind = kind
             /\ \A i \in DOMAIN callbacks'[s] : i + 1 \in DOMAIN callbacks[s] /\ callbacks'[s][i] = callbacks[s][i + 1]
  BY <1>1, <1>T, HeadOps DEF Takes
<1>3. CASE TakesHeaders(s)
  <2>1. /\ Takes(s, "headers")
        /\ UNCHANGED <<pc[s], dataSent[s], writes[s], endStream[s]>>
    BY <1>3 DEF TakesHeaders, SameFlow
  <2>2. \A i \in DOMAIN dataQueue'[s] :
           (i \in DOMAIN dataQueue[s] /\ dataQueue'[s][i] = dataQueue[s][i]) \/ dataQueue'[s][i].end = FALSE
    <3>1. CASE dataQueue'[s] = dataQueue[s]
      BY <3>1
    <3>2. CASE dataQueue'[s] = Append(dataQueue[s], LastDataFrame)
      <4>1. LastDataFrame \in Frames /\ LastDataFrame.end = FALSE
        BY OpTypes
      <4>2. \A i \in DOMAIN dataQueue'[s] :
               (i \in DOMAIN dataQueue[s] /\ dataQueue'[s][i] = dataQueue[s][i]) \/ dataQueue'[s][i] = LastDataFrame
        BY <1>1, <3>2, <4>1, AppendOps
      <4> QED
        BY <4>1, <4>2, Zenon
    <3> QED
      BY <1>3, <3>1, <3>2 DEF TakesHeaders
  <2> QED
    BY <1>1, <1>T, <2>1, <2>2, ZenonT(60) DEF Flags
<1>4. CASE TakesData(s)
  <2>1. /\ Takes(s, "data") /\ dataQueue'[s] = Append(dataQueue[s], Head(callbacks[s]))
        /\ UNCHANGED <<pc[s], dataSent[s], writes[s], endStream[s]>>
    BY <1>4 DEF TakesData, SameFlow
  <2>2. Head(callbacks[s]) \in Frames
    BY <1>1, <2>1, HeadOps, OpTypes DEF Takes
  <2>3. \A i \in DOMAIN dataQueue'[s] :
           (i \in DOMAIN dataQueue[s] /\ dataQueue'[s][i] = dataQueue[s][i])
              \/ dataQueue'[s][i] = Head(callbacks[s])
    BY <1>1, <2>1, <2>2, AppendOps
  <2>4. ~clientSide => ~Head(callbacks[s]).end
    BY <1>T, <2>1, Zenon DEF Flags
  <2>5. \A i \in DOMAIN callbacks'[s] : i + 1 \in DOMAIN callbacks[s] /\ callbacks'[s][i] = callbacks[s][i + 1]
    BY <1>T, <2>1, Zenon
  <2> QED
    BY <1>1, <2>1, <2>3, <2>4, <2>5, Zenon DEF Flags
<1>5. CASE TakesReset(s)
  BY <1>1, <1>5, <1>T, Zenon DEF TakesReset, SameCtl, Flags
<1>D. ASSUME Dequeues(s)
      PROVE  /\ SameOps(s) /\ pc[s] = "data"
             /\ Head(dataQueue[s]) = dataQueue[s][1] /\ 1 \in DOMAIN dataQueue[s]
             /\ \A i \in DOMAIN dataQueue'[s] : i + 1 \in DOMAIN dataQueue[s] /\ dataQueue'[s][i] = dataQueue[s][i + 1]
  BY <1>1, <1>D, HeadOps DEF Dequeues
<1>6. CASE PutsData(s)
  <2>1. /\ Dequeues(s) /\ endStream'[s] = Head(dataQueue[s]).end /\ dataSent'[s] = writes'[s]
        /\ pc'[s] = (IF Head(dataQueue[s]).end THEN "done" ELSE "data")
    BY <1>6 DEF PutsData
  <2> QED
    BY <1>1, <1>D, <2>1, Zenon DEF Flags, SameOps
<1>7. CASE PutsLast(s)
  <2>1. Dequeues(s) /\ UNCHANGED <<endStream[s], writes[s], dataSent[s]>> /\ pc'[s] = "trailers"
    BY <1>7 DEF PutsLast
  <2> QED
    BY <1>1, <1>D, <2>1, Zenon DEF Flags, SameOps
<1>8. CASE PutsHeaders(s) \/ PutsTrailers(s)
  <2>1. /\ SameOps(s) /\ UNCHANGED <<dataQueue[s], endStream[s], writes[s], dataSent[s]>>
        /\ pc[s] \in {"headers", "trailers"} /\ pc'[s] \in {"done", "failed", "data"}
    BY <1>8 DEF PutsHeaders, PutsTrailers, Closed
  <2>2. ~endStream[s]
    BY <2>1 DEF Flags
  <2> QED
    BY <1>U, <2>1, <2>2
<1>9. CASE Transmits(s) \/ PeerCloses(s) \/ Untouched(s)
  <2>1. /\ SameOps(s) /\ UNCHANGED <<dataQueue[s], endStream[s], writes[s], dataSent[s], pc[s]>>
    BY <1>9 DEF Transmits, PeerCloses, Untouched, SameCtl, SameFlow
  <2> QED
    BY <1>U, <2>1 DEF Flags
<1> QED
  BY <1>2, <1>3, <1>4, <1>5, <1>6, <1>7, <1>8, <1>9, StepOf

\* The call layer cancels once, so that the stream is reset once.
Resets(s) ==
    /\ \A i \in DOMAIN callbacks[s] : callbacks[s][i].kind = "rst" =>
          /\ cancelled[s] /\ "rst" \notin marks[s]
          /\ \A j \in DOMAIN callbacks[s] : callbacks[s][j].kind = "rst" => i = j
    /\ "rst" \in marks[s] => cancelled[s]

LEMMA ResetsInit == Init => \A s \in Calls : Resets(s)
BY DEF Init, FC!Init, Resets, Calls

LEMMA ResetsStep ==
    ASSUME OwnTypes, Flow!TypeOK, [Next]_vars, NEW s \in Calls, Resets(s)
    PROVE  Resets(s)'
<1>1. callbacks[s] \in Seq(Ops) /\ cancelled[s] \in BOOLEAN
  BY DEF OwnTypes, Calls
<1>U. ASSUME SameOps(s), cancelled'[s] = cancelled[s], "rst" \in marks'[s] <=> "rst" \in marks[s]
      PROVE  Resets(s)'
  BY <1>U DEF Resets, SameOps
<1>A. ASSUME NEW op \in Ops, Posts(s, op)
      PROVE  /\ \A i \in DOMAIN callbacks'[s] :
                   \/ i \in DOMAIN callbacks[s] /\ callbacks'[s][i] = callbacks[s][i]
                   \/ i = Len(callbacks[s]) + 1 /\ callbacks'[s][i] = op
             /\ marks'[s] = marks[s]
  BY <1>1, <1>A, AppendOps DEF Posts, SameFlow
<1>2. CASE StartsCall(s) \/ GivesData(s) \/ EndsCall(s)
  <2>1. PICK op \in Ops : Posts(s, op) /\ op.kind # "rst" /\ cancelled'[s] = cancelled[s]
    <3>1. CASE StartsCall(s) \/ EndsCall(s)
      <4>1. PICK end \in BOOLEAN : Posts(s, Op("headers", 0, end)) /\ cancelled'[s] = cancelled[s]
        BY <3>1 DEF StartsCall, EndsCall
      <4>2. Op("headers", 0, end) \in Ops /\ Op("headers", 0, end).kind = "headers"
        BY OpTypes
      <4> QED
        BY <4>1, <4>2
    <3>2. CASE GivesData(s)
      <4>1. PICK n \in Nat \ {0}, end \in BOOLEAN : Posts(s, Op("data", n, end)) /\ cancelled'[s] = cancelled[s]
        BY <3>2 DEF GivesData
      <4>2. Op("data", n, end) \in Ops /\ Op("data", n, end).kind = "data"
        BY OpTypes
      <4> QED
        BY <4>1, <4>2
    <3> QED
      BY <1>2, <3>1, <3>2
  <2>2. \A i \in DOMAIN callbacks'[s] : callbacks'[s][i].kind = "rst" =>
           i \in DOMAIN callbacks[s] /\ callbacks'[s][i] = callbacks[s][i]
    BY <1>A, <2>1
  <2> QED
    BY <1>A, <2>1, <2>2 DEF Resets
<1>3. CASE Cancels(s)
  <2>1. Op("rst", 0, FALSE) \in Ops /\ Posts(s, Op("rst", 0, FALSE)) /\ ~cancelled[s] /\ cancelled'[s] = TRUE
    BY <1>3, OpTypes DEF Cancels
  <2>2. "rst" \notin marks[s] /\ \A i \in DOMAIN callbacks[s] : callbacks[s][i].kind # "rst"
    BY <2>1 DEF Resets
  <2>3. \A i \in DOMAIN callbacks'[s] : callbacks'[s][i].kind = "rst" => i = Len(callbacks[s]) + 1
    BY <1>A, <2>1, <2>2
  <2> QED
    BY <1>A, <2>1, <2>2, <2>3 DEF Resets
<1>T. ASSUME NEW kind, Takes(s, kind)
      PROVE  /\ callbacks[s][1].kind = kind /\ 1 \in DOMAIN callbacks[s] /\ cancelled'[s] = cancelled[s]
             /\ \A i \in DOMAIN callbacks'[s] :
                   i > 0 /\ i \in Int /\ i + 1 \in DOMAIN callbacks[s] /\ callbacks'[s][i] = callbacks[s][i + 1]
  BY <1>1, <1>T, HeadOps DEF Takes, SameCall
<1>M. ASSUME NEW kind, Takes(s, kind), "rst" \in marks'[s] <=> "rst" \in marks[s] PROVE Resets(s)'
  <2>1. ASSUME NEW i \in DOMAIN callbacks'[s], callbacks'[s][i].kind = "rst"
        PROVE  /\ cancelled'[s] /\ "rst" \notin marks'[s]
               /\ \A j \in DOMAIN callbacks'[s] : callbacks'[s][j].kind = "rst" => i = j
    <3>1. callbacks[s][i + 1].kind = "rst" /\ i + 1 \in DOMAIN callbacks[s]
      BY <1>M, <1>T, <2>1
    <3>2. /\ cancelled[s] /\ "rst" \notin marks[s]
          /\ \A j \in DOMAIN callbacks[s] : callbacks[s][j].kind = "rst" => i + 1 = j
      BY <3>1 DEF Resets
    <3>3. ASSUME NEW j \in DOMAIN callbacks'[s], callbacks'[s][j].kind = "rst" PROVE i = j
      <4>1. /\ j \in Int /\ j + 1 \in DOMAIN callbacks[s] /\ callbacks[s][j + 1].kind = "rst"
            /\ i \in Int
        BY <1>M, <1>T, <3>3
      <4>2. i + 1 = j + 1
        BY <3>2, <4>1
      <4> QED
        BY <4>1, <4>2
    <3> QED
      BY <1>M, <1>T, <3>2, <3>3
  <2> QED
    BY <1>M, <1>T, <2>1 DEF Resets
<1>4. CASE TakesHeaders(s)
  BY <1>4, <1>M DEF TakesHeaders, SameFlow
<1>5. CASE TakesData(s)
  BY <1>5, <1>M DEF TakesData, SameFlow
<1>6. CASE TakesReset(s)
  <2>1. Takes(s, "rst")
    BY <1>6 DEF TakesReset
  <2>2. /\ cancelled[s] /\ "rst" \notin marks[s]
        /\ \A j \in DOMAIN callbacks[s] : callbacks[s][j].kind = "rst" => 1 = j
    BY <1>T, <2>1 DEF Resets
  <2>3. \A i \in DOMAIN callbacks'[s] : callbacks'[s][i].kind # "rst"
    <3> SUFFICES ASSUME NEW i \in DOMAIN callbacks'[s], callbacks'[s][i].kind = "rst" PROVE FALSE
      OBVIOUS
    <3>1. i > 0 /\ i \in Int /\ i + 1 \in DOMAIN callbacks[s] /\ callbacks[s][i + 1].kind = "rst"
      BY <1>T, <2>1
    <3>2. 1 = i + 1
      BY <2>2, <3>1
    <3> QED
      BY <3>1, <3>2
  <2> QED
    BY <1>T, <2>1, <2>2, <2>3 DEF Resets
<1>7. CASE PutsHeaders(s) \/ PutsTrailers(s)
  BY <1>7, <1>U DEF PutsHeaders, PutsTrailers, Closed, StillOpen, SameCall
<1>8. CASE PutsData(s) \/ PutsLast(s)
  BY <1>8, <1>U DEF PutsData, PutsLast, Dequeues, StillOpen, SameCall
<1>9. CASE Transmits(s) \/ PeerCloses(s) \/ Untouched(s)
  BY <1>9, <1>U DEF Transmits, PeerCloses, Untouched, SameCall, SameFlow
<1> QED
  BY <1>2, <1>3, <1>4, <1>5, <1>6, <1>7, <1>8, <1>9, StepOf
----------------------------------------------------------------------------
(* The flow controller, used as FlowControl assumes *)

\* A rival writes once, without END_STREAM.
RivalWritesOnce(s) == (writes[s] = 0 => accepted[s] = 0) /\ ~endStream[s]

\* What a step does to the flow controller, and when.
Forwards(s) ==
    /\ pc[s] = "data" /\ dataQueue[s] # <<>> /\ Head(dataQueue[s]).kind = "data"
    /\ Flow!WriteData(s, Head(dataQueue[s]).n, Head(dataQueue[s]).end)

RivalForwards(s) == writes[s] = 0 /\ Flow!WriteData(s, 1, FALSE)

ResetsStream(s) == callbacks[s] # <<>> /\ Head(callbacks[s]).kind = "rst" /\ Flow!LocalReset(s)

ClosesStream(s) ==
    /\ pc[s] = "headers" \/ (pc[s] = "trailers" /\ dataSent[s] \in fired[s])
    /\ Flow!SendTrailers(s)

PeerResets(s) == "peer_rst" \notin marks[s] /\ Flow!PeerReset(s)

Updates ==
    \/ \E s \in Streams, d \in 1..MaxWindow : Flow!StreamWindowUpdate(s, d)
    \/ \E d \in 1..MaxWindow : Flow!ConnWindowUpdate(d)

LEMMA FlowSteps ==
    ASSUME OwnTypes, Flow!TypeOK, [Next]_vars
    PROVE  \/ \E s \in Calls : Forwards(s) \/ ResetsStream(s) \/ ClosesStream(s)
           \/ \E s \in Rivals : RivalForwards(s)
           \/ \E s \in Streams : Flow!Transmit(s) \/ PeerResets(s)
           \/ Updates \/ Flow!ConnectionLost
           \/ UNCHANGED flowVars
<1>1. ASSUME NEW s \in Calls, Callers(s) PROVE UNCHANGED flowVars
  BY <1>1, Zenon DEF Callers, SendHeaders, SendData, SendTrailers, CancelByLocal, Post
<1>2. ASSUME NEW s \in Calls, Callback(s) PROVE ResetsStream(s) \/ UNCHANGED flowVars
  <2>1. CASE HeadersCallback(s) \/ DataCallback(s)
    BY <2>1 DEF HeadersCallback, DataCallback
  <2>2. CASE RstCallback(s)
    BY <2>2, SameSteps DEF RstCallback, NextCallback, ResetsStream, Calls
  <2> QED
    BY <1>2, <2>1, <2>2 DEF Callback
<1>3. ASSUME NEW s \in Calls, Run(s) PROVE Forwards(s) \/ ClosesStream(s) \/ UNCHANGED flowVars
  <2>1. CASE WriteHeaders(s)
    BY <2>1, SameSteps DEF WriteHeaders, At, Fails, ClosesStream, Calls
  <2>2. CASE ForwardData(s)
    <3>1. /\ pc[s] = "data" /\ dataQueue[s] # <<>> /\ Head(dataQueue[s]).kind = "data"
          /\ FC!WriteData(s, Head(dataQueue[s]).n, Head(dataQueue[s]).end)
      BY <2>2 DEF ForwardData, NextWrite, At
    <3>2. Head(dataQueue[s]) \in Frames
      BY <3>1, HeadOps DEF OwnTypes, Calls
    <3>3. s \in Streams /\ Head(dataQueue[s]).n \in Nat /\ Head(dataQueue[s]).end \in BOOLEAN
      BY <3>2, OpTypes DEF Calls
    <3> QED
      BY <3>1, <3>3, SameSteps DEF Forwards
  <2>3. CASE ReachLast(s)
    BY <2>3 DEF ReachLast
  <2>4. CASE WriteTrailers(s)
    BY <2>4, SameSteps DEF WriteTrailers, At, LastDataSent, Fails, ClosesStream, Calls
  <2> QED
    BY <1>3, <2>1, <2>2, <2>3, <2>4 DEF Run
<1>4. ASSUME NEW s \in Rivals, RivalWrites(s) PROVE RivalForwards(s)
  <2>1. s \in Streams
    BY OutboundAssumption
  <2>2. writes[s] = 0 /\ FC!WriteData(s, 1, FALSE)
    BY <1>4 DEF RivalWrites
  <2> QED
    BY <2>1, <2>2, SameSteps DEF RivalForwards
<1>5. ASSUME NEW s \in Streams, Transmit(s) \/ PeerReset(s) PROVE Flow!Transmit(s) \/ PeerResets(s)
  BY <1>5, SameSteps DEF Transmit, PeerReset, PeerResets
<1>6. WindowUpdate => Updates
  BY SameSteps DEF WindowUpdate, Updates
<1>7. ConnectionLost => Flow!ConnectionLost
  BY SameSteps DEF ConnectionLost
<1> QED
  BY <1>1, <1>2, <1>3, <1>4, <1>5, <1>6, <1>7, Zenon DEF Next, vars

LEMMA RivalsStep ==
    ASSUME OwnTypes, Flow!TypeOK, [Next]_vars, NEW s \in Rivals, RivalWritesOnce(s)
    PROVE  RivalWritesOnce(s)'
<1>1. s \in Streams /\ s \notin Calls
  BY OutboundAssumption DEF Calls
<1>2. ASSUME NEW r \in Streams, NEW n, NEW e, Flow!WriteData(r, n, e), r # s PROVE RivalWritesOnce(s)'
  BY <1>1, <1>2 DEF Flow!WriteData, Flow!TypeOK, RivalWritesOnce
<1>3. ASSUME NEW r \in Streams, r = s, RivalForwards(r) PROVE RivalWritesOnce(s)'
  <2>1. writes'[s] = 1 /\ endStream'[s] = FALSE
    BY <1>1, <1>3 DEF RivalForwards, Flow!WriteData, Flow!TypeOK
  <2> QED
    BY <2>1 DEF RivalWritesOnce
<1>4. ASSUME UNCHANGED <<endStream, writes, accepted>> PROVE RivalWritesOnce(s)'
  BY <1>4 DEF RivalWritesOnce
<1>5. ASSUME NEW r \in Streams,
             Flow!Transmit(r) \/ Flow!PeerReset(r) \/ Flow!LocalReset(r) \/ Flow!SendTrailers(r)
      PROVE  UNCHANGED <<endStream, writes, accepted>>
  BY <1>5 DEF Flow!Transmit, Flow!TransmitClosed, Flow!TransmitFails, Flow!TransmitPart, Flow!TransmitAll,
     Flow!Emit, Flow!PeerReset, Flow!LocalReset, Flow!SendTrailers, Flow!itemVars, Flow!ghosts
<1>6. Updates \/ Flow!ConnectionLost \/ UNCHANGED flowVars => UNCHANGED <<endStream, writes, accepted>>
  BY DEF Updates, Flow!StreamWindowUpdate, Flow!ConnWindowUpdate, Flow!ConnectionLost, Flow!itemVars,
     Flow!ghosts, flowVars
<1>7. Calls \subseteq Streams /\ Rivals \subseteq Streams
  BY OutboundAssumption DEF Calls
<1>8. \A r \in Calls : r # s
  BY <1>1
<1> QED
  BY <1>2, <1>3, <1>4, <1>5, <1>6, <1>7, <1>8, FlowSteps
     DEF Forwards, RivalForwards, ResetsStream, ClosesStream, PeerResets

\* What holds of the controllers, whatever the windows do.
Controllers ==
    /\ OwnTypes
    /\ \A s \in Calls : Bytes(s) /\ Headed(s) /\ Ordered(s) /\ Flags(s) /\ Resets(s)
    /\ \A s \in Rivals : RivalWritesOnce(s)

LEMMA ControllersInit == Init => Controllers
BY OwnTypesInit, BytesInit, HeadedInit, OrderedInit, FlagsInit, ResetsInit, OutboundAssumption
   DEF Controllers, RivalWritesOnce, Init, FC!Init

LEMMA ControllersStep == Controllers /\ Flow!TypeOK /\ [Next]_vars => Controllers'
<1> SUFFICES ASSUME Controllers, Flow!TypeOK, [Next]_vars PROVE Controllers'
  OBVIOUS
<1>1. OwnTypes /\ OwnTypes'
  BY OwnTypesStep DEF Controllers
<1>2. ASSUME NEW s \in Calls PROVE (Bytes(s) /\ Headed(s) /\ Ordered(s) /\ Flags(s) /\ Resets(s))'
  <2>1. Bytes(s) /\ Headed(s) /\ Ordered(s) /\ Flags(s) /\ Resets(s)
    BY DEF Controllers
  <2> QED
    BY <1>1, <2>1, BytesStep, HeadedStep, OrderedStep, FlagsStep, ResetsStep
<1>3. \A s \in Rivals : RivalWritesOnce(s)'
  BY <1>1, RivalsStep DEF Controllers
<1>4. Calls' = Calls
  BY DEF Calls
<1> QED
  BY <1>1, <1>2, <1>3, <1>4 DEF Controllers

\* The controllers respect what FlowControl assumes of those that use it: nothing is
\* written after END_STREAM, the bytes are bounded, trailers wait for the last event and
\* a stream is reset once.
LEMMA FlowStep == Controllers /\ Flow!TypeOK /\ [Next]_vars => [Flow!Next]_(Flow!vars)
<1> SUFFICES ASSUME Controllers, Flow!TypeOK, [Next]_vars PROVE [Flow!Next]_(Flow!vars)
  OBVIOUS
<1>0. OwnTypes /\ Calls \subseteq Streams /\ Rivals \subseteq Streams /\ MaxBytes \in Nat \ {0}
  BY OutboundAssumption DEF Controllers, Calls
<1>1. ASSUME NEW s \in Calls, Forwards(s) PROVE Flow!Next
  <2> DEFINE frame == Head(dataQueue[s])
  <2>1. dataQueue[s] # <<>> /\ dataQueue[s] \in Seq(Frames) /\ frame.kind = "data" /\ pc[s] = "data"
        /\ Flow!WriteData(s, frame.n, frame.end)
    BY <1>0, <1>1 DEF Forwards, OwnTypes
  <2>2. frame \in Frames
    BY <2>1, HeadOps
  <2>3. frame.n \in Nat /\ frame.n > 0 /\ frame.end \in BOOLEAN
    BY <2>1, <2>2, OpTypes
  <2>4. ~endStream[s]
    BY <2>1 DEF Controllers, Flags
  <2>5. accepted[s] + frame.n <= MaxBytes /\ accepted[s] \in Nat
    <3>1. PICK m \in 0..MaxBytes : Carries(dataQueue[s], accepted[s], m)
      BY DEF Controllers, Bytes
    <3>2. accepted[s] \in Nat
      BY <1>0 DEF Flow!TypeOK
    <3>3. accepted[s] + frame.n <= m
      BY <1>0, <2>1, <2>3, <3>1, <3>2, CarriesRest
    <3> QED
      BY <1>0, <2>3, <3>2, <3>3
  <2> HIDE DEF frame
  <2>6. frame.n \in 0..MaxBytes
    BY <1>0, <2>3, <2>5
  <2>7. Flow!Write(s)
    BY <2>1, <2>3, <2>4, <2>5, <2>6 DEF Flow!Write
  <2> QED
    BY <1>0, <2>7 DEF Flow!Next
<1>2. ASSUME NEW s \in Rivals, RivalForwards(s) PROVE Flow!Next
  <2>1. writes[s] = 0 /\ Flow!WriteData(s, 1, FALSE) /\ accepted[s] = 0 /\ ~endStream[s]
    BY <1>2 DEF RivalForwards, Controllers, RivalWritesOnce
  <2>2. 1 \in 0..MaxBytes /\ accepted[s] + 1 <= MaxBytes /\ 1 # 0
    BY <1>0, <2>1
  <2>3. Flow!Write(s)
    BY <2>1, <2>2, Zenon DEF Flow!Write
  <2> QED
    BY <1>0, <2>3 DEF Flow!Next
<1>3. ASSUME NEW s \in Calls, ResetsStream(s) PROVE Flow!Next
  <2>1. 1 \in DOMAIN callbacks[s] /\ callbacks[s][1].kind = "rst" /\ Flow!LocalReset(s)
    BY <1>0, <1>3, HeadOps DEF ResetsStream, OwnTypes
  <2>2. "rst" \notin marks[s]
    BY <2>1 DEF Controllers, Resets
  <2> QED
    BY <1>0, <2>1, <2>2 DEF Flow!Next
<1>4. ASSUME NEW s \in Calls, ClosesStream(s) PROVE Flow!Next
  <2>1. Flow!LastEventSet(s)
    BY <1>4 DEF ClosesStream, Controllers, Flags, Flow!LastEventSet
  <2> QED
    BY <1>0, <1>4, <2>1 DEF ClosesStream, Flow!Next
<1>5. ASSUME NEW s \in Streams, Flow!Transmit(s) \/ PeerResets(s) PROVE Flow!Next
  BY <1>5 DEF PeerResets, Flow!Next
<1>6. Updates \/ Flow!ConnectionLost => Flow!Next
  BY DEF Updates, Flow!Next
<1>7. UNCHANGED flowVars => UNCHANGED Flow!vars
  BY DEF flowVars, Flow!vars, Flow!itemVars, Flow!h2Vars, Flow!ghosts
<1> QED
  BY <1>0, <1>1, <1>2, <1>3, <1>4, <1>5, <1>6, <1>7, FlowSteps

LEMMA ControllersHold == Spec => [](Controllers /\ Flow!TypeOK)
<1>1. Init => Controllers /\ Flow!TypeOK
  <2>1. Init => Flow!Init
    BY SameSteps DEF Init
  <2> QED
    BY <2>1, ControllersInit, FlowAssumed, Flow!InitType
<1>2. Controllers /\ Flow!TypeOK /\ [Next]_vars => (Controllers /\ Flow!TypeOK)'
  BY ControllersStep, FlowStep, FlowAssumed, Flow!TypeStep
<1> QED
  BY <1>1, <1>2, PTL DEF Spec

\* The controllers of the streams drive the flow controller only as FlowControl assumes
\* its callers do.
THEOREM FlowImplemented == Spec => Flow!Spec
<1>1. Init => Flow!Init
  BY SameSteps DEF Init
<1> QED
  BY <1>1, FlowStep, ControllersHold, PTL DEF Spec, Flow!Spec

\* Every variable keeps its type.
THEOREM TypeCorrect == Spec => []TypeOK
<1>1. Controllers /\ Flow!TypeOK => TypeOK
  BY SameSteps DEF Controllers, OwnTypes, TypeOK
<1> QED
  BY <1>1, ControllersHold, PTL

\* Of the streams of a connection, their controllers and their rivals: no byte is lost
\* or sent twice between the queue of a controller and the wire, the event the trailers
\* wait for means that all of them are there, and no stream is parked while it has a window.
THEOREM FlowKept == Spec => [](Flow!Conserved /\ Flow!EventMeansSent /\ Flow!NoLostWakeup)
BY FlowImplemented, FlowAssumed, Flow!ConservedCorrect, Flow!EventMeansSentCorrect,
   Flow!NoLostWakeupCorrect, PTL

----------------------------------------------------------------------------
(* A response that ended is complete *)

\* END_STREAM leaves once a server has ended the call, and with all it was given sent.
Ended(s) ==
    ~clientSide /\ "end" \in marks[s] => localClosed[s] /\ caller[s] = "done" /\ sent[s] = given[s]

LEMMA EndedInit == Init => \A s \in Calls : Ended(s)
BY DEF Init, FC!Init, Ended, Calls

\* What is on the wire was given.
LEMMA SentGiven ==
    ASSUME Controllers, Flow!TypeOK, Flow!Conserved, NEW s \in Calls
    PROVE  /\ sent[s] \in Nat /\ given[s] \in Nat /\ sent[s] <= accepted[s] /\ accepted[s] <= given[s]
           /\ (\A i \in DOMAIN dataQueue[s] : dataQueue[s][i].kind # "data") /\ NoMoreData(s)
                 => accepted[s] = given[s]
<1>1. /\ sent[s] \in Nat /\ given[s] \in Nat /\ accepted[s] \in Nat /\ data[s] \in Nat
      /\ sent[s] + data[s] = accepted[s] /\ callbacks[s] \in Seq(Ops) /\ dataQueue[s] \in Seq(Frames)
  BY DEF Controllers, OwnTypes, Flow!TypeOK, Flow!Conserved, Calls
<1>2. PICK m \in 0..MaxBytes : Carries(dataQueue[s], accepted[s], m) /\ Carries(callbacks[s], m, given[s])
  BY DEF Controllers, Bytes
<1>3. m \in Nat
  BY OutboundAssumption
<1>4. accepted[s] <= m /\ ((\A i \in DOMAIN dataQueue[s] : dataQueue[s][i].kind # "data") => accepted[s] = m)
  BY <1>1, <1>2, <1>3, CarriesNoData
<1>5. m <= given[s] /\ (NoMoreData(s) => m = given[s])
  BY <1>1, <1>2, <1>3, CarriesNoData DEF NoMoreData
<1> QED
  BY <1>1, <1>3, <1>4, <1>5

SentWithin == \A s \in Calls : sent[s] \in Nat /\ given[s] \in Nat /\ sent[s] <= given[s]

LEMMA SentWithinHolds == Spec => []SentWithin
<1>1. Controllers /\ Flow!TypeOK /\ Flow!Conserved => SentWithin
  <2> SUFFICES ASSUME Controllers, Flow!TypeOK, Flow!Conserved, NEW s \in Calls
               PROVE  sent[s] \in Nat /\ given[s] \in Nat /\ sent[s] <= given[s]
    BY DEF SentWithin
  <2>1. accepted[s] \in Nat
    BY DEF Flow!TypeOK, Calls
  <2> QED
    BY <2>1, SentGiven
<1> QED
  BY <1>1, ControllersHold, FlowKept, PTL

\* A stream that its controller closes has all it was given on the wire.
LEMMA ClosedComplete ==
    ASSUME Controllers, Flow!TypeOK, Flow!Conserved, Flow!EventMeansSent, NEW s \in Calls,
           PutsHeaders(s) \/ PutsTrailers(s), Closed(s)
    PROVE  caller[s] = "done" /\ sent[s] = given[s]
<1>1. Headed(s) /\ Ordered(s) /\ Flags(s) /\ marks[s] = {}
  BY DEF Controllers, Closed
<1>2. sent[s] \in Nat /\ given[s] \in Nat /\ sent[s] <= given[s] /\ accepted[s] \in Nat
  BY SentGiven DEF Flow!TypeOK, Calls
<1>3. CASE PutsHeaders(s)
  <2>1. pc[s] = "headers" /\ pc'[s] = "done"
    BY <1>3 DEF PutsHeaders, Closed
  <2>2. headers[s] = "end"
    BY <1>3, <2>1 DEF PutsHeaders
  <2>3. given[s] = 0 /\ caller[s] = "done"
    BY <1>1, <2>2 DEF Headed
  <2> QED
    BY <1>2, <2>3
<1>4. CASE PutsTrailers(s)
  <2>1. pc[s] = "trailers" /\ writes[s] \in fired[s]
    BY <1>1, <1>4 DEF PutsTrailers, Flags
  <2>2. sent[s] = accepted[s]
    BY <1>1, <2>1 DEF Flow!EventMeansSent, Calls
  <2>3. NoMoreData(s) /\ \A i \in DOMAIN dataQueue[s] : dataQueue[s][i].kind = "last"
    BY <1>1, <2>1 DEF Ordered
  <2>4. accepted[s] = given[s]
    <3>1. \A i \in DOMAIN dataQueue[s] : dataQueue[s][i].kind # "data"
      BY <2>3
    <3> QED
      BY <2>3, <3>1, SentGiven
  <2> QED
    BY <2>2, <2>3, <2>4 DEF NoMoreData
<1> QED
  BY <1>3, <1>4

LEMMA EndedStep ==
    ASSUME Controllers, Flow!TypeOK, Flow!Conserved, Flow!EventMeansSent, SentWithin, SentWithin',
           [Next]_vars, NEW s \in Calls, Ended(s)
    PROVE  Ended(s)'
<1> SUFFICES ASSUME ~clientSide, "end" \in marks'[s]
             PROVE  localClosed'[s] /\ caller'[s] = "done" /\ sent'[s] = given'[s]
  BY StepOf DEF Ended, Controllers
<1>1. Flags(s) /\ OwnTypes /\ sent[s] \in Nat /\ sent'[s] \in Nat /\ given'[s] \in Nat /\ sent'[s] <= given'[s]
  BY DEF SentWithin, Controllers, Calls
<1>2. CASE "end" \in marks[s]
  <2>1. localClosed[s] /\ caller[s] = "done" /\ sent[s] = given[s]
    BY <1>2 DEF Ended
  <2>2. CASE Transmits(s)
    <3>1. localClosed'[s] /\ caller'[s] = caller[s] /\ given'[s] = given[s] /\ sent[s] <= sent'[s]
      BY <2>1, <2>2 DEF Transmits, SameCall
    <3> QED
      BY <1>1, <2>1, <3>1
  <2>3. CASE StartsCall(s) \/ GivesData(s) \/ EndsCall(s) \/ Cancels(s)
    BY <2>1, <2>3 DEF StartsCall, GivesData, EndsCall, Cancels, Posts
  <2>4. CASE TakesHeaders(s) \/ TakesData(s) \/ TakesReset(s) \/ PeerCloses(s) \/ Untouched(s)
    BY <2>1, <2>4 DEF TakesHeaders, TakesData, TakesReset, Takes, PeerCloses, Untouched, SameCall, SameFlow
  <2>5. CASE PutsHeaders(s) \/ PutsData(s) \/ PutsLast(s) \/ PutsTrailers(s)
    BY <2>1, <2>5 DEF PutsHeaders, PutsData, PutsLast, PutsTrailers, Dequeues
  <2> QED
    BY <1>1, <2>2, <2>3, <2>4, <2>5, StepOf
<1>3. CASE "end" \notin marks[s]
  <2>1. Transmits(s) => marks'[s] = marks[s]
    BY <1>1 DEF Transmits, Flags
  <2>2. (PutsHeaders(s) \/ PutsTrailers(s)) /\ Closed(s)
    <3>1. CASE StartsCall(s) \/ GivesData(s) \/ EndsCall(s) \/ Cancels(s)
      BY <1>3, <3>1 DEF StartsCall, GivesData, EndsCall, Cancels, Posts, SameFlow
    <3>2. CASE TakesHeaders(s) \/ TakesData(s) \/ TakesReset(s) \/ PeerCloses(s) \/ Untouched(s)
      BY <1>3, <3>2 DEF TakesHeaders, TakesData, TakesReset, PeerCloses, Untouched, SameFlow
    <3>3. CASE PutsHeaders(s) \/ PutsData(s) \/ PutsLast(s) \/ PutsTrailers(s)
      BY <1>3, <3>3 DEF PutsHeaders, PutsData, PutsLast, PutsTrailers, Dequeues, StillOpen
    <3> QED
      BY <1>1, <1>3, <2>1, <3>1, <3>2, <3>3, StepOf
  <2>3. caller[s] = "done" /\ sent[s] = given[s]
    BY <2>2, ClosedComplete
  <2> QED
    BY <2>2, <2>3 DEF Closed, PutsHeaders, PutsTrailers, SameCall
<1> QED
  BY <1>2, <1>3

LEMMA EndedHolds == Spec => [](\A s \in Calls : Ended(s))
<1> DEFINE Inv == \A s \in Calls : Ended(s)
           Facts == /\ Controllers /\ Flow!TypeOK /\ Flow!Conserved /\ Flow!EventMeansSent
                    /\ SentWithin
<1>1. Init => Inv
  BY EndedInit
<1>2. Facts /\ Facts' /\ Inv /\ [Next]_vars => Inv'
  <2> SUFFICES ASSUME Facts, Facts', Inv, [Next]_vars PROVE Inv'
    OBVIOUS
  <2>1. \A s \in Calls : Ended(s)'
    BY EndedStep
  <2> QED
    BY <2>1 DEF Calls
<1>3. Spec => []Facts
  BY ControllersHold, FlowKept, SentWithinHolds, PTL
<1> QED
  BY <1>1, <1>2, <1>3, PTL DEF Spec

\* CompleteResponse: a response that ended without a reset is complete.
THEOREM CompleteResponseCorrect == Spec => []CompleteResponse
<1>1. (\A s \in Calls : Ended(s)) => CompleteResponse
  BY DEF Ended, CompleteResponse
<1> QED
  BY <1>1, EndedHolds, PTL

----------------------------------------------------------------------------
(* The sending side of a server implements ResponseStream *)

LEMMA OneStream ==
    ASSUME OwnTypes, Flow!TypeOK, [Next]_vars
    PROVE  \/ \A s \in Calls : Untouched(s)
           \/ \E s \in Calls : \A r \in Calls \ {s} : Untouched(r)
<1>1. ASSUME NEW s \in Calls, Callers(s) \/ Callback(s) \/ Run(s)
      PROVE  \A r \in Calls \ {s} : Untouched(r)
  BY <1>1, CallSteps, CallbackSteps, RunSteps, Zenon
<1>2. ASSUME UNCHANGED Own, NEW s \in Streams, Flow!Transmit(s) \/ FC!PeerReset(s)
      PROVE  \A r \in Calls \ {s} : Untouched(r)
  BY <1>2, ConnectionSteps, Zenon
<1>3. ASSUME UNCHANGED Own,
             \/ \E s \in Rivals : FC!WriteData(s, 1, FALSE)
             \/ \E s \in Streams, d \in 1..MaxWindow : FC!StreamWindowUpdate(s, d)
             \/ \E d \in 1..MaxWindow : FC!ConnWindowUpdate(d)
             \/ FC!ConnectionLost \/ UNCHANGED flowVars
      PROVE  \A r \in Calls : Untouched(r)
  BY <1>3, ConnectionSteps
<1>4. ASSUME NEW s \in Streams, \A r \in Calls \ {s} : Untouched(r)
      PROVE  \/ \A r \in Calls : Untouched(r)
             \/ \E q \in Calls : \A r \in Calls \ {q} : Untouched(r)
  BY <1>4
<1> QED
  BY <1>1, <1>2, <1>3, <1>4, SameSteps, Zenon
     DEF Next, RivalWrites, Transmit, PeerReset, WindowUpdate, ConnectionLost, vars, Own

\* ResponseStream's state, as Implements maps it.
Given == Response(given, 0)
Finished == Response([s \in Streams |-> caller[s] = "done"], FALSE)
Delivered == Response(sent, 0)
Status == Response(WireStatus, "open")

LEMMA Mapped ==
    ASSUME ~clientSide, clientSide' = clientSide, NEW s \in Calls
    PROVE  /\ Given[s] = given[s] /\ Given'[s] = given'[s]
           /\ Finished[s] = (caller[s] = "done") /\ Finished'[s] = (caller'[s] = "done")
           /\ Delivered[s] = sent[s] /\ Delivered'[s] = sent'[s]
           /\ marks[s] = {} => Status[s] = "open"
           /\ marks'[s] = {"end"} => Status'[s] = "ended"
           /\ marks'[s] # {} /\ marks'[s] # {"end"} => Status'[s] = "reset"
           /\ marks'[s] = marks[s] => Status'[s] = Status[s]
<1>1. s \in Streams
  BY DEF Calls
<1>2. Given[s] = given[s] /\ Delivered[s] = sent[s] /\ Finished[s] = (caller[s] = "done")
  BY <1>1 DEF Given, Delivered, Finished, Response
<1>3. Given'[s] = given'[s] /\ Delivered'[s] = sent'[s] /\ Finished'[s] = (caller'[s] = "done")
  BY <1>1 DEF Given, Delivered, Finished, Response
<1>4. /\ Status[s] = CASE marks[s] = {} -> "open" [] marks[s] = {"end"} -> "ended" [] OTHER -> "reset"
      /\ Status'[s] = CASE marks'[s] = {} -> "open" [] marks'[s] = {"end"} -> "ended" [] OTHER -> "reset"
  BY <1>1 DEF Status, Response, WireStatus
<1> QED
  BY <1>2, <1>3, <1>4

\* What a step is to one response: nothing, or one of ResponseStream's actions.
LEMMA ResponseStep ==
    ASSUME Controllers, Flow!TypeOK, Flow!Conserved, Flow!EventMeansSent, SentWithin, SentWithin',
           [Next]_vars, ~clientSide, NEW s \in Calls
    PROVE  \/ UNCHANGED <<Given[s], Finished[s], Delivered[s], Status[s]>>
           \/ /\ ~Finished[s] /\ Given'[s] \in Nat /\ Given'[s] > Given[s]
              /\ UNCHANGED <<Finished[s], Delivered[s], Status[s]>>
           \/ /\ ~Finished[s] /\ Finished'[s] = TRUE /\ UNCHANGED <<Given[s], Delivered[s], Status[s]>>
           \/ /\ Status[s] = "open" /\ Delivered'[s] \in Delivered[s]..Given[s]
              /\ UNCHANGED <<Given[s], Finished[s], Status[s]>>
           \/ /\ Status[s] = "open" /\ Finished[s] /\ Delivered[s] = Given[s] /\ Status'[s] = "ended"
              /\ UNCHANGED <<Given[s], Finished[s], Delivered[s]>>
           \/ /\ Status'[s] = "reset" /\ UNCHANGED <<Given[s], Finished[s], Delivered[s]>>
<1> DEFINE Goal ==
           \/ UNCHANGED <<Given[s], Finished[s], Delivered[s], Status[s]>>
           \/ /\ ~Finished[s] /\ Given'[s] \in Nat /\ Given'[s] > Given[s]
              /\ UNCHANGED <<Finished[s], Delivered[s], Status[s]>>
           \/ /\ ~Finished[s] /\ Finished'[s] = TRUE /\ UNCHANGED <<Given[s], Delivered[s], Status[s]>>
           \/ /\ Status[s] = "open" /\ Delivered'[s] \in Delivered[s]..Given[s]
              /\ UNCHANGED <<Given[s], Finished[s], Status[s]>>
           \/ /\ Status[s] = "open" /\ Finished[s] /\ Delivered[s] = Given[s] /\ Status'[s] = "ended"
              /\ UNCHANGED <<Given[s], Finished[s], Delivered[s]>>
           \/ /\ Status'[s] = "reset" /\ UNCHANGED <<Given[s], Finished[s], Delivered[s]>>
<1> SUFFICES Goal
  OBVIOUS
<1>1. OwnTypes /\ Flags(s) /\ s \in Streams /\ clientSide' = clientSide
  BY StepOf DEF Controllers, Calls
<1>2. /\ given[s] \in Nat /\ sent[s] \in Nat /\ sent[s] <= given[s]
      /\ given'[s] \in Nat /\ sent'[s] \in Nat /\ sent'[s] <= given'[s]
  BY DEF SentWithin, Calls
<1>M. /\ Given[s] = given[s] /\ Given'[s] = given'[s]
      /\ Finished[s] = (caller[s] = "done") /\ Finished'[s] = (caller'[s] = "done")
      /\ Delivered[s] = sent[s] /\ Delivered'[s] = sent'[s]
      /\ marks[s] = {} => Status[s] = "open"
      /\ marks'[s] = {"end"} => Status'[s] = "ended"
      /\ marks'[s] # {} /\ marks'[s] # {"end"} => Status'[s] = "reset"
      /\ marks'[s] = marks[s] => Status'[s] = Status[s]
  BY <1>1, Mapped
<1> HIDE DEF Given, Finished, Delivered, Status
<1>U. ASSUME UNCHANGED <<given[s], sent[s], marks[s]>>, caller'[s] = "done" <=> caller[s] = "done" PROVE Goal
  BY <1>M, <1>U
<1>F. ASSUME UNCHANGED <<given[s], sent[s], marks[s]>>, caller[s] # "done", caller'[s] = "done" PROVE Goal
  BY <1>M, <1>F
<1>R. ASSUME UNCHANGED <<given[s], sent[s], caller[s]>>, "rst" \in marks'[s] \/ "peer_rst" \in marks'[s]
      PROVE  Goal
  BY <1>M, <1>R
<1>3. CASE StartsCall(s)
  <2>1. UNCHANGED <<given[s], sent[s], marks[s]>> /\ caller[s] = "new"
    BY <1>3 DEF StartsCall, Posts, SameFlow
  <2> QED
    BY <1>U, <1>F, <2>1
<1>4. CASE GivesData(s)
  <2>1. PICK n \in Nat \ {0}, end \in BOOLEAN :
          /\ caller[s] = "open" /\ ~end /\ given'[s] = given[s] + n
          /\ caller'[s] = (IF end THEN "done" ELSE "open") /\ UNCHANGED <<sent[s], marks[s]>>
    BY <1>4 DEF GivesData, Posts, SameFlow
  <2>2. given'[s] > given[s] /\ caller'[s] = "open"
    BY <1>2, <2>1
  <2> QED
    BY <1>2, <1>M, <2>1, <2>2
<1>5. CASE EndsCall(s)
  BY <1>5, <1>F DEF EndsCall, Posts, SameFlow
<1>6. CASE Cancels(s) \/ TakesHeaders(s) \/ TakesData(s) \/ PutsData(s) \/ PutsLast(s) \/ Untouched(s)
  BY <1>6, <1>U DEF Cancels, Posts, TakesHeaders, TakesData, Takes, PutsData, PutsLast, Dequeues, StillOpen,
     Untouched, SameFlow, SameCall
<1>7. CASE TakesReset(s)
  <2>1. UNCHANGED <<given[s], sent[s], caller[s]>> /\ (marks'[s] = marks[s] \cup {"rst"} \/ marks'[s] = marks[s])
    BY <1>7 DEF TakesReset, Takes, SameCall
  <2> QED
    BY <1>U, <1>R, <2>1
<1>8. CASE PeerCloses(s)
  BY <1>8, <1>R DEF PeerCloses, SameCall
<1>9. CASE PutsHeaders(s) \/ PutsTrailers(s)
  <2>1. UNCHANGED <<given[s], sent[s], caller[s]>> /\ (Closed(s) \/ marks'[s] = marks[s])
    BY <1>9 DEF PutsHeaders, PutsTrailers, StillOpen, SameCall
  <2>2. CASE Closed(s)
    <3>1. caller[s] = "done" /\ sent[s] = given[s]
      BY <1>9, <2>2, ClosedComplete
    <3>2. marks[s] = {} /\ marks'[s] = {"end"}
      BY <2>2 DEF Closed
    <3> QED
      BY <1>M, <2>1, <3>1, <3>2
  <2> QED
    BY <1>U, <2>1, <2>2
<1>10. CASE Transmits(s)
  <2>1. /\ UNCHANGED <<given[s], caller[s], marks[s]>> /\ sent[s] <= sent'[s]
        /\ sent'[s] = sent[s] \/ marks[s] = {}
    BY <1>1, <1>10 DEF Transmits, SameCall, Flags
  <2>2. sent'[s] \in sent[s]..given[s]
    BY <1>2, <2>1
  <2>3. CASE sent'[s] = sent[s]
    BY <1>U, <2>1, <2>3
  <2>4. CASE marks[s] = {}
    BY <1>M, <2>1, <2>2, <2>4
  <2> QED
    BY <2>1, <2>3, <2>4
<1> HIDE DEF Goal
<1> QED
  BY <1>1, <1>3, <1>4, <1>5, <1>6, <1>7, <1>8, <1>9, <1>10, StepOf DEF Controllers

LEMMA ImplementsInit == Init => RS!Init
BY DEF Init, FC!Init, RS!Init, Response, WireStatus, Calls

LEMMA ImplementsStep ==
    ASSUME Controllers, Flow!TypeOK, Flow!Conserved, Flow!EventMeansSent, SentWithin, SentWithin',
           [Next]_vars
    PROVE  [RS!Next]_(RS!vars)
<1>1. OwnTypes /\ clientSide \in BOOLEAN
  BY DEF Controllers, OwnTypes
<1>2. /\ Given = [s \in Calls |-> Given[s]] /\ Given' = [s \in Calls |-> Given'[s]]
      /\ Finished = [s \in Calls |-> Finished[s]] /\ Finished' = [s \in Calls |-> Finished'[s]]
      /\ Delivered = [s \in Calls |-> Delivered[s]] /\ Delivered' = [s \in Calls |-> Delivered'[s]]
      /\ Status = [s \in Calls |-> Status[s]] /\ Status' = [s \in Calls |-> Status'[s]]
  BY DEF Given, Finished, Delivered, Status, Response
<1>3. ASSUME UNCHANGED <<Given, Finished, Delivered, Status>> PROVE UNCHANGED RS!vars
  BY <1>3 DEF RS!vars, Given, Finished, Delivered, Status
<1>4. ASSUME NEW s \in Calls,
             \A r \in Calls \ {s} : UNCHANGED <<Given[r], Finished[r], Delivered[r], Status[r]>>
      PROVE  /\ Given'[s] = Given[s] => Given' = Given
             /\ Finished'[s] = Finished[s] => Finished' = Finished
             /\ Delivered'[s] = Delivered[s] => Delivered' = Delivered
             /\ Status'[s] = Status[s] => Status' = Status
             /\ \A v : Given'[s] = v => Given' = [Given EXCEPT ![s] = v]
             /\ \A v : Finished'[s] = v => Finished' = [Finished EXCEPT ![s] = v]
             /\ \A v : Delivered'[s] = v => Delivered' = [Delivered EXCEPT ![s] = v]
             /\ \A v : Status'[s] = v => Status' = [Status EXCEPT ![s] = v]
  BY <1>2, <1>4
<1>5. CASE Calls = {}
  BY <1>2, <1>3, <1>5
<1>6. CASE clientSide /\ Calls # {}
  <2>1. clientSide'
    BY <1>1, <1>6, StepOf DEF Controllers
  <2>2. UNCHANGED <<Given, Finished, Delivered, Status>>
    BY <1>6, <2>1 DEF Given, Finished, Delivered, Status, Response
  <2> QED
    BY <1>3, <2>2
<1>7. CASE ~clientSide /\ Calls # {}
  <2>0. ~clientSide /\ clientSide' = clientSide
    BY <1>1, <1>7, StepOf DEF Controllers
  <2>1. ASSUME NEW s \in Calls, Untouched(s) PROVE UNCHANGED <<Given[s], Finished[s], Delivered[s], Status[s]>>
    <3>1. UNCHANGED <<given[s], caller[s], sent[s], marks[s]>>
      BY <2>1 DEF Untouched, SameCall, SameFlow
    <3> QED
      BY <2>0, <3>1, Mapped
  <2>2. CASE \A s \in Calls : Untouched(s)
    <3>1. PICK s \in Calls : TRUE
      BY <1>7
    <3>2. UNCHANGED <<Given, Finished, Delivered, Status>>
      BY <1>4, <2>1, <2>2
    <3> QED
      BY <1>3, <3>2
  <2>3. ASSUME NEW s \in Calls, \A r \in Calls \ {s} : Untouched(r) PROVE [RS!Next]_(RS!vars)
    <3> DEFINE Nothing == UNCHANGED <<Given[s], Finished[s], Delivered[s], Status[s]>>
               Gives == /\ ~Finished[s] /\ Given'[s] \in Nat /\ Given'[s] > Given[s]
                        /\ UNCHANGED <<Finished[s], Delivered[s], Status[s]>>
               Finishes == /\ ~Finished[s] /\ Finished'[s] = TRUE
                           /\ UNCHANGED <<Given[s], Delivered[s], Status[s]>>
               Delivers == /\ Status[s] = "open" /\ Delivered'[s] \in Delivered[s]..Given[s]
                           /\ UNCHANGED <<Given[s], Finished[s], Status[s]>>
               Ends == /\ Status[s] = "open" /\ Finished[s] /\ Delivered[s] = Given[s]
                       /\ Status'[s] = "ended" /\ UNCHANGED <<Given[s], Finished[s], Delivered[s]>>
               IsReset == Status'[s] = "reset" /\ UNCHANGED <<Given[s], Finished[s], Delivered[s]>>
    <3>1. Nothing \/ Gives \/ Finishes \/ Delivers \/ Ends \/ IsReset
      BY <2>0, ResponseStep
    <3>2. \A r \in Calls \ {s} : UNCHANGED <<Given[r], Finished[r], Delivered[r], Status[r]>>
      BY <2>1, <2>3
    <3>3. /\ Given'[s] = Given[s] => Given' = Given
          /\ Finished'[s] = Finished[s] => Finished' = Finished
          /\ Delivered'[s] = Delivered[s] => Delivered' = Delivered
          /\ Status'[s] = Status[s] => Status' = Status
          /\ Given' = [Given EXCEPT ![s] = Given'[s]]
          /\ \A v : Finished'[s] = v => Finished' = [Finished EXCEPT ![s] = v]
          /\ \A v : Delivered'[s] = v => Delivered' = [Delivered EXCEPT ![s] = v]
          /\ \A v : Status'[s] = v => Status' = [Status EXCEPT ![s] = v]
      BY <1>4, <3>2
    <3>4. Nothing => UNCHANGED RS!vars
      BY <1>3, <3>3
    <3>5. Gives => RS!Give(s)
      BY <3>3 DEF RS!Give, Given, Finished, Delivered, Status
    <3>6. Finishes => RS!Finish(s)
      BY <3>3 DEF RS!Finish, Given, Finished, Delivered, Status
    <3>7. Delivers => RS!Deliver(s)
      BY <3>3 DEF RS!Deliver, Given, Finished, Delivered, Status
    <3>8. Ends => RS!End(s)
      BY <3>3 DEF RS!End, Given, Finished, Delivered, Status
    <3>9. IsReset => RS!Reset(s)
      BY <3>3 DEF RS!Reset, Given, Finished, Delivered, Status
    <3> HIDE DEF Nothing, Gives, Finishes, Delivers, Ends, IsReset
    <3> QED
      BY <3>1, <3>4, <3>5, <3>6, <3>7, <3>8, <3>9 DEF RS!Next
  <2> QED
    BY <1>1, <2>2, <2>3, OneStream
<1> QED
  BY <1>5, <1>6, <1>7

\* Implements: the sending side of a server is a ResponseStream.
THEOREM ImplementsCorrect == Spec => Implements
<1> DEFINE Facts == /\ Controllers /\ Flow!TypeOK /\ Flow!Conserved /\ Flow!EventMeansSent
                    /\ SentWithin
<1>1. Facts /\ Facts' /\ [Next]_vars => [RS!Next]_(RS!vars)
  BY ImplementsStep
<1>2. Spec => []Facts
  BY ControllersHold, FlowKept, SentWithinHolds, PTL
<1> QED
  BY <1>1, <1>2, ImplementsInit, PTL DEF Spec, Implements, RS!Spec
=============================================================================
