--------------------------- MODULE Consumer_proofs --------------------------
(***************************************************************************)
(* What a call of a consumer goes through. The load balance gives it an    *)
(* invoker of its list, however many callers share the ring; the client of *)
(* that invoker has one connection at a time, whatever the number of       *)
(* losses, attempts and calls.                                             *)
(***************************************************************************)
EXTENDS Connection, Balance, FiniteSetTheorems, TLAPS

Kinds == {"made", "constructor", "reconnect", "forget", "lost", "stop"}
Tasks == [kind : Kinds, conn : 0..made, by : 0..made]

----------------------------------------------------------------------------
(* Types *)

LoopTypes ==
    /\ made \in 0..MaxConnections /\ result \in 0..made /\ protocol \in 0..made
    /\ tasks \in Seq(Tasks)
    /\ stopped \in BOOLEAN
    /\ dialing \in [Dialers -> {"none", "dialing", "gave_up"}]
    /\ \A d \in Dialers : dialing[d] = "dialing" => d <= made
    /\ attempts \in [Connections -> Nat]

ConnTypes ==
    /\ conn \in [Connections -> {"none", "open", "hung", "closing", "lost"}]
    /\ \A p \in Connections : p > made => conn[p] = "none"
    /\ heard \in [Connections -> BOOLEAN]
    /\ heartbeat \in [Connections -> {"none", "sleep", "ping", "done"}]

ClientTypes ==
    /\ user \in {"connect", "connecting", "failed", "ready", "checked", "marked", "closed"}
    /\ connected \in BOOLEAN /\ closed \in BOOLEAN /\ activeClose \in BOOLEAN
    /\ silenced \in BOOLEAN /\ faults \subseteq Faults

CallTypes ==
    /\ current = made
    /\ streams \in [Ids -> Calls \cup {NoCall}]
    /\ callConn \in [Calls -> 0..made] /\ callId \in [Calls -> 0..Cardinality(Calls)]
    /\ answer \in [Calls -> Calls \cup {NoCall}]

Typed == LoopTypes /\ ConnTypes /\ ClientTypes /\ CallTypes

\* The number of calls is a number, and every call can have an id of its own.
LEMMA IdsAreEnough ==
    ASSUME NEW c \in Calls, callId[c] = 0, NEW p
    PROVE  Cardinality(Calls) \in Nat /\ NextStreamId(p) \in Ids
<1> DEFINE numbered == {d \in Calls : callConn[d] = p /\ callId[d] # 0}
<1>1. IsFiniteSet(Calls) /\ IsFiniteSet(Calls \ {c})
  BY ConnectionAssumption, FS_RemoveElement
<1>2. Cardinality(Calls) \in Nat /\ Cardinality(Calls \ {c}) = Cardinality(Calls) - 1
  BY <1>1, FS_RemoveElement, FS_CardinalityType
<1>3. numbered \subseteq Calls \ {c}
  OBVIOUS
<1>4. IsFiniteSet(numbered) /\ Cardinality(numbered) <= Cardinality(Calls \ {c})
  BY <1>1, <1>3, FS_Subset
<1>5. Cardinality(numbered) \in Nat
  BY <1>4, FS_CardinalityType
<1>6. Cardinality(numbered) + 1 \in 1..Cardinality(Calls)
  BY <1>2, <1>4, <1>5
<1> QED
  BY <1>2, <1>6 DEF NextStreamId, Ids

\* Connections are only added.
LEMMA MadeGrows == LoopTypes /\ [Next]_vars => made' \in Nat /\ made <= made'
<1> SUFFICES ASSUME LoopTypes, [Next]_vars PROVE made' \in Nat /\ made <= made'
  OBVIOUS
<1>0. made \in Nat /\ MaxConnections \in Nat
  BY ConnectionAssumption DEF LoopTypes
<1>1. ASSUME NEW d \in Dialers, Dial(d) PROVE made' \in Nat /\ made <= made'
  BY <1>0, <1>1 DEF Dial, Established, DialFails, connVars
<1>2. CASE RunTask \/ Construct \/ CloseChecks \/ Close \/ Silence \/ UNCHANGED vars
  BY <1>0, <1>2 DEF RunTask, Construct, Close, ConnectionMade, Connected, Reconnected, ForgetClose,
         ConnectionLost, Stop, GetResult, SetProtocol, CloseChecks, CloseMarks, CloseProtocol,
         Silence, vars, connVars
<1>3. ASSUME NEW p \in Connections, TransportLost(p) \/ Heartbeat(p) \/ Peer(p)
      PROVE  made' \in Nat /\ made <= made'
  BY <1>0, <1>3 DEF Heartbeat, Peer, TransportLost, Wake, PingAck, PingTimesOut, PeerCloses,
         PeerHangs, DataReceived
<1>4. ASSUME NEW c \in Calls, Call(c) PROVE made' \in Nat /\ made <= made'
  BY <1>0, <1>4 DEF Call, StartCall, SendHeaders, Answer, connVars
<1> QED
  BY <1>1, <1>2, <1>3, <1>4 DEF Next

\* What the loop runs next, and what it keeps.
LEMMA HeadTail ==
    ASSUME LoopTypes, tasks # <<>>
    PROVE  Head(tasks) \in Tasks /\ Tail(tasks) \in Seq(Tasks)
  BY DEF LoopTypes

\* Another attempt leaves the coroutine that makes it dialing, or giving up.
LEMMA TryAgainTypes ==
    ASSUME LoopTypes, NEW d \in 0..made, TryAgain(d)
    PROVE  /\ attempts' \in [Connections -> Nat]
           /\ dialing' \in [Dialers -> {"none", "dialing", "gave_up"}]
           /\ \A e \in Dialers : dialing'[e] = "dialing" => e <= made
<1>1. attempts' \in [Connections -> Nat]
  <2>1. attempts' = [attempts EXCEPT ![d] = @ + 1]
    BY DEF TryAgain
  <2>2. attempts \in [Connections -> Nat]
    BY DEF LoopTypes
  <2>3. CASE d \in Connections
    BY <2>1, <2>2, <2>3
  <2>4. CASE d \notin Connections
    BY <2>1, <2>2, <2>4
  <2> QED
    BY <2>3, <2>4
<1>2. \E x \in {"dialing", "gave_up"} : dialing' = [dialing EXCEPT ![d] = x]
  BY DEF TryAgain
<1>3. d <= made
  OBVIOUS
<1> QED
  BY <1>1, <1>2, <1>3 DEF LoopTypes

\* What there is to show of the event loop's variables after a step.
LEMMA LoopTypesAfter ==
    ASSUME made' \in 0..MaxConnections, result' \in 0..made', protocol' \in 0..made',
           tasks' \in Seq(Tasks'), stopped' \in BOOLEAN,
           dialing' \in [Dialers -> {"none", "dialing", "gave_up"}],
           \A e \in Dialers : dialing'[e] = "dialing" => e <= made',
           attempts' \in [Connections -> Nat]
    PROVE  LoopTypes'
  BY Zenon DEF LoopTypes

\* The event loop's variables stay well typed.
LEMMA NextLoopTypes == LoopTypes /\ ConnTypes /\ [Next]_vars => LoopTypes'
<1> SUFFICES ASSUME LoopTypes, ConnTypes, [Next]_vars PROVE LoopTypes'
  OBVIOUS
<1> USE ConnectionAssumption
<1>0. made' \in Nat /\ made <= made' /\ made \in Nat
  BY MadeGrows DEF LoopTypes
<1>T. Tasks \subseteq Tasks'
  BY <1>0 DEF Tasks
<1>1. ASSUME NEW d \in Dialers, Established(d) PROVE LoopTypes'
  <2> DEFINE resumed == Task(IF d = Constructor THEN "constructor" ELSE "reconnect", made', d)
  <2>1. tasks' = Append(Append(tasks, Task("made", made', 0)), resumed)
    BY <1>1 DEF Established, Spawn
  <2>2. Task("made", made', 0) \in Tasks' /\ resumed \in Tasks'
    <3>1. d \in 0..made' /\ made' \in 0..made'
      BY <1>0, <1>1 DEF Established, LoopTypes, Dialers
    <3> QED
      BY <3>1, <1>0 DEF Task, Tasks, Kinds
  <2> HIDE DEF resumed
  <2>3. tasks \in Seq(Tasks')
    BY <1>T DEF LoopTypes
  <2>4. tasks' \in Seq(Tasks')
    BY <2>1, <2>2, <2>3
  <2>5. /\ dialing' \in [Dialers -> {"none", "dialing", "gave_up"}]
        /\ \A e \in Dialers : dialing'[e] = "dialing" => e <= made'
    BY <1>0, <1>1 DEF Established, LoopTypes, Dialers
  <2>6. made' = made + 1 /\ made < MaxConnections /\ UNCHANGED <<protocol, stopped, attempts, result>>
    BY <1>1 DEF Established, clientVars
  <2>7. made' \in 0..MaxConnections /\ result' \in 0..made' /\ protocol' \in 0..made'
    BY <1>0, <2>6 DEF LoopTypes
  <2>8. stopped' \in BOOLEAN /\ attempts' \in [Connections -> Nat]
    BY <2>6 DEF LoopTypes
  <2> QED
    BY <2>4, <2>5, <2>7, <2>8, LoopTypesAfter, Zenon
<1>2. ASSUME NEW d \in Dialers, DialFails(d) PROVE LoopTypes'
  <2>0. dialing[d] = "dialing" /\ UNCHANGED <<tasks, stopped, connVars, protocol>>
    BY <1>2 DEF DialFails, clientVars
  <2>1. d \in 0..made /\ UNCHANGED <<tasks, stopped, connVars, protocol>>
    BY <1>0, <2>0 DEF LoopTypes, Dialers
  <2>2. Tasks' = Tasks
    BY <2>1 DEF Tasks, connVars
  <2>3. /\ made' \in 0..MaxConnections /\ protocol' \in 0..made'
        /\ tasks' \in Seq(Tasks') /\ stopped' \in BOOLEAN
    BY <2>1, <2>2 DEF LoopTypes, connVars
  <2>4. result' \in 0..made'
    BY <1>2, <2>1 DEF DialFails, LoopTypes, connVars, clientVars
  <2>5. CASE TryAgain(d)
    <3>1. made' = made
      BY <2>1 DEF connVars
    <3>2. /\ attempts' \in [Connections -> Nat]
          /\ dialing' \in [Dialers -> {"none", "dialing", "gave_up"}]
          /\ \A e \in Dialers : dialing'[e] = "dialing" => e <= made'
      BY <2>1, <2>5, <3>1, TryAgainTypes
    <3> QED
      BY <2>3, <2>4, <3>2, LoopTypesAfter, Zenon
  <2>6. CASE ~TryAgain(d)
    <3>1. UNCHANGED attempts /\ \E x \in {"none", "gave_up"} : dialing' = [dialing EXCEPT ![d] = x]
      BY <1>2, <2>6 DEF DialFails
    <3>2. /\ attempts' \in [Connections -> Nat]
          /\ dialing' \in [Dialers -> {"none", "dialing", "gave_up"}]
          /\ \A e \in Dialers : dialing'[e] = "dialing" => e <= made'
      BY <1>0, <3>1 DEF LoopTypes
    <3> QED
      BY <2>3, <2>4, <3>2, LoopTypesAfter, Zenon
  <2> QED
    BY <2>5, <2>6
<1>3. CASE RunTask
  <2>1. tasks # <<>> /\ made' = made
    BY <1>3 DEF RunTask, Run, ConnectionMade, Connected, Reconnected, ForgetClose,
                ConnectionLost, Stop, connVars
  <2>2. Head(tasks) \in Tasks /\ Tail(tasks) \in Seq(Tasks) /\ Tasks' = Tasks
    BY <2>1, HeadTail DEF Tasks
  <2>3. Head(tasks).conn \in 0..made /\ Head(tasks).by \in 0..made
    BY <2>2 DEF Tasks
  <2>4. CASE ConnectionMade \/ Connected
    BY <2>1, <2>2, <2>3, <2>4 DEF ConnectionMade, Connected, LoopTypes, clientVars
  <2>5. CASE Reconnected
    <3>1. Task("forget", Head(tasks).conn, Head(tasks).by) \in Tasks
      BY <2>3 DEF Task, Tasks, Kinds
    <3>2. tasks' \in Seq(Tasks)
      BY <2>2, <2>5, <3>1 DEF Reconnected
    <3> QED
      BY <2>1, <2>2, <2>3, <2>5, <3>2 DEF Reconnected, LoopTypes
  <2>6. CASE ForgetClose
    <3>1. /\ attempts' \in [Connections -> Nat]
          /\ dialing' \in [Dialers -> {"none", "dialing", "gave_up"}]
          /\ \A e \in Dialers : dialing'[e] = "dialing" => e <= made
      BY <2>3, <2>6, TryAgainTypes DEF ForgetClose, AfterAttempt, LoopTypes
    <3> QED
      BY <2>1, <2>2, <2>6, <3>1 DEF ForgetClose, LoopTypes
  <2>7. CASE ConnectionLost
    <3>1. Task("stop", 0, 0) \in Tasks
      BY <1>0 DEF Task, Tasks, Kinds
    <3>2. tasks' = Tail(tasks) \/ tasks' = Append(Tail(tasks), Task("stop", 0, 0))
      BY <2>7 DEF ConnectionLost
    <3>3. tasks' \in Seq(Tasks)
      BY <2>2, <3>1, <3>2
    <3>4. /\ attempts' \in [Connections -> Nat]
          /\ dialing' \in [Dialers -> {"none", "dialing", "gave_up"}]
          /\ \A e \in Dialers : dialing'[e] = "dialing" => e <= made
      BY <2>3, <2>7 DEF ConnectionLost, LoopTypes
    <3> QED
      BY <2>1, <2>2, <2>7, <3>3, <3>4 DEF ConnectionLost, LoopTypes
  <2>8. CASE Stop
    BY <2>1, <2>2, <2>8 DEF Stop, LoopTypes, clientVars
  <2> QED
    BY <1>3, <2>4, <2>5, <2>6, <2>7, <2>8 DEF RunTask
<1>4. CASE Construct \/ CloseChecks \/ Close \/ Silence
  BY <1>4 DEF Construct, GetResult, SetProtocol, CloseChecks, Close, CloseMarks, CloseProtocol,
              Silence, LoopTypes, loopVars, clientVars, connVars, Tasks
<1>5. ASSUME NEW p \in Connections, TransportLost(p) PROVE LoopTypes'
  <2>1. made' = made /\ tasks' = Append(tasks, Task("lost", p, p))
    BY <1>5 DEF TransportLost, Spawn
  <2>2. p \in 0..made
    BY <1>0, <1>5 DEF TransportLost, ConnTypes, Connections
  <2>3. Task("lost", p, p) \in Tasks /\ Tasks' = Tasks
    BY <1>0, <2>1, <2>2 DEF Task, Tasks, Kinds
  <2>4. tasks' \in Seq(Tasks')
    BY <2>1, <2>3 DEF LoopTypes
  <2> QED
    BY <1>5, <2>1, <2>4 DEF TransportLost, LoopTypes, clientVars
<1>6. ASSUME NEW p \in Connections, Heartbeat(p) \/ Peer(p) PROVE LoopTypes'
  BY <1>6 DEF Heartbeat, Peer, Wake, PingAck, PingTimesOut, PeerCloses, PeerHangs, DataReceived,
              LoopTypes, loopVars, clientVars, Tasks
<1>7. ASSUME NEW c \in Calls, Call(c) PROVE LoopTypes'
  BY <1>7 DEF Call, StartCall, SendHeaders, Answer, LoopTypes, loopVars, clientVars, connVars, Tasks
<1>8. CASE UNCHANGED vars
  BY <1>8 DEF vars, LoopTypes, loopVars, clientVars, connVars, Tasks
<1> QED
  BY <1>1, <1>2, <1>3, <1>4, <1>5, <1>6, <1>7, <1>8 DEF Next, Dial

\* The connections stay well typed, and those to come have no state.
LEMMA NextConnTypes == LoopTypes /\ ConnTypes /\ [Next]_vars => ConnTypes'
<1> SUFFICES ASSUME LoopTypes, ConnTypes, [Next]_vars PROVE ConnTypes'
  OBVIOUS
<1>0. made \in Nat /\ MaxConnections \in Nat
  BY ConnectionAssumption DEF LoopTypes
<1>1. ASSUME NEW d \in Dialers, Established(d) PROVE ConnTypes'
  BY <1>0, <1>1 DEF Established, ConnTypes, Connections
<1>2. CASE Stop
  BY <1>2 DEF Stop, ConnTypes
<1>3. CASE CloseProtocol
  <2>1. conn' = Closing(protocol) /\ UNCHANGED <<made, heartbeat, heard>>
    BY <1>3 DEF CloseProtocol
  <2> QED
    BY <2>1 DEF Closing, ConnTypes
<1>4. CASE (\E d \in Dialers : DialFails(d)) \/ Construct \/ CloseChecks \/ CloseMarks
           \/ Silence \/ UNCHANGED vars
  BY <1>4 DEF DialFails, Construct, GetResult, SetProtocol, CloseChecks, CloseMarks, Silence, vars,
              connVars, ConnTypes
<1>5. CASE ConnectionMade \/ Connected \/ Reconnected \/ ForgetClose \/ ConnectionLost
  BY <1>5 DEF ConnectionMade, Connected, Reconnected, ForgetClose, ConnectionLost, connVars, ConnTypes
<1>6. ASSUME NEW p \in Connections, TransportLost(p) \/ Heartbeat(p) \/ Peer(p) PROVE ConnTypes'
  <2>1. CASE TransportLost(p) \/ PeerHangs(p)
    BY <2>1 DEF TransportLost, PeerHangs, ConnTypes
  <2>2. CASE PeerCloses(p) \/ PingTimesOut(p)
    BY <2>2 DEF PeerCloses, PingTimesOut, Closing, ConnTypes
  <2>3. CASE Wake(p) \/ PingAck(p) \/ DataReceived(p)
    BY <2>3 DEF Wake, PingAck, DataReceived, ConnTypes
  <2> QED
    BY <1>6, <2>1, <2>2, <2>3 DEF Heartbeat, Peer
<1>7. ASSUME NEW c \in Calls, Call(c) PROVE ConnTypes'
  BY <1>7 DEF Call, StartCall, SendHeaders, Answer, connVars, ConnTypes
<1> QED
  BY <1>1, <1>2, <1>3, <1>4, <1>5, <1>6, <1>7 DEF Next, Dial, RunTask, Close

\* The client's flags stay well typed.
LEMMA NextClientTypes == ClientTypes /\ [Next]_vars => ClientTypes'
<1> SUFFICES ASSUME ClientTypes, [Next]_vars PROVE ClientTypes'
  OBVIOUS
<1> USE DEF ClientTypes, clientVars, Faults
<1>1. ASSUME NEW d \in Dialers, Dial(d) PROVE ClientTypes'
  BY <1>1 DEF Dial, Established, DialFails
<1>2. CASE RunTask
  BY <1>2 DEF RunTask, ConnectionMade, Connected, Reconnected, ForgetClose, ConnectionLost, Stop
<1>3. CASE Construct \/ CloseChecks \/ Close \/ Silence
  BY <1>3 DEF Construct, GetResult, SetProtocol, CloseChecks, Close, CloseMarks, Marked,
              CloseProtocol, Silence
<1>4. ASSUME NEW p \in Connections, TransportLost(p) \/ Heartbeat(p) \/ Peer(p) PROVE ClientTypes'
  BY <1>4 DEF TransportLost, Heartbeat, Wake, PingAck, PingTimesOut, Peer, PeerCloses, PeerHangs,
              DataReceived
<1>5. ASSUME NEW c \in Calls, Call(c) PROVE ClientTypes'
  BY <1>5 DEF Call, StartCall, SendHeaders, Answer
<1>6. CASE UNCHANGED vars
  BY <1>6 DEF vars
<1> QED
  BY <1>1, <1>2, <1>3, <1>4, <1>5, <1>6 DEF Next

\* The calls stay well typed: their ids stay within the table.
LEMMA NextCallTypes == LoopTypes /\ CallTypes /\ [Next]_vars => CallTypes'
<1> SUFFICES ASSUME LoopTypes, CallTypes, [Next]_vars PROVE CallTypes'
  OBVIOUS
<1>0. made \in Nat /\ made' \in Nat /\ made <= made'
  BY MadeGrows, ConnectionAssumption DEF LoopTypes
<1>1. ASSUME NEW d \in Dialers, Established(d) PROVE CallTypes'
  BY <1>0, <1>1 DEF Established, CallTypes, Unregistered
<1>2. CASE (\E d \in Dialers : DialFails(d)) \/ RunTask \/ Construct \/ CloseChecks \/ Close
           \/ Silence \/ UNCHANGED vars
  BY <1>2 DEF DialFails, RunTask, ConnectionMade, Connected, Reconnected, ForgetClose,
              ConnectionLost, Stop, Construct, Silence, GetResult, SetProtocol, CloseChecks, Close,
              CloseMarks, CloseProtocol, vars, callVars, connVars, CallTypes
<1>3. ASSUME NEW p \in Connections, TransportLost(p) \/ Heartbeat(p) \/ Peer(p) PROVE CallTypes'
  BY <1>3 DEF TransportLost, Heartbeat, Wake, PingAck, PingTimesOut, Peer, PeerCloses, PeerHangs,
              DataReceived, callVars, CallTypes
<1>4. ASSUME NEW c \in Calls, Call(c) PROVE CallTypes'
  <2>1. CASE StartCall(c)
    BY <1>0, <2>1 DEF StartCall, CallTypes, connVars
  <2>2. CASE SendHeaders(c)
    <3> DEFINE id == NextStreamId(callConn[c])
    <3>1. Cardinality(Calls) \in Nat /\ id \in Ids
      BY <2>2, IdsAreEnough DEF SendHeaders
    <3>2. callId' = [callId EXCEPT ![c] = id] /\ streams' = [streams EXCEPT ![id] = c]
      BY <2>2 DEF SendHeaders
    <3>3. UNCHANGED <<made, current, callConn, answer>>
      BY <2>2 DEF SendHeaders, connVars
    <3>4. id \in 0..Cardinality(Calls)
      BY <3>1 DEF Ids
    <3> HIDE DEF id
    <3> QED
      BY <3>1, <3>2, <3>3, <3>4 DEF CallTypes
  <2>3. CASE Answer(c)
    <3>1. UNCHANGED <<made, current, streams, callConn, callId>>
      BY <2>3 DEF Answer
    <3>2. answer' = [answer EXCEPT ![streams[callId[c]]] = c]
      BY <2>3 DEF Answer
    <3> QED
      BY <3>1, <3>2 DEF CallTypes
  <2> QED
    BY <1>4, <2>1, <2>2, <2>3 DEF Call
<1> QED
  BY <1>1, <1>2, <1>3, <1>4 DEF Next, Dial

\* The types are an invariant.
LEMMA TypedHolds == Spec => []Typed
<1>1. Init => Typed
  <2> SUFFICES ASSUME Init PROVE Typed
    OBVIOUS
  <2>1. Cardinality(Calls) \in Nat
    BY ConnectionAssumption, FS_CardinalityType
  <2>2. LoopTypes
    <3>1. tasks = <<>> /\ tasks \in Seq(Tasks)
      BY DEF Init
    <3>2. made \in 0..MaxConnections /\ attempts \in [Connections -> Nat]
      BY ConnectionAssumption DEF Init
    <3>3. made = 0 /\ result = 0 /\ protocol = 0 /\ stopped = FALSE
      BY DEF Init
    <3>4. result \in 0..made /\ protocol \in 0..made
      BY <3>3
    <3>5. /\ stopped \in BOOLEAN
          /\ dialing \in [Dialers -> {"none", "dialing", "gave_up"}]
          /\ \A d \in Dialers : dialing[d] = "dialing" => d <= made
      <4>1. dialing = [d \in Dialers |-> IF d = 0 THEN "dialing" ELSE "none"] /\ made = 0
        BY DEF Init, Constructor
      <4>2. dialing \in [Dialers -> {"none", "dialing", "gave_up"}]
        BY <4>1
      <4>3. \A d \in Dialers : dialing[d] = "dialing" => d <= made
        BY <4>1
      <4> QED
        BY <3>3, <4>2, <4>3
    <3> QED
      BY <3>1, <3>2, <3>4, <3>5 DEF LoopTypes
  <2>3. ConnTypes /\ ClientTypes
    BY DEF Init, ConnTypes, ClientTypes
  <2>4. CallTypes
    BY <2>1 DEF Init, CallTypes, Unregistered
  <2> QED
    BY <2>2, <2>3, <2>4 DEF Typed
<1>2. Typed /\ [Next]_vars => Typed'
  BY NextLoopTypes, NextConnTypes, NextClientTypes, NextCallTypes DEF Typed
<1> QED
  BY <1>1, <1>2, PTL DEF Spec

\* Every reachable state is well typed: tasks and attempts are of connections that
\* were established, and the table of streams has room for every call.
THEOREM TypeCorrect == Spec => []TypeOK
<1>1. Typed => TypeOK
  BY DEF Typed, LoopTypes, ConnTypes, ClientTypes, CallTypes, TypeOK, Tasks, Kinds
<1> QED
  BY <1>1, TypedHolds, PTL

----------------------------------------------------------------------------
(* One connection *)

Trying == {d \in Dialers : dialing[d] = "dialing"}
Dialing == Trying # {}
LostTasks == {i \in DOMAIN tasks : tasks[i].kind = "lost"}

\* What makes OneConnection inductive: a live connection, a loss the client has
\* not heard of, and an attempt to connect exclude each other and themselves.
OneAtATime ==
    /\ \A p, q \in Connections : Live(p) /\ Live(q) => p = q
    /\ \A p \in Connections : Live(p) => ~Dialing /\ LostTasks = {}
    /\ \A i, j \in LostTasks : i = j
    /\ Dialing => LostTasks = {}
    /\ \A d, e \in Trying : d = e

\* It ends with _LOGGER.info.
Sole == ~silenced => OneAtATime

\* Running the first task, or putting one of another kind in its place or at the
\* end, adds no loss.
LEMMA LossesAfter ==
    ASSUME NEW S, tasks \in Seq(S), NEW task \in S, task.kind # "lost"
    PROVE  /\ tasks' = Append(tasks, task) => LostTasks' = LostTasks
           /\ tasks # <<>> /\ Head(tasks).kind # "lost"
                /\ tasks' \in {Tail(tasks), <<task>> \o Tail(tasks)} =>
                (LostTasks = {} => LostTasks' = {})
                /\ ((\A i, j \in LostTasks : i = j) => \A i, j \in LostTasks' : i = j)
           /\ tasks # <<>> /\ Head(tasks).kind = "lost" /\ (\A i, j \in LostTasks : i = j)
                /\ tasks' \in {Tail(tasks), Append(Tail(tasks), task)} => LostTasks' = {}
<1> USE DEF LostTasks
<1>1. ASSUME tasks' = Append(tasks, task) PROVE LostTasks' = LostTasks
  BY <1>1
<1>2. ASSUME tasks # <<>>, Head(tasks).kind # "lost", tasks' = Tail(tasks)
      PROVE  (LostTasks = {} => LostTasks' = {})
             /\ ((\A i, j \in LostTasks : i = j) => \A i, j \in LostTasks' : i = j)
  <2>1. \A i \in LostTasks' : i \in Nat /\ i + 1 \in LostTasks
    BY <1>2
  <2> QED
    BY <2>1
<1>3. ASSUME tasks # <<>>, Head(tasks).kind # "lost", tasks' = <<task>> \o Tail(tasks)
      PROVE  (LostTasks = {} => LostTasks' = {})
             /\ ((\A i, j \in LostTasks : i = j) => \A i, j \in LostTasks' : i = j)
  <2>1. \A i \in LostTasks' : i \in LostTasks
    BY <1>3
  <2> QED
    BY <2>1
<1>4. ASSUME tasks # <<>>, Head(tasks).kind = "lost", \A i, j \in LostTasks : i = j,
             tasks' \in {Tail(tasks), Append(Tail(tasks), task)}
      PROVE  LostTasks' = {}
  <2>1. 1 \in LostTasks
    BY <1>4
  <2>2. \A i \in DOMAIN Tail(tasks) : Tail(tasks)[i].kind # "lost"
    <3> SUFFICES ASSUME NEW i \in DOMAIN Tail(tasks), Tail(tasks)[i].kind = "lost" PROVE FALSE
      OBVIOUS
    <3>1. i \in Nat \ {0} /\ i + 1 \in DOMAIN tasks /\ tasks[i + 1] = Tail(tasks)[i]
      BY <1>4
    <3>2. i + 1 \in LostTasks
      BY <3>1
    <3> QED
      BY <1>4, <2>1, <3>1, <3>2
  <2>3. CASE tasks' = Tail(tasks)
    BY <2>2, <2>3
  <2>4. CASE tasks' = Append(Tail(tasks), task)
    <3>1. Tail(tasks) \in Seq(S)
      BY <1>4
    <3> QED
      BY <2>2, <2>4, <3>1
  <2> QED
    BY <1>4, <2>3, <2>4
<1> QED
  BY <1>1, <1>2, <1>3, <1>4

\* What connection_made and the coroutine that waits for the connection add.
LEMMA EstablishedTasks ==
    ASSUME LoopTypes, NEW d \in Dialers, Established(d)
    PROVE  /\ DOMAIN tasks = 1..Len(tasks) /\ DOMAIN tasks' = 1..(Len(tasks) + 2) /\ Len(tasks) \in Nat
           /\ \A i \in DOMAIN tasks : tasks'[i] = tasks[i]
           /\ tasks'[Len(tasks) + 1].kind = "made" /\ tasks'[Len(tasks) + 1].conn = made'
           /\ tasks'[Len(tasks) + 2].kind \in {"constructor", "reconnect"}
           /\ tasks'[Len(tasks) + 2].conn = made'
           /\ \A i \in DOMAIN tasks' : tasks'[i].kind = "lost" => i \in LostTasks
           /\ \A i \in DOMAIN tasks' : i \in DOMAIN tasks \/ tasks'[i].conn = made'
           /\ LostTasks \subseteq DOMAIN tasks' /\ LostTasks \subseteq LostTasks'
<1> DEFINE resumed == Task(IF d = Constructor THEN "constructor" ELSE "reconnect", made', d)
           first == Append(tasks, Task("made", made', 0))
<1>1. tasks' = Append(first, resumed)
  BY DEF Established, Spawn
<1>2. /\ resumed.kind \in {"constructor", "reconnect"} /\ resumed.conn = made'
      /\ Task("made", made', 0).kind = "made" /\ Task("made", made', 0).conn = made'
  BY DEF Task
<1> HIDE DEF resumed
<1>3. /\ DOMAIN tasks = 1..Len(tasks) /\ DOMAIN tasks' = 1..(Len(tasks) + 2) /\ Len(tasks) \in Nat
      /\ \A i \in DOMAIN tasks : tasks'[i] = tasks[i]
      /\ tasks'[Len(tasks) + 1] = Task("made", made', 0)
      /\ tasks'[Len(tasks) + 2] = resumed
  BY <1>1 DEF LoopTypes
<1>4. \A i \in DOMAIN tasks' : i \in DOMAIN tasks \/ i = Len(tasks) + 1 \/ i = Len(tasks) + 2
  BY <1>3
<1>5. LostTasks \subseteq DOMAIN tasks' /\ LostTasks \subseteq LostTasks'
  BY <1>3 DEF LostTasks
<1> QED
  BY <1>2, <1>3, <1>4, <1>5 DEF LostTasks

\* What was overwritten stays so.
LEMMA Logs == ClientTypes /\ [Next]_vars => (~silenced' => ~silenced)
<1> SUFFICES ASSUME ClientTypes, [Next]_vars, silenced PROVE silenced'
  BY DEF ClientTypes
<1>1. ASSUME NEW d \in Dialers, Dial(d) PROVE silenced'
  BY <1>1 DEF Dial, Established, DialFails
<1>2. CASE RunTask \/ Construct \/ CloseChecks \/ Close \/ Silence \/ UNCHANGED vars
  BY <1>2 DEF RunTask, Construct, Close, ConnectionMade, Connected, Reconnected, ForgetClose,
         ConnectionLost, Stop, GetResult, SetProtocol, CloseChecks, CloseMarks, CloseProtocol,
         Silence, vars
<1>3. ASSUME NEW p \in Connections, TransportLost(p) \/ Heartbeat(p) \/ Peer(p) PROVE silenced'
  BY <1>3 DEF Heartbeat, Peer, TransportLost, Wake, PingAck, PingTimesOut, PeerCloses,
         PeerHangs, DataReceived
<1>4. ASSUME NEW c \in Calls, Call(c) PROVE silenced'
  BY <1>4 DEF Call, StartCall, SendHeaders, Answer
<1> QED
  BY <1>1, <1>2, <1>3, <1>4 DEF Next

\* Every step keeps Sole.
LEMMA NextSole == LoopTypes /\ ConnTypes /\ ClientTypes /\ Sole /\ [Next]_vars => Sole'
<1> SUFFICES ASSUME LoopTypes, ConnTypes, OneAtATime, ~silenced, [Next]_vars PROVE OneAtATime'
  BY Logs DEF Sole
<1>0. made \in Nat /\ MaxConnections \in Nat
  BY ConnectionAssumption DEF LoopTypes
\* Steps that keep the tasks, do not connect, and make no connection live.
<1>A. ASSUME \A p \in Connections : Live(p)' => Live(p), Trying' \subseteq Trying,
             LostTasks = {} => LostTasks' = {}, (\A i, j \in LostTasks : i = j) => \A i, j \in LostTasks' : i = j
      PROVE  OneAtATime'
  BY <1>A DEF OneAtATime, Dialing
<1>1. ASSUME NEW d \in Dialers, Established(d) PROVE OneAtATime'
  <2>0. d \in Trying /\ dialing \in [Dialers -> {"none", "dialing", "gave_up"}]
    BY <1>1 DEF Established, Trying, LoopTypes
  <2>1. LostTasks = {} /\ \A p \in Connections : ~Live(p)
    BY <2>0 DEF Dialing, OneAtATime
  <2>2. \A p \in Connections : Live(p)' => p = made'
    BY <1>0, <1>1, <2>1 DEF Established, ConnTypes, Live, Connections
  <2>3. LostTasks' = {}
    BY <1>1, <2>1, EstablishedTasks DEF LostTasks
  <2>4. ~Dialing'
    <3>1. dialing' = [dialing EXCEPT ![d] = "none"]
      BY <1>1 DEF Established
    <3> QED
      BY <2>0, <3>1 DEF OneAtATime, Dialing, Trying
  <2> QED
    BY <2>2, <2>3, <2>4 DEF OneAtATime, Dialing
<1>2. ASSUME NEW d \in Dialers, DialFails(d) PROVE OneAtATime'
  <2>1. UNCHANGED <<tasks, conn>> /\ d \in Trying
    BY <1>2 DEF DialFails, connVars, Trying
  <2>2. \E x \in {"none", "dialing", "gave_up"} : dialing' = [dialing EXCEPT ![d] = x]
    BY <1>2 DEF DialFails, TryAgain
  <2>3. Trying' \subseteq Trying
    BY <2>1, <2>2 DEF Trying, LoopTypes
  <2> QED
    BY <1>A, <2>1, <2>3 DEF LostTasks, Live
<1>3. CASE ConnectionMade \/ Connected \/ Reconnected \/ ForgetClose
  <2> DEFINE task == Task("forget", Head(tasks).conn, Head(tasks).by)
  <2>1. /\ tasks # <<>> /\ Head(tasks).kind # "lost" /\ conn' = conn
        /\ tasks' \in {Tail(tasks), <<task>> \o Tail(tasks)}
        /\ Trying' = Trying
    BY <1>3 DEF ConnectionMade, Connected, Reconnected, ForgetClose, Run, AfterAttempt, connVars, Trying
  <2>2. task \in Tasks /\ task.kind # "lost"
    BY <2>1, HeadTail DEF Task, Tasks, Kinds
  <2> HIDE DEF task
  <2>3. /\ LostTasks = {} => LostTasks' = {}
        /\ (\A i, j \in LostTasks : i = j) => \A i, j \in LostTasks' : i = j
    BY <2>1, <2>2, LossesAfter DEF LoopTypes
  <2> QED
    BY <1>A, <2>1, <2>3 DEF Live
<1>4. CASE ConnectionLost
  <2>1. /\ tasks # <<>> /\ Head(tasks).kind = "lost" /\ conn' = conn
        /\ tasks' \in {Tail(tasks), Append(Tail(tasks), Task("stop", 0, 0))}
    BY <1>4 DEF ConnectionLost, Run, connVars
  <2>2. Task("stop", 0, 0) \in Tasks /\ Task("stop", 0, 0).kind # "lost"
    BY <1>0 DEF Task, Tasks, Kinds
  <2>3. LostTasks' = {}
    BY <2>1, <2>2, LossesAfter DEF LoopTypes, OneAtATime
  <2>4. 1 \in LostTasks
    BY <2>1 DEF LoopTypes, LostTasks
  <2>5. \A p \in Connections : ~Live(p)'
    BY <2>1, <2>4 DEF OneAtATime, Live
  <2>6. Trying = {}
    BY <2>4 DEF OneAtATime, Dialing
  <2>7. \A d, e \in Trying' : d = e
    BY <1>4, <2>6 DEF ConnectionLost, Trying, LoopTypes
  <2> QED
    BY <2>3, <2>5, <2>7 DEF OneAtATime
<1>5. CASE Stop
  <2>1. tasks' = <<>> /\ conn' = conn /\ Trying' = {}
    BY <1>5 DEF Stop, Trying
  <2> QED
    BY <1>A, <2>1 DEF LostTasks, Live
<1>6. CASE Construct \/ CloseChecks \/ CloseMarks \/ Silence \/ UNCHANGED vars
  <2>1. UNCHANGED <<tasks, conn, dialing>>
    BY <1>6 DEF Construct, Silence, GetResult, SetProtocol, CloseChecks, CloseMarks, vars, loopVars, connVars
  <2> QED
    BY <1>A, <2>1 DEF LostTasks, Live, Trying
<1>7. ASSUME UNCHANGED <<tasks, dialing>>, \A q \in Connections : Live(q)' => Live(q) PROVE OneAtATime'
  BY <1>7, <1>A DEF LostTasks, Trying
<1>8. CASE CloseProtocol
  <2>1. conn' = Closing(protocol) /\ UNCHANGED <<tasks, dialing>>
    BY <1>8 DEF CloseProtocol, loopVars
  <2>2. \A q \in Connections : Live(q)' => Live(q)
    BY <2>1 DEF Closing, Live, ConnTypes
  <2> QED
    BY <1>7, <2>1, <2>2
<1>9. ASSUME NEW p \in Connections, Heartbeat(p) \/ Peer(p) PROVE OneAtATime'
  <2>1. UNCHANGED <<tasks, dialing>>
    BY <1>9 DEF Heartbeat, Wake, PingAck, PingTimesOut, Peer, PeerCloses, PeerHangs, DataReceived, loopVars
  <2>2. \/ conn' = conn
        \/ conn' = Closing(p)
        \/ conn' = [conn EXCEPT ![p] = "hung"] /\ conn[p] = "open"
    BY <1>9 DEF Heartbeat, Wake, PingAck, PingTimesOut, Peer, PeerCloses, PeerHangs, DataReceived
  <2>3. \A q \in Connections : Live(q)' => Live(q)
    BY <2>2 DEF Closing, Live, ConnTypes
  <2> QED
    BY <1>7, <2>1, <2>3
<1>10. ASSUME NEW p \in Connections, TransportLost(p) PROVE OneAtATime'
  <2>1. conn[p] = "closing" /\ conn' = [conn EXCEPT ![p] = "lost"] /\ dialing' = dialing
        /\ tasks' = Append(tasks, Task("lost", p, p))
    BY <1>10 DEF TransportLost, Spawn
  <2>2. Trying = {} /\ LostTasks = {} /\ \A q \in Connections : Live(q) => q = p
    BY <2>1 DEF OneAtATime, Live, Dialing
  <2>3. \A q \in Connections : ~Live(q)'
    BY <2>1, <2>2 DEF Live, ConnTypes
  <2>4. \A i \in LostTasks' : i = Len(tasks) + 1
    <3>1. p \in 0..made
      BY <1>0, <2>1 DEF ConnTypes, Connections
    <3>2. Task("lost", p, p) \in Tasks
      BY <3>1 DEF Task, Tasks, Kinds
    <3> QED
      BY <2>1, <2>2, <3>2 DEF LoopTypes, LostTasks
  <2>5. Trying' = {}
    BY <2>1, <2>2 DEF Trying
  <2> QED
    BY <2>3, <2>4, <2>5 DEF OneAtATime, Dialing
<1>11. ASSUME NEW c \in Calls, Call(c) PROVE OneAtATime'
  <2>1. UNCHANGED <<tasks, conn, dialing>>
    BY <1>11 DEF Call, StartCall, SendHeaders, Answer, loopVars, connVars
  <2> QED
    BY <1>A, <2>1 DEF LostTasks, Live, Trying
<1> QED
  BY <1>1, <1>2, <1>3, <1>4, <1>5, <1>6, <1>8, <1>9, <1>10, <1>11 DEF Next, Dial, RunTask, Close

\* As long as _LOGGER.info is what it was, a reconnection never starts while a
\* connection is up, and never ends in a second one: heartbeats of lost connections,
\* close() and late tasks included.
THEOREM OneConnectionCorrect == Spec => []OneConnection
<1>1. Init => Sole
  BY DEF Init, Sole, OneAtATime, Live, LostTasks, Dialing, Trying
<1>2. Sole => OneConnection
  BY DEF Sole, OneAtATime, OneConnection
<1> QED
  BY <1>1, <1>2, NextSole, TypedHolds, PTL DEF Spec, Typed

----------------------------------------------------------------------------
(* What is_connected says *)

Kind(i) == tasks[i].kind
Raising == {"made", "reconnect"}     \* the tasks that set _connected

\* What the tasks that are ready will make of _connected: a loss comes last, a connection
\* that is up has set it or its connection_made is still to run, and otherwise
\* nothing sets it. A stop follows the last loss.
Telling ==
    /\ \A i \in LostTasks, j \in DOMAIN tasks : Kind(j) \in Raising => j < i
    /\ LostTasks = {} /\ Up => connected \/ \E i \in DOMAIN tasks : Kind(i) = "made"
    /\ LostTasks = {} /\ ~Up => ~connected /\ \A i \in DOMAIN tasks : Kind(i) \notin Raising
    /\ (\E i \in DOMAIN tasks : Kind(i) = "stop") => ~Up /\ ~Dialing /\ LostTasks = {}

\* It ends with _LOGGER.info.
Due == ~silenced => Telling

\* The kinds of the tasks, when one is put at the end, and when the first one has run.
LEMMA KindsAppended ==
    ASSUME NEW S, tasks \in Seq(S), NEW task \in S, tasks' = Append(tasks, task)
    PROVE  /\ DOMAIN tasks = 1..Len(tasks) /\ DOMAIN tasks' = 1..(Len(tasks) + 1) /\ Len(tasks) \in Nat
           /\ \A i \in DOMAIN tasks : tasks'[i] = tasks[i]
           /\ tasks'[Len(tasks) + 1] = task
  OBVIOUS

LEMMA KindsShifted ==
    ASSUME NEW S, tasks \in Seq(S), tasks # <<>>, tasks' = Tail(tasks)
    PROVE  /\ DOMAIN tasks = 1..Len(tasks) /\ DOMAIN tasks' = 1..(Len(tasks) - 1)
           /\ Len(tasks) \in Nat \ {0} /\ Head(tasks) = tasks[1]
           /\ \A i \in DOMAIN tasks' : tasks'[i] = tasks[i + 1]
  OBVIOUS

\* "forget" takes the place of "reconnect".
LEMMA ForgetTasks ==
    ASSUME LoopTypes, Reconnected
    PROVE  /\ DOMAIN tasks = 1..Len(tasks) /\ DOMAIN tasks' = DOMAIN tasks /\ Len(tasks) \in Nat \ {0}
           /\ tasks[1].kind = "reconnect" /\ tasks'[1].kind = "forget"
           /\ \A i \in DOMAIN tasks : i # 1 => tasks'[i] = tasks[i]
<1> DEFINE forget == Task("forget", Head(tasks).conn, Head(tasks).by)
<1>1. tasks # <<>> /\ Head(tasks).kind = "reconnect" /\ tasks' = <<forget>> \o Tail(tasks)
  BY DEF Reconnected, Run
<1>2. forget.kind = "forget"
  BY DEF Task
<1> HIDE DEF forget
<1>3. /\ DOMAIN tasks = 1..Len(tasks) /\ DOMAIN tasks' = DOMAIN tasks /\ Len(tasks) \in Nat \ {0}
      /\ tasks'[1] = forget /\ Head(tasks) = tasks[1]
  BY <1>1 DEF LoopTypes
<1>4. \A i \in DOMAIN tasks : i # 1 => tasks'[i] = tasks[i]
  BY <1>1 DEF LoopTypes
<1> QED
  BY <1>1, <1>2, <1>3, <1>4

\* A task that ran is gone, and those that follow it keep their order.
LEMMA AfterHead ==
    ASSUME LoopTypes, Telling, tasks # <<>>, tasks' = Tail(tasks)
    PROVE  /\ \A i \in LostTasks', j \in DOMAIN tasks' : Kind(j)' \in Raising => j < i
           /\ LostTasks = {} => LostTasks' = {}
           /\ \A j \in DOMAIN tasks' : j + 1 \in DOMAIN tasks /\ Kind(j)' = Kind(j + 1)
           /\ (\E i \in DOMAIN tasks' : Kind(i)' = "made")
                  \/ ((\E i \in DOMAIN tasks : Kind(i) = "made") => Head(tasks).kind = "made")
           /\ LostTasks' = {} => LostTasks = {} \/ Head(tasks).kind = "lost"
<1>1. /\ DOMAIN tasks = 1..Len(tasks) /\ DOMAIN tasks' = 1..(Len(tasks) - 1)
      /\ Len(tasks) \in Nat \ {0} /\ Head(tasks) = tasks[1]
      /\ \A i \in DOMAIN tasks' : tasks'[i] = tasks[i + 1]
  BY KindsShifted DEF LoopTypes
<1>2. \A j \in DOMAIN tasks' : j \in Nat /\ j + 1 \in DOMAIN tasks /\ Kind(j)' = Kind(j + 1)
  BY <1>1 DEF Kind
<1>3. \A i \in DOMAIN tasks : i = 1 \/ (i - 1 \in DOMAIN tasks' /\ (i - 1) + 1 = i)
  BY <1>1
<1>4. \A i \in LostTasks' : i \in DOMAIN tasks' /\ i + 1 \in LostTasks
  BY <1>2 DEF LostTasks, Kind
<1>5. \A i \in LostTasks : i = 1 \/ i - 1 \in LostTasks'
  BY <1>2, <1>3 DEF LostTasks, Kind
<1>6. \A i \in LostTasks', j \in DOMAIN tasks' : Kind(j)' \in Raising => j < i
  <2> SUFFICES ASSUME NEW i \in LostTasks', NEW j \in DOMAIN tasks', Kind(j)' \in Raising PROVE j < i
    OBVIOUS
  <2>1. j + 1 < i + 1
    BY <1>2, <1>4 DEF Telling
  <2> QED
    BY <1>1, <1>4, <2>1
<1>7. (\E i \in DOMAIN tasks' : Kind(i)' = "made")
          \/ ((\E i \in DOMAIN tasks : Kind(i) = "made") => Head(tasks).kind = "made")
  BY <1>1, <1>2, <1>3 DEF Kind
<1>8. LostTasks' = {} => LostTasks = {} \/ Head(tasks).kind = "lost"
  BY <1>1, <1>5 DEF LostTasks
<1> QED
  BY <1>2, <1>4, <1>6, <1>7, <1>8

\* Every step keeps Due.
LEMMA NextDue == LoopTypes /\ ConnTypes /\ ClientTypes /\ Sole /\ Due /\ [Next]_vars => Due'
<1> SUFFICES ASSUME LoopTypes, ConnTypes, OneAtATime, Telling, ~silenced, [Next]_vars PROVE Telling'
  BY Logs DEF Sole, Due
<1>0. made \in Nat /\ MaxConnections \in Nat
  BY ConnectionAssumption DEF LoopTypes
<1>A. ASSUME UNCHANGED <<tasks, connected>>, Up' <=> Up, Dialing' => Dialing PROVE Telling'
  BY <1>A DEF Telling, LostTasks, Kind
<1>1. ASSUME NEW d \in Dialers, Established(d) PROVE Telling'
  <2>0. Dialing
    BY <1>1 DEF Established, Dialing, Trying
  <2>1. LostTasks = {} /\ Up' /\ \A i \in DOMAIN tasks : Kind(i) # "stop"
    BY <1>0, <1>1, <2>0 DEF Established, OneAtATime, Telling, Up, Live, Connections, ConnTypes
  <2>2. \A i \in DOMAIN tasks' : Kind(i)' # "lost" /\ Kind(i)' # "stop"
    <3> SUFFICES ASSUME NEW i \in DOMAIN tasks' PROVE Kind(i)' # "lost" /\ Kind(i)' # "stop"
      OBVIOUS
    <3>1. i \in DOMAIN tasks \/ i = Len(tasks) + 1 \/ i = Len(tasks) + 2
      BY <1>1, EstablishedTasks
    <3> QED
      BY <1>1, <2>1, <3>1, EstablishedTasks DEF LostTasks, Kind
  <2>3. LostTasks' = {} /\ \E i \in DOMAIN tasks' : Kind(i)' = "made"
    <3>1. Len(tasks) + 1 \in DOMAIN tasks' /\ tasks'[Len(tasks) + 1].kind = "made"
      BY <1>1, EstablishedTasks
    <3>2. \E i \in DOMAIN tasks' : tasks'[i].kind = "made"
      BY <3>1
    <3> QED
      BY <2>2, <3>2 DEF LostTasks, Kind
  <2> QED
    BY <2>1, <2>2, <2>3 DEF Telling
<1>2. ASSUME NEW d \in Dialers, DialFails(d) PROVE Telling'
  <2>1. Dialing /\ UNCHANGED <<tasks, connected, conn>>
    BY <1>2 DEF DialFails, connVars, clientVars, Dialing, Trying
  <2> QED
    BY <1>A, <2>1 DEF Up, Live
<1>3. ASSUME UNCHANGED conn, tasks # <<>>, tasks' = Tail(tasks), Dialing' => Dialing,
             Head(tasks).kind # "lost",
             \/ connected' = TRUE /\ Head(tasks).kind \in Raising
             \/ connected' = connected /\ Head(tasks).kind \notin Raising
      PROVE  Telling'
  <2>1. Up' <=> Up
    BY <1>3 DEF Up, Live
  <2>2. Head(tasks).kind = Kind(1) /\ 1 \in DOMAIN tasks
    BY <1>3 DEF LoopTypes, Kind
  <2>3. LostTasks' = {} <=> LostTasks = {}
    BY <1>3, AfterHead
  <2>4. LostTasks' = {} /\ Up' => connected' \/ \E i \in DOMAIN tasks' : Kind(i)' = "made"
    BY <1>3, <2>1, <2>3, AfterHead DEF Telling, Raising
  <2>5. LostTasks' = {} /\ ~Up' => ~connected' /\ \A i \in DOMAIN tasks' : Kind(i)' \notin Raising
    BY <1>3, <2>1, <2>2, <2>3, AfterHead DEF Telling
  <2>6. (\E i \in DOMAIN tasks' : Kind(i)' = "stop") => ~Up' /\ ~Dialing' /\ LostTasks' = {}
    BY <1>3, <2>1, <2>3, AfterHead DEF Telling
  <2> QED
    BY <1>3, <2>4, <2>5, <2>6, AfterHead DEF Telling
<1>4. CASE ConnectionMade \/ Connected \/ ForgetClose
  BY <1>3, <1>4 DEF ConnectionMade, Connected, ForgetClose, AfterAttempt, Run, connVars, clientVars,
     Dialing, Trying, Raising
\* "forget" takes the place of "reconnect".
<1>5. CASE Reconnected
  <2>1. /\ UNCHANGED conn /\ connected' = TRUE /\ Trying' = Trying
    BY <1>5 DEF Reconnected, connVars, Trying
  <2>2. /\ DOMAIN tasks = 1..Len(tasks) /\ DOMAIN tasks' = DOMAIN tasks /\ Len(tasks) \in Nat \ {0}
        /\ Kind(1) = "reconnect" /\ Kind(1)' = "forget"
        /\ \A i \in DOMAIN tasks : i # 1 => Kind(i)' = Kind(i)
    BY <1>5, ForgetTasks DEF Kind
  <2>3. LostTasks' = LostTasks
    BY <2>2 DEF LostTasks, Kind
  <2>4. Up' <=> Up
    BY <2>1 DEF Up, Live
  <2>5. LostTasks = {} => Up
    BY <2>2 DEF Telling, Raising
  <2>6. \A i \in LostTasks', j \in DOMAIN tasks' : Kind(j)' \in Raising => j < i
    BY <2>2, <2>3 DEF Telling, Raising
  <2>7. (\E i \in DOMAIN tasks' : Kind(i)' = "stop") => ~Up' /\ ~Dialing' /\ LostTasks' = {}
    BY <2>1, <2>2, <2>3, <2>4 DEF Telling, Dialing
  <2> QED
    BY <2>1, <2>3, <2>4, <2>5, <2>6, <2>7 DEF Telling
<1>6. CASE ConnectionLost
  <2>1. /\ tasks # <<>> /\ Head(tasks).kind = "lost" /\ conn' = conn /\ ~connected'
        /\ tasks' \in {Tail(tasks), Append(Tail(tasks), Task("stop", 0, 0))}
        /\ tasks' = Tail(tasks) \/ Trying' = Trying
    BY <1>6 DEF ConnectionLost, Run, connVars, Trying
  <2>2. 1 \in LostTasks /\ DOMAIN tasks = 1..Len(tasks) /\ Len(tasks) \in Nat \ {0}
    BY <2>1 DEF LoopTypes, LostTasks
  <2>3. Task("stop", 0, 0) \in Tasks /\ Task("stop", 0, 0).kind # "lost"
    BY <1>0 DEF Task, Tasks, Kinds
  <2>4. LostTasks' = {}
    BY <2>1, <2>3, LossesAfter DEF LoopTypes, OneAtATime
  <2>5. ~Up' /\ ~Dialing /\ \A i \in DOMAIN tasks : Kind(i) # "stop" /\ Kind(i) \notin Raising
    <3>1. ~Up /\ ~Dialing
      BY <2>2 DEF OneAtATime, Up
    <3>2. \A i \in DOMAIN tasks : Kind(i) \in Raising => i < 1
      BY <2>2 DEF Telling
    <3> QED
      BY <2>1, <2>2, <3>1, <3>2 DEF Telling, Up, Live
  <2>6. \A i \in DOMAIN tasks' :
            \/ i + 1 \in DOMAIN tasks /\ Kind(i)' = Kind(i + 1)
            \/ tasks' # Tail(tasks) /\ Kind(i)' = "stop"
    <3>1. CASE tasks' = Tail(tasks)
      BY <2>1, <3>1, KindsShifted DEF LoopTypes, Kind
    <3>2. CASE tasks' = Append(Tail(tasks), Task("stop", 0, 0))
      <4>1. /\ Tail(tasks) \in Seq(Tasks) /\ Len(Tail(tasks)) = Len(tasks) - 1
            /\ \A i \in 1..(Len(tasks) - 1) : Tail(tasks)[i] = tasks[i + 1]
        BY <2>1 DEF LoopTypes
      <4>2. /\ DOMAIN tasks' = 1..Len(tasks) /\ tasks'[Len(tasks)] = Task("stop", 0, 0)
            /\ \A i \in 1..(Len(tasks) - 1) : tasks'[i] = tasks[i + 1]
        BY <2>2, <2>3, <3>2, <4>1
      <4>3. tasks' # Tail(tasks)
        <5>1. Len(tasks) \in DOMAIN tasks' /\ Len(tasks) \notin DOMAIN Tail(tasks)
          BY <2>2, <4>1, <4>2
        <5> QED
          BY <5>1
      <4>4. \A i \in DOMAIN tasks' : i = Len(tasks) \/ (i \in 1..(Len(tasks) - 1) /\ i + 1 \in DOMAIN tasks)
        BY <2>2, <4>2
      <4> QED
        BY <4>2, <4>3, <4>4 DEF Kind, Task
    <3> QED
      BY <2>1, <3>1, <3>2
  <2>7. /\ \A i \in DOMAIN tasks' : Kind(i)' \notin Raising
        /\ (\E i \in DOMAIN tasks' : Kind(i)' = "stop") => ~Dialing'
    BY <2>1, <2>5, <2>6 DEF Raising, Dialing
  <2> QED
    BY <2>1, <2>4, <2>5, <2>7 DEF Telling
<1>7. CASE Stop
  <2>1. tasks' = <<>> /\ tasks # <<>> /\ Head(tasks).kind = "stop" /\ UNCHANGED <<conn, connected>>
    BY <1>7 DEF Stop, Run, clientVars
  <2>2. Kind(1) = "stop" /\ 1 \in DOMAIN tasks
    BY <2>1 DEF LoopTypes, Kind
  <2>3. ~Up' /\ ~connected'
    BY <2>1, <2>2 DEF Telling, Up, Live
  <2> QED
    BY <2>1, <2>3 DEF Telling, LostTasks
<1>8. CASE Construct \/ CloseChecks \/ CloseMarks \/ Silence \/ UNCHANGED vars
  BY <1>8, <1>A DEF Construct, Silence, GetResult, SetProtocol, CloseChecks, CloseMarks, vars, loopVars, connVars,
     clientVars, Dialing, Trying, Up, Live
<1>9. CASE CloseProtocol
  <2>1. conn' = Closing(protocol) /\ UNCHANGED <<tasks, dialing, connected>>
    BY <1>9 DEF CloseProtocol, loopVars, clientVars
  <2>2. \A q \in Connections : Live(q)' <=> Live(q)
    BY <2>1 DEF Closing, Live, ConnTypes
  <2> QED
    BY <1>A, <2>1, <2>2 DEF Up, Dialing, Trying
<1>10. ASSUME NEW p \in Connections, Heartbeat(p) \/ Peer(p) PROVE Telling'
  <2>1. UNCHANGED <<tasks, dialing, connected>>
    BY <1>10 DEF Heartbeat, Wake, PingAck, PingTimesOut, Peer, PeerCloses, PeerHangs, DataReceived,
       loopVars, clientVars
  <2>2. \/ conn' = conn
        \/ conn' = Closing(p)
        \/ conn' = [conn EXCEPT ![p] = "hung"] /\ conn[p] = "open"
    BY <1>10 DEF Heartbeat, Wake, PingAck, PingTimesOut, Peer, PeerCloses, PeerHangs, DataReceived
  <2>3. \A q \in Connections : Live(q)' <=> Live(q)
    BY <2>2 DEF Closing, Live, ConnTypes
  <2> QED
    BY <1>A, <2>1, <2>3 DEF Up, Dialing, Trying
<1>11. ASSUME NEW p \in Connections, TransportLost(p) PROVE Telling'
  <2>1. conn[p] = "closing" /\ conn' = [conn EXCEPT ![p] = "lost"] /\ UNCHANGED <<dialing, connected>>
        /\ tasks' = Append(tasks, Task("lost", p, p))
    BY <1>11 DEF TransportLost, Spawn, clientVars
  <2>2. Up /\ LostTasks = {} /\ \A i \in DOMAIN tasks : Kind(i) # "stop"
    BY <2>1 DEF OneAtATime, Telling, Up, Live
  <2>3. p \in 0..made
    BY <1>0, <2>1 DEF ConnTypes, Connections
  <2>4. Task("lost", p, p) \in Tasks
    BY <2>3 DEF Task, Tasks, Kinds
  <2>5. /\ DOMAIN tasks = 1..Len(tasks) /\ DOMAIN tasks' = 1..(Len(tasks) + 1) /\ Len(tasks) \in Nat
        /\ \A i \in DOMAIN tasks : Kind(i)' = Kind(i)
        /\ tasks'[Len(tasks) + 1].kind = "lost"
    BY <2>1, <2>4, KindsAppended DEF LoopTypes, Kind, Task
  <2>6. LostTasks' = {Len(tasks) + 1}
    BY <2>2, <2>5 DEF LostTasks, Kind
  <2>7. \A j \in DOMAIN tasks' : Kind(j)' \in Raising => j < Len(tasks) + 1
    BY <2>5 DEF Raising, Kind
  <2>8. \A j \in DOMAIN tasks' : Kind(j)' # "stop"
    BY <2>2, <2>5 DEF Kind
  <2> QED
    BY <2>6, <2>7, <2>8 DEF Telling
<1>12. ASSUME NEW c \in Calls, Call(c) PROVE Telling'
  BY <1>12, <1>A DEF Call, StartCall, SendHeaders, Answer, loopVars, connVars, clientVars,
     Dialing, Trying, Up, Live
<1> QED
  BY <1>1, <1>2, <1>4, <1>5, <1>6, <1>7, <1>8, <1>9, <1>10, <1>11, <1>12 DEF Next, Dial, RunTask, Close

\* Whatever happened to _LOGGER.info: a task that sets _connected is of a connection
\* that is up, or comes before the task of its loss; and so is _connected itself.
Behind(p, i) == Live(p) \/ \E j \in LostTasks : i < j /\ tasks[j].conn = p
Backed ==
    /\ \A i \in DOMAIN tasks : Kind(i) \in Raising =>
           tasks[i].conn \in Connections /\ Behind(tasks[i].conn, i)
    /\ connected /\ ~stopped => Up \/ LostTasks # {}

\* Every step keeps Backed.
LEMMA NextBacked == LoopTypes /\ ConnTypes /\ Backed /\ [Next]_vars => Backed'
<1> SUFFICES ASSUME LoopTypes, ConnTypes, Backed, [Next]_vars PROVE Backed'
  OBVIOUS
<1>0. made \in Nat /\ MaxConnections \in Nat
  BY ConnectionAssumption DEF LoopTypes
<1>A. ASSUME UNCHANGED <<tasks, connected, stopped>>, \A q \in Connections : Live(q) => Live(q)'
      PROVE  Backed'
  BY <1>A DEF Backed, Behind, LostTasks, Kind, Up
<1>1. ASSUME NEW d \in Dialers, Established(d) PROVE Backed'
  <2>1. /\ made' \in Connections /\ conn'[made'] = "open" /\ \A q \in Connections : Live(q) => Live(q)'
        /\ connected' = connected
    BY <1>0, <1>1 DEF Established, Connections, Live, ConnTypes, clientVars
  <2>2. ASSUME NEW i \in DOMAIN tasks', Kind(i)' \in Raising
        PROVE  tasks'[i].conn \in Connections /\ Behind(tasks[i].conn, i)'
    <3>1. CASE tasks'[i].conn = made'
      BY <2>1, <3>1 DEF Behind, Live
    <3>2. CASE i \in DOMAIN tasks
      <4>1. tasks'[i] = tasks[i] /\ LostTasks \subseteq LostTasks'
            /\ \A j \in LostTasks : tasks'[j] = tasks[j]
        BY <1>1, <3>2, EstablishedTasks DEF LostTasks
      <4>2. tasks[i].conn \in Connections /\ Behind(tasks[i].conn, i)
        BY <2>2, <3>2, <4>1 DEF Backed, Kind
      <4> QED
        BY <2>1, <4>1, <4>2 DEF Behind
    <3> QED
      BY <1>1, <2>2, <3>1, <3>2, EstablishedTasks
  <2>3. Up'
    BY <2>1 DEF Up, Live
  <2> QED
    BY <2>2, <2>3 DEF Backed
<1>2. CASE (\E d \in Dialers : DialFails(d)) \/ Construct \/ CloseChecks \/ CloseMarks
           \/ Silence \/ UNCHANGED vars
  <2>1. UNCHANGED <<tasks, connected, stopped, conn>>
    BY <1>2 DEF DialFails, Construct, GetResult, SetProtocol, CloseChecks, CloseMarks, Silence, vars,
       loopVars, connVars, clientVars
  <2> QED
    BY <1>A, <2>1 DEF Live
\* The first task runs: what was behind another one still is, a step closer.
<1>3. ASSUME tasks # <<>>, tasks' = Tail(tasks), UNCHANGED <<conn, stopped>>,
             connected' => Head(tasks).kind \in Raising \/ (Head(tasks).kind # "lost" /\ connected)
      PROVE  Backed'
  <2>1. /\ DOMAIN tasks = 1..Len(tasks) /\ DOMAIN tasks' = 1..(Len(tasks) - 1)
        /\ Len(tasks) \in Nat \ {0} /\ Head(tasks) = tasks[1]
        /\ \A i \in DOMAIN tasks' : tasks'[i] = tasks[i + 1]
    BY <1>3, KindsShifted DEF LoopTypes
  <2>2. ASSUME NEW j \in LostTasks, 1 < j
        PROVE  j - 1 \in LostTasks' /\ tasks'[j - 1] = tasks[j]
    <3>1. j - 1 \in DOMAIN tasks' /\ (j - 1) + 1 = j
      BY <2>1, <2>2 DEF LostTasks
    <3> QED
      BY <2>1, <3>1 DEF LostTasks
  <2>3. ASSUME NEW i \in DOMAIN tasks', Kind(i)' \in Raising
        PROVE  tasks'[i].conn \in Connections /\ Behind(tasks[i].conn, i)'
    <3>1. i \in Nat \ {0} /\ i + 1 \in DOMAIN tasks /\ tasks'[i] = tasks[i + 1]
      BY <2>1
    <3>2. tasks[i + 1].conn \in Connections /\ Behind(tasks[i + 1].conn, i + 1)
      BY <2>3, <3>1 DEF Backed, Kind
    <3>3. CASE Live(tasks[i + 1].conn)
      BY <1>3, <3>1, <3>2, <3>3 DEF Behind, Live
    <3>4. ASSUME NEW j \in LostTasks, i + 1 < j, tasks[j].conn = tasks[i + 1].conn
          PROVE  Behind(tasks[i].conn, i)'
      <4>1. 1 < j /\ i < j - 1
        BY <2>1, <3>1, <3>4 DEF LostTasks
      <4>2. j - 1 \in LostTasks' /\ tasks'[j - 1] = tasks[j]
        BY <2>2, <4>1
      <4> QED
        BY <3>1, <3>4, <4>1, <4>2 DEF Behind
    <3> QED
      BY <3>1, <3>2, <3>3, <3>4 DEF Behind
  <2>4. ASSUME connected', ~stopped', ~Up' PROVE LostTasks' # {}
    <3>1. ~Up /\ ~stopped
      BY <1>3, <2>4 DEF Up, Live
    <3>2. CASE Head(tasks).kind \in Raising
      <4>1. 1 \in DOMAIN tasks /\ Kind(1) \in Raising
        BY <2>1, <3>2 DEF Kind
      <4>2. \E j \in LostTasks : 1 < j
        BY <3>1, <4>1 DEF Backed, Behind, Up
      <4> QED
        BY <2>2, <4>2
    <3>3. CASE Head(tasks).kind # "lost" /\ connected
      <4>1. PICK j \in LostTasks : TRUE
        BY <3>1, <3>3 DEF Backed
      <4>2. 1 < j
        BY <2>1, <3>3 DEF LostTasks
      <4> QED
        BY <2>2, <4>1, <4>2
    <3> QED
      BY <1>3, <2>4, <3>2, <3>3
  <2> QED
    BY <2>3, <2>4 DEF Backed
<1>4. CASE ConnectionMade \/ Connected \/ ForgetClose
  BY <1>3, <1>4 DEF ConnectionMade, Connected, ForgetClose, Run, connVars, clientVars, Raising
<1>5. CASE Reconnected
  <2>1. UNCHANGED <<conn, stopped>>
    BY <1>5 DEF Reconnected, connVars
  <2>2. /\ DOMAIN tasks = 1..Len(tasks) /\ DOMAIN tasks' = DOMAIN tasks /\ Len(tasks) \in Nat \ {0}
        /\ tasks[1].kind = "reconnect" /\ tasks'[1].kind = "forget"
        /\ \A i \in DOMAIN tasks : i # 1 => tasks'[i] = tasks[i]
    BY <1>5, ForgetTasks
  <2>3. LostTasks' = LostTasks /\ 1 \notin LostTasks
    BY <2>2 DEF LostTasks
  <2>4. ASSUME NEW i \in DOMAIN tasks', Kind(i)' \in Raising
        PROVE  tasks'[i].conn \in Connections /\ Behind(tasks[i].conn, i)'
    <3>1. i # 1 /\ i \in DOMAIN tasks /\ tasks'[i] = tasks[i]
      BY <2>2, <2>4 DEF Raising, Kind
    <3>2. \A j \in LostTasks : tasks'[j] = tasks[j]
      BY <2>2, <2>3 DEF LostTasks
    <3> QED
      BY <2>1, <2>3, <2>4, <3>1, <3>2 DEF Backed, Behind, Kind, Live
  <2>5. Up' \/ LostTasks' # {}
    <3>1. 1 \in DOMAIN tasks /\ Kind(1) \in Raising
      BY <2>2 DEF Raising, Kind
    <3> QED
      BY <2>1, <2>3, <3>1 DEF Backed, Behind, Up, Live
  <2> QED
    BY <2>4, <2>5 DEF Backed
<1>6. CASE ConnectionLost
  <2>1. /\ tasks # <<>> /\ ~connected' /\ UNCHANGED <<conn, stopped>>
        /\ tasks' \in {Tail(tasks), Append(Tail(tasks), Task("stop", 0, 0))}
    BY <1>6 DEF ConnectionLost, Run, connVars
  <2>2. CASE tasks' = Tail(tasks)
    BY <1>3, <2>1, <2>2
  <2>3. CASE tasks' = Append(Tail(tasks), Task("stop", 0, 0))
    <3>1. /\ DOMAIN tasks = 1..Len(tasks) /\ Len(tasks) \in Nat \ {0} /\ DOMAIN tasks' = DOMAIN tasks
          /\ \A i \in DOMAIN tasks : i # Len(tasks) => tasks'[i] = tasks[i + 1]
          /\ tasks'[Len(tasks)] = Task("stop", 0, 0)
      BY <2>1, <2>3 DEF LoopTypes
    <3>2. ASSUME NEW i \in DOMAIN tasks', Kind(i)' \in Raising
          PROVE  tasks'[i].conn \in Connections /\ Behind(tasks[i].conn, i)'
      <4>1. i # Len(tasks) /\ i \in Nat /\ i + 1 \in DOMAIN tasks /\ tasks'[i] = tasks[i + 1]
        BY <3>1, <3>2 DEF Task, Raising, Kind
      <4>2. tasks[i + 1].conn \in Connections /\ Behind(tasks[i + 1].conn, i + 1)
        BY <3>2, <4>1 DEF Backed, Kind
      <4>3. CASE Live(tasks[i + 1].conn)
        BY <2>1, <4>1, <4>2, <4>3 DEF Behind, Live
      <4>4. ASSUME NEW j \in LostTasks, i + 1 < j, tasks[j].conn = tasks[i + 1].conn
            PROVE  Behind(tasks[i].conn, i)'
        <5>1. j - 1 \in DOMAIN tasks /\ j - 1 # Len(tasks) /\ (j - 1) + 1 = j /\ i < j - 1
          BY <3>1, <4>1, <4>4 DEF LostTasks
        <5>2. tasks'[j - 1] = tasks[j] /\ j - 1 \in LostTasks'
          BY <3>1, <5>1 DEF LostTasks
        <5> QED
          BY <4>1, <4>4, <5>1, <5>2 DEF Behind
      <4> QED
        BY <4>1, <4>2, <4>3, <4>4 DEF Behind
    <3> QED
      BY <2>1, <3>2 DEF Backed
  <2> QED
    BY <2>1, <2>2, <2>3
<1>7. CASE Stop
  <2>1. tasks' = <<>> /\ stopped'
    BY <1>7 DEF Stop
  <2> QED
    BY <2>1 DEF Backed
<1>8. CASE CloseProtocol
  <2>1. conn' = Closing(protocol) /\ UNCHANGED <<tasks, connected, stopped>>
    BY <1>8 DEF CloseProtocol, loopVars, clientVars
  <2>2. \A q \in Connections : Live(q) => Live(q)'
    BY <2>1 DEF Closing, Live, ConnTypes
  <2> QED
    BY <1>A, <2>1, <2>2
<1>9. ASSUME NEW p \in Connections, Heartbeat(p) \/ Peer(p) PROVE Backed'
  <2>1. UNCHANGED <<tasks, stopped, connected>>
    BY <1>9 DEF Heartbeat, Wake, PingAck, PingTimesOut, Peer, PeerCloses, PeerHangs, DataReceived,
       loopVars, clientVars
  <2>2. \/ conn' = conn
        \/ conn' = Closing(p)
        \/ conn' = [conn EXCEPT ![p] = "hung"] /\ conn[p] = "open"
    BY <1>9 DEF Heartbeat, Wake, PingAck, PingTimesOut, Peer, PeerCloses, PeerHangs, DataReceived
  <2>3. \A q \in Connections : Live(q) => Live(q)'
    BY <2>2 DEF Closing, Live, ConnTypes
  <2> QED
    BY <1>A, <2>1, <2>3
<1>10. ASSUME NEW p \in Connections, TransportLost(p) PROVE Backed'
  <2>1. conn' = [conn EXCEPT ![p] = "lost"] /\ tasks' = Append(tasks, Task("lost", p, p))
    BY <1>10 DEF TransportLost, Spawn
  <2>2. Task("lost", p, p) \in Tasks
    BY <1>0, <1>10 DEF TransportLost, ConnTypes, Connections, Task, Tasks, Kinds
  <2>3. /\ DOMAIN tasks = 1..Len(tasks) /\ DOMAIN tasks' = 1..(Len(tasks) + 1) /\ Len(tasks) \in Nat
        /\ \A i \in DOMAIN tasks : tasks'[i] = tasks[i]
        /\ tasks'[Len(tasks) + 1].kind = "lost" /\ tasks'[Len(tasks) + 1].conn = p
    BY <2>1, <2>2, KindsAppended DEF LoopTypes, Task
  <2>4. LostTasks' = LostTasks \cup {Len(tasks) + 1}
    BY <2>3 DEF LostTasks
  <2>5. ASSUME NEW i \in DOMAIN tasks', Kind(i)' \in Raising
        PROVE  tasks'[i].conn \in Connections /\ Behind(tasks[i].conn, i)'
    <3>1. i \in DOMAIN tasks /\ tasks'[i] = tasks[i] /\ i < Len(tasks) + 1
      BY <2>3, <2>5 DEF Raising, Kind
    <3>2. tasks[i].conn \in Connections /\ Behind(tasks[i].conn, i)
      BY <2>5, <3>1 DEF Backed, Kind
    <3>3. CASE tasks[i].conn = p
      BY <2>3, <2>4, <3>1, <3>2, <3>3 DEF Behind
    <3>4. CASE tasks[i].conn # p /\ Live(tasks[i].conn)
      BY <2>1, <3>1, <3>2, <3>4 DEF Behind, Live, ConnTypes
    <3>5. ASSUME NEW j \in LostTasks, i < j, tasks[j].conn = tasks[i].conn
          PROVE  Behind(tasks[i].conn, i)'
      <4>1. j \in LostTasks' /\ tasks'[j] = tasks[j]
        BY <2>3, <2>4, <3>5 DEF LostTasks
      <4> QED
        BY <3>1, <3>5, <4>1 DEF Behind
    <3> QED
      BY <3>1, <3>2, <3>3, <3>4, <3>5 DEF Behind
  <2> QED
    BY <2>4, <2>5 DEF Backed
<1>11. ASSUME NEW c \in Calls, Call(c) PROVE Backed'
  <2>1. UNCHANGED <<tasks, stopped, connected, conn>>
    BY <1>11 DEF Call, StartCall, SendHeaders, Answer, loopVars, connVars, clientVars
  <2> QED
    BY <1>A, <2>1 DEF Live
<1> QED
  BY <1>1, <1>2, <1>4, <1>5, <1>6, <1>7, <1>8, <1>9, <1>10, <1>11 DEF Next, Dial, RunTask, Close

\* is_connected is true whenever the loop is idle and no transport is closing: every
\* change of the connection has a task that tells the client, in order. With
\* _LOGGER.info overwritten, a client that says it is connected still is.
THEOREM ConnectedIsTrueCorrect == Spec => []ConnectedIsTrue
<1>1. Init => Sole /\ Due /\ Backed
  BY DEF Init, Sole, OneAtATime, Due, Telling, Backed, Up, Live, LostTasks, Dialing, Trying, Kind
<1>2. Due /\ Backed => ConnectedIsTrue
  BY DEF Due, Telling, Backed, ConnectedIsTrue, Up, Live, LostTasks
<1> QED
  BY <1>1, <1>2, NextSole, NextDue, NextBacked, TypedHolds, PTL DEF Spec, Typed

----------------------------------------------------------------------------
(* Load balance: types *)

Lists == [Keys -> {None} \cup Invokers]
Places == {"idle", "only", "choose", "selected", "check", "clear", "put", "sort", "cache", "log",
           "search", "lookup"}
CallerStates == [pc : Places, list : Lists, todo : SUBSET Keys, pick : {None} \cup Invokers]

BalanceTypes ==
    /\ table \in Lists /\ ring \in Lists /\ sorted \subseteq Keys /\ cached \subseteq Keys
    /\ invokers \in [Invokers -> [key : SUBSET Keys, state : {"none", "open", "destroyed"}]]
    /\ caller \in [Callers -> CallerStates]
    /\ disturbed \subseteq Callers /\ mixed \in BOOLEAN
    /\ overwritten \in BOOLEAN /\ renewed \subseteq Keys

LEMMA EmptyList == Empty \in Lists /\ InTable(Empty) = {}
  BY DEF Empty, Lists, InTable

LEMMA NotCallingTypes == NotCalling \in CallerStates
  BY EmptyList DEF NotCalling, CallerStates, Places

\* A list with an entry set to an invoker.
LEMMA Entered ==
    ASSUME NEW list \in Lists, NEW k \in Keys, NEW i \in Invokers
    PROVE  /\ [list EXCEPT ![k] = i] \in Lists
           /\ InTable([list EXCEPT ![k] = i]) = InTable(list) \cup {k}
<1>1. i # None
  BY InvokerTableAssumption DEF Invokers, None
<1> QED
  BY <1>1 DEF Lists, InTable

\* What the steps of a caller are made of.
LEMMA CallerMoves ==
    ASSUME BalanceTypes, NEW c \in Callers
    PROVE  /\ Finish(c) => caller' = [caller EXCEPT ![c] = NotCalling] /\ caller' \in [Callers -> CallerStates]
           /\ \A pc \in Places : Go(c, pc) => caller' \in [Callers -> CallerStates]
           /\ \A i \in {None} \cup Invokers : Select(c, i) => caller' \in [Callers -> CallerStates]
<1> USE DEF BalanceTypes
<1>1. Finish(c) => caller' = [caller EXCEPT ![c] = NotCalling] /\ caller' \in [Callers -> CallerStates]
  BY NotCallingTypes DEF Finish
<1>2. \A pc \in Places : Go(c, pc) => caller' \in [Callers -> CallerStates]
  BY DEF Go, CallerStates
<1>3. ASSUME NEW i \in {None} \cup Invokers, Select(c, i) PROVE caller' \in [Callers -> CallerStates]
  <2>1. caller' = [caller EXCEPT ![c] = [caller[c] EXCEPT !.pc = "selected", !.pick = i]]
    BY <1>3 DEF Select
  <2>2. [caller[c] EXCEPT !.pc = "selected", !.pick = i] \in CallerStates
    BY DEF CallerStates, Places
  <2> QED
    BY <2>1, <2>2
<1> QED
  BY <1>1, <1>2, <1>3

LEMMA CallerTypes == ASSUME BalanceTypes, NEW c \in Callers, Caller(c) PROVE BalanceTypes'
<1> USE DEF BalanceTypes
<1>1. caller[c] \in CallerStates /\ Offered(c) \subseteq Keys /\ caller[c].todo \subseteq Keys
  BY DEF CallerStates, Offered, InTable
<1>2. CASE GetList(c)
  <2>1. caller' \in [Callers -> CallerStates]
    BY <1>1, <1>2 DEF GetList, CallerStates, Places
  <2> QED
    BY <1>2, <2>1 DEF GetList, directoryVars, tableVars, ringVars
<1>3. CASE Choose(c)
  <2>1. PICK k \in Offered(c) : Select(c, caller[c].list[k])
    BY <1>3 DEF Choose
  <2>2. caller[c].list[k] \in {None} \cup Invokers
    BY <1>1 DEF CallerStates, Lists
  <2> QED
    BY <1>3, <2>1, <2>2, CallerMoves DEF Choose, directoryVars, tableVars, ringVars
<1>4. CASE Invoke(c)
  BY <1>4, CallerMoves DEF Invoke, directoryVars, tableVars, ringVars
<1>5. CASE Check(c) \/ Overwrite(c)
  <2>1. caller' \in [Callers -> CallerStates]
    BY <1>5, CallerMoves DEF Check, Overwrite, Places
  <2> QED
    BY <1>5, <2>1 DEF Check, Overwrite, directoryVars, tableVars, ringVars
<1>6. CASE ClearRing(c)
  <2>1. caller' \in [Callers -> CallerStates]
    BY <1>1, <1>6 DEF ClearRing, CallerStates, Places
  <2>2. mixed' \in BOOLEAN
    BY <1>6 DEF ClearRing
  <2> QED
    BY <1>6, <2>1, <2>2, EmptyList DEF ClearRing, Disturb, directoryVars, tableVars
<1>7. CASE PutNodes(c)
  <2>1. PICK k \in caller[c].todo :
             IF ~Open(caller[c].list[k])
             THEN Finish(c) /\ UNCHANGED ring
             ELSE /\ ring' = [ring EXCEPT ![k] = caller[c].list[k]]
                  /\ caller' = [caller EXCEPT ![c].todo = @ \ {k},
                                    ![c].pc = IF caller[c].todo = {k} THEN "sort" ELSE @]
    BY <1>7 DEF PutNodes
  <2>2. caller' \in [Callers -> CallerStates]
    <3>1. CASE ~Open(caller[c].list[k])
      BY <2>1, <3>1, CallerMoves
    <3>2. CASE Open(caller[c].list[k])
      <4>1. caller' = [caller EXCEPT ![c] =
                          [caller[c] EXCEPT !.todo = @ \ {k},
                                            !.pc = IF caller[c].todo = {k} THEN "sort" ELSE @]]
        BY <2>1, <3>2
      <4>2. [caller[c] EXCEPT !.todo = @ \ {k},
                              !.pc = IF caller[c].todo = {k} THEN "sort" ELSE @] \in CallerStates
        BY <1>1 DEF CallerStates, Places
      <4> QED
        BY <4>1, <4>2
    <3> QED
      BY <3>1, <3>2
  <2>3. ring' \in Lists
    <3>1. k \in Keys /\ caller[c].list[k] \in {None} \cup Invokers
      BY <1>1 DEF CallerStates, Lists
    <3> QED
      BY <2>1, <3>1 DEF Lists
  <2> QED
    BY <1>7, <2>2, <2>3 DEF PutNodes, Disturb, directoryVars, tableVars
<1>8. CASE SortHashes(c)
  <2>1. caller' \in [Callers -> CallerStates]
    BY <1>8, CallerMoves DEF SortHashes, Places
  <2> QED
    BY <1>8, <2>1 DEF SortHashes, Disturb, InTable, directoryVars, tableVars
<1>9. CASE Cache(c)
  <2>1. caller' \in [Callers -> CallerStates]
    BY <1>9, CallerMoves DEF Cache, Places
  <2>2. mixed' \in BOOLEAN /\ cached' \subseteq Keys
    BY <1>1, <1>9 DEF Cache
  <2> QED
    BY <1>9, <2>1, <2>2 DEF Cache, Disturb, directoryVars, tableVars
<1>10. CASE Search(c)
  <2>1. caller' \in [Callers -> CallerStates]
    BY <1>1, <1>10, CallerMoves DEF Search, CallerStates, Places
  <2> QED
    BY <1>10, <2>1 DEF Search, directoryVars, tableVars, ringVars
<1>11. CASE RingLookup(c)
  <2>1. PICK k \in caller[c].todo : IF ring[k] = None THEN Finish(c) ELSE Select(c, ring[k])
    BY <1>11 DEF RingLookup
  <2>2. ring[k] \in {None} \cup Invokers
    BY <1>1 DEF Lists
  <2>3. caller' \in [Callers -> CallerStates]
    BY <2>1, <2>2, CallerMoves
  <2> QED
    BY <1>11, <2>3 DEF RingLookup, directoryVars, tableVars, ringVars
<1> QED
  BY <1>2, <1>3, <1>4, <1>5, <1>6, <1>7, <1>8, <1>9, <1>10, <1>11 DEF Caller

LEMMA DirectoryTypes == ASSUME BalanceTypes, DirectoryStep, UNCHANGED balanceVars PROVE BalanceTypes'
<1> USE DEF BalanceTypes
<1>0. renewed' \subseteq Keys
  BY DEF DirectoryStep
<1>1. CASE Clear
  BY <1>0, <1>1, EmptyList DEF Clear, balanceVars, ringVars
<1>2. ASSUME NEW i \in Invokers, Destroy(i) PROVE BalanceTypes'
  BY <1>0, <1>2 DEF Destroy, balanceVars, ringVars
<1>3. ASSUME NEW k \in Keys, NEW i \in Invokers, Keep(k, i) PROVE BalanceTypes'
  BY <1>0, <1>3 DEF Keep, Lists, balanceVars, ringVars
<1>4. ASSUME NEW k \in Keys, NEW i \in Invokers, Connect(k, i) PROVE BalanceTypes'
  BY <1>0, <1>4 DEF Connect, Lists, balanceVars, ringVars
<1> QED
  BY <1>1, <1>2, <1>3, <1>4 DEF DirectoryStep

LEMMA BalanceNextTypes == BalanceTypes /\ [BalanceNext]_serviceVars => BalanceTypes'
<1> SUFFICES ASSUME BalanceTypes, [BalanceNext]_serviceVars PROVE BalanceTypes'
  OBVIOUS
<1>1. CASE MonitorRound \/ UNCHANGED serviceVars
  BY <1>1 DEF BalanceTypes, MonitorRound, serviceVars, balanceVars, directoryVars, tableVars, ringVars
<1> QED
  BY <1>1, CallerTypes, DirectoryTypes DEF BalanceNext

LEMMA BalanceInitTypes == BalanceInit => BalanceTypes
<1> SUFFICES ASSUME BalanceInit PROVE BalanceTypes
  OBVIOUS
<1>1. caller \in [Callers -> CallerStates]
  BY NotCallingTypes DEF BalanceInit
<1>2. invokers \in [Invokers -> [key : SUBSET Keys, state : {"none", "open", "destroyed"}]]
  BY DEF BalanceInit, NoInvoker
<1> QED
  BY <1>1, <1>2, EmptyList DEF BalanceInit, BalanceTypes, Lists

\* The variables are well typed.
THEOREM BalanceTypesHold == BalanceSpec => []BalanceTypes
<1> QED
  BY BalanceInitTypes, BalanceNextTypes, PTL DEF BalanceSpec

----------------------------------------------------------------------------
(* Load balance: what is listed, and what is on the ring *)

\* What an entry of a list refers to serves the URL of the entry: in the table, on the
\* ring and in the lists that callers were given, whatever became of the invokers since.
Serves(list) == \A k \in Keys : list[k] # None => invokers[list[k]].key = {k}
AllServe == Serves(table) /\ Serves(ring) /\ \A c \in Callers : Serves(caller[c].list)

\* What a step of a caller makes of it.
Same(c) == caller'[c].list = caller[c].list /\ caller'[c].pick = caller[c].pick

LEMMA Effects ==
    ASSUME BalanceTypes, NEW c \in Callers
    PROVE  /\ Finish(c) => caller'[c] = NotCalling
           /\ \A pc : Go(c, pc) =>
                  caller'[c].pc = pc /\ caller'[c].todo = caller[c].todo /\ Same(c)
           /\ \A i : Select(c, i) =>
                  caller'[c].pc = "selected" /\ caller'[c].pick = i /\ caller'[c].list = caller[c].list
<1> USE DEF BalanceTypes, CallerStates
<1>1. Finish(c) => caller'[c] = NotCalling
  BY DEF Finish
<1>2. ASSUME NEW pc, Go(c, pc)
      PROVE  caller'[c].pc = pc /\ caller'[c].todo = caller[c].todo /\ Same(c)
  BY <1>2 DEF Go, Same
<1>3. ASSUME NEW i, Select(c, i)
      PROVE  caller'[c].pc = "selected" /\ caller'[c].pick = i /\ caller'[c].list = caller[c].list
  BY <1>3 DEF Select
<1> QED
  BY <1>1, <1>2, <1>3

LEMMA OthersStay ==
    ASSUME BalanceTypes, NEW c \in Callers, Caller(c), NEW d \in Callers \ {c}
    PROVE  caller'[d] = caller[d] /\ (d \notin disturbed' => d \notin disturbed)
<1> USE DEF BalanceTypes
<1>1. CASE GetList(c) \/ Choose(c) \/ Invoke(c)
  BY <1>1 DEF GetList, Choose, Select, Invoke, Finish
<1>2. CASE Check(c) \/ SortHashes(c) \/ Cache(c) \/ Overwrite(c)
  BY <1>2 DEF Check, SortHashes, Overwrite, Cache, Disturb, Finish, Go
<1>3. CASE ClearRing(c) \/ PutNodes(c)
  BY <1>3 DEF ClearRing, PutNodes, Disturb, Finish
<1>4. CASE Search(c) \/ RingLookup(c)
  BY <1>4 DEF Search, RingLookup, Finish, Select
<1> QED
  BY <1>1, <1>2, <1>3, <1>4 DEF Caller

\* The nodes of the URL k are put on the ring, or its invoker was destroyed.
Put(c, k) ==
    /\ ring' = [ring EXCEPT ![k] = caller[c].list[k]]
    /\ caller'[c].todo = caller[c].todo \ {k} /\ Same(c)
    /\ caller'[c].pc = IF caller[c].todo = {k} THEN "sort" ELSE "put"

LEMMA PutEffect ==
    ASSUME BalanceTypes, NEW c \in Callers, PutNodes(c)
    PROVE  \/ caller'[c] = NotCalling /\ UNCHANGED ring
           \/ \E k \in caller[c].todo : Put(c, k)
<1>1. PICK k \in caller[c].todo :
             IF ~Open(caller[c].list[k])
             THEN Finish(c) /\ UNCHANGED ring
             ELSE /\ ring' = [ring EXCEPT ![k] = caller[c].list[k]]
                  /\ caller' = [caller EXCEPT ![c].todo = @ \ {k},
                                    ![c].pc = IF caller[c].todo = {k} THEN "sort" ELSE @]
  BY DEF PutNodes
<1>2. CASE Open(caller[c].list[k])
  <2>1. Put(c, k)
    BY <1>1, <1>2 DEF Put, Same, PutNodes, In, BalanceTypes, CallerStates
  <2> QED
    BY <2>1
<1>3. CASE ~Open(caller[c].list[k])
  BY <1>1, <1>3, Effects
<1> QED
  BY <1>2, <1>3

\* An invoker that something refers to keeps its URL.
LEMMA KeysStay ==
    ASSUME BalanceTypes, [BalanceNext]_serviceVars, NEW i \in Invokers, InUse(i) \/ Listed(i)
    PROVE  invokers'[i].key = invokers[i].key
<1>1. CASE UNCHANGED invokers
  BY <1>1
<1>2. CASE DirectoryStep
  <2>1. CASE Clear
    BY <2>1 DEF Clear
  <2>2. ASSUME NEW j \in Invokers, Destroy(j) PROVE invokers'[i].key = invokers[i].key
    BY <2>2 DEF Destroy, BalanceTypes
  <2>3. ASSUME NEW k \in Keys, NEW j \in Invokers, Keep(k, j) PROVE invokers'[i].key = invokers[i].key
    BY <2>3 DEF Keep
  <2>4. ASSUME NEW k \in Keys, NEW j \in Invokers, Free(j), Connect(k, j)
        PROVE  invokers'[i].key = invokers[i].key
    BY <2>4 DEF Connect, Free, BalanceTypes
  <2> QED
    BY <1>2, <2>1, <2>2, <2>3, <2>4 DEF DirectoryStep
<1>3. CASE (\E c \in Callers : Caller(c)) \/ MonitorRound \/ UNCHANGED serviceVars
  BY <1>1, <1>3 DEF Caller, GetList, Choose, Invoke, Check, ClearRing, PutNodes, SortHashes, Cache,
     Overwrite, Search, RingLookup, MonitorRound, serviceVars, directoryVars, tableVars
<1> QED
  BY <1>2, <1>3 DEF BalanceNext

\* A list that stays serves what it served.
LEMMA ServesOn ==
    ASSUME BalanceTypes, [BalanceNext]_serviceVars, NEW list \in Lists, Serves(list),
           \A k \in Keys : list[k] # None => InUse(list[k]) \/ Listed(list[k])
    PROVE  \A k \in Keys : list[k] # None => invokers'[list[k]].key = {k}
<1> SUFFICES ASSUME NEW k \in Keys, list[k] # None PROVE invokers'[list[k]].key = {k}
  OBVIOUS
<1>1. list[k] \in Invokers
  BY DEF Lists
<1> QED
  BY <1>1, KeysStay DEF Serves

LEMMA NextServes == BalanceTypes /\ AllServe /\ [BalanceNext]_serviceVars => AllServe'
<1> SUFFICES ASSUME BalanceTypes, AllServe, [BalanceNext]_serviceVars PROVE AllServe'
  OBVIOUS
<1>1. \A k \in Keys : table[k] # None => invokers'[table[k]].key = {k}
  BY ServesOn DEF BalanceTypes, AllServe, Listed
<1>2. \A k \in Keys : ring[k] # None => invokers'[ring[k]].key = {k}
  BY ServesOn DEF BalanceTypes, AllServe, InUse
<1>3. \A c \in Callers, k \in Keys :
          caller[c].list[k] # None => invokers'[caller[c].list[k]].key = {k}
  <2> TAKE c \in Callers
  <2>1. caller[c].list \in Lists
    BY DEF BalanceTypes, CallerStates
  <2> QED
    BY <2>1, ServesOn DEF AllServe, InUse
<1>4. Serves(table)'
  <2>1. CASE UNCHANGED table
    BY <1>1, <2>1 DEF Serves
  <2>2. CASE Clear
    BY <2>2 DEF Clear, Serves, Empty
  <2>3. ASSUME NEW k \in Keys, NEW i \in Invokers, Keep(k, i) \/ Connect(k, i) PROVE Serves(table)'
    <3>1. table' = [table EXCEPT ![k] = i] /\ invokers'[i].key = {k}
      BY <2>3 DEF Keep, Connect, BalanceTypes
    <3> QED
      BY <1>1, <3>1 DEF Serves, BalanceTypes, Lists
  <2>4. CASE DirectoryStep
    BY <2>1, <2>2, <2>3, <2>4 DEF DirectoryStep, Destroy
  <2>5. CASE (\E c \in Callers : Caller(c)) \/ MonitorRound \/ UNCHANGED serviceVars
    BY <2>1, <2>5 DEF Caller, GetList, Choose, Invoke, Check, ClearRing, PutNodes, SortHashes, Cache,
       Overwrite, Search, RingLookup, MonitorRound, serviceVars, directoryVars, tableVars
  <2> QED
    BY <2>4, <2>5 DEF BalanceNext
<1>5. Serves(ring)'
  <2>1. CASE UNCHANGED ring
    BY <1>2, <2>1 DEF Serves
  <2>2. ASSUME NEW c \in Callers, ClearRing(c) PROVE Serves(ring)'
    BY <2>2 DEF ClearRing, Serves, Empty
  <2>3. ASSUME NEW c \in Callers, PutNodes(c) PROVE Serves(ring)'
    <3>1. caller[c].todo \subseteq Keys
      BY DEF BalanceTypes, CallerStates
    <3>2. ASSUME NEW k \in caller[c].todo, Put(c, k) PROVE Serves(ring)'
      <4>1. ring' = [ring EXCEPT ![k] = caller[c].list[k]] /\ ring \in [Keys -> {None} \cup Invokers]
        BY <3>2 DEF Put, BalanceTypes, Lists
      <4> QED
        BY <1>2, <1>3, <3>1, <4>1 DEF Serves
    <3> QED
      BY <2>1, <2>3, <3>2, PutEffect
  <2>4. CASE DirectoryStep /\ UNCHANGED balanceVars
    BY <2>1, <2>4 DEF balanceVars, ringVars
  <2>5. ASSUME NEW c \in Callers, Caller(c) PROVE Serves(ring)'
    BY <2>1, <2>2, <2>3, <2>5 DEF Caller, GetList, Choose, Invoke, Check, SortHashes, Cache, Overwrite,
       Search, RingLookup, ringVars
  <2>6. CASE MonitorRound \/ UNCHANGED serviceVars
    BY <2>1, <2>6 DEF MonitorRound, serviceVars, balanceVars, ringVars
  <2> QED
    BY <2>4, <2>5, <2>6 DEF BalanceNext
<1>6. ASSUME NEW d \in Callers PROVE Serves(caller[d].list)'
  <2>1. CASE caller'[d].list \in {caller[d].list, Empty}
    BY <1>3, <2>1 DEF Serves, Empty
  <2>2. CASE GetList(d)
    <3>1. caller'[d].list = table
      BY <2>2 DEF GetList, BalanceTypes, CallerStates
    <3> QED
      BY <1>1, <3>1 DEF Serves
  <2>3. ASSUME NEW c \in Callers, Caller(c), ~GetList(d) PROVE caller'[d].list \in {caller[d].list, Empty}
    <3>1. CASE c # d
      BY <2>3, <3>1, OthersStay
    <3>2. CASE GetList(c)
      BY <2>3, <3>1, <3>2
    <3>3. CASE Choose(c) \/ Invoke(c) \/ Check(c)
      BY <3>1, <3>3, Effects DEF Choose, Invoke, Check, Same, NotCalling
    <3>4. CASE ClearRing(c)
      BY <3>1, <3>4 DEF ClearRing, BalanceTypes, CallerStates
    <3>5. CASE PutNodes(c)
      BY <3>1, <3>5, PutEffect DEF Put, Same, NotCalling
    <3>6. CASE SortHashes(c) \/ Cache(c) \/ Overwrite(c)
      BY <3>1, <3>6, Effects DEF SortHashes, Cache, Overwrite, Same, NotCalling
    <3>7. CASE Search(c)
      BY <3>1, <3>7, Effects DEF Search, NotCalling, BalanceTypes, CallerStates
    <3>8. CASE RingLookup(c)
      BY <3>1, <3>8, Effects DEF RingLookup, NotCalling
    <3> QED
      BY <2>3, <3>2, <3>3, <3>4, <3>5, <3>6, <3>7, <3>8 DEF Caller
  <2>4. CASE UNCHANGED caller
    BY <2>1, <2>4
  <2> QED
    BY <2>1, <2>2, <2>3, <2>4 DEF BalanceNext, MonitorRound, serviceVars, balanceVars
<1> QED
  BY <1>4, <1>5, <1>6 DEF AllServe

LEMMA InitServes == BalanceInit => AllServe
<1> SUFFICES ASSUME BalanceInit PROVE AllServe
  OBVIOUS
<1>1. Serves(table)
  <2> SUFFICES ASSUME NEW k \in Keys, table[k] # None PROVE invokers[table[k]].key = {k}
    BY DEF Serves
  <2>1. table[k] \in Invokers /\ Listed(table[k])
    BY DEF BalanceInit, Listed
  <2>2. {l \in Keys : table[l] = table[k]} = {k}
    BY DEF BalanceInit
  <2> QED
    BY <2>1, <2>2 DEF BalanceInit
<1>2. Serves(Empty)
  BY DEF Serves, Empty
<1> QED
  BY <1>1, <1>2 DEF BalanceInit, AllServe, NotCalling


----------------------------------------------------------------------------
(* Load balance: the ring *)

\* The ring of a rebuild is the caller's own while no other has disturbed it, or the
\* ring is the work of one.
OwnRing(c) ==
    /\ In(c, "put") => InTable(ring) = Offered(c) \ caller[c].todo
    /\ In(c, "sort") => InTable(ring) = Offered(c)
    /\ In(c, "cache") => sorted = Offered(c)

\* So are the hashes that a caller searches.
OwnHashes(c) ==
    /\ In(c, "log") \/ In(c, "search") => sorted = Offered(c)
    /\ In(c, "lookup") => caller[c].todo \subseteq Offered(c)

Alone == \A c, d \in Callers : Rebuilding(c) /\ Rebuilding(d) => c = d
NobodyCaches == \A c \in Callers : ~In(c, "cache")

Ringed ==
    /\ \A c \in Callers : In(c, "put") => caller[c].todo \subseteq Offered(c)
    /\ ~mixed => Alone
    /\ \A c \in Callers : c \notin disturbed \/ ~mixed => OwnRing(c)
    /\ ~mixed /\ NobodyCaches => sorted = cached
    /\ \A c \in Callers : c \notin disturbed /\ ~mixed => OwnHashes(c)

\* Where the ring matters to a caller.
Engaged(c) == caller[c].pc \in {"put", "sort", "cache", "log", "search", "lookup"}

\* A step that leaves the ring alone, and no caller at work on it that was not.
LEMMA Elsewhere ==
    ASSUME BalanceTypes, Ringed, UNCHANGED <<ring, sorted, cached, mixed>>,
           \A d \in Callers :
              \/ caller'[d] = caller[d]
              \/ ~Engaged(d)' /\ ~In(d, "cache"),
           \A d \in Callers : Engaged(d)' /\ d \notin disturbed' => d \notin disturbed
    PROVE  Ringed'
<1> USE DEF Ringed
<1>1. (\A c \in Callers : In(c, "put") => caller[c].todo \subseteq Offered(c))'
  BY DEF In, Offered, Engaged
<1>2. (~mixed => Alone)'
  BY DEF Alone, Rebuilding, Engaged
<1>3. (\A c \in Callers : c \notin disturbed \/ ~mixed => OwnRing(c))'
  BY DEF OwnRing, In, Offered, Engaged
<1>4. (~mixed /\ NobodyCaches => sorted = cached)'
  BY DEF NobodyCaches, In
<1>5. (\A c \in Callers : c \notin disturbed /\ ~mixed => OwnHashes(c))'
  BY DEF OwnHashes, In, Offered, Engaged
<1> QED
  BY <1>1, <1>2, <1>3, <1>4, <1>5

\* The steps of c, as the others see them.
LEMMA Disturbs ==
    ASSUME BalanceTypes, NEW c \in Callers, Caller(c), Disturb(c)
    PROVE  /\ \A d \in Callers \ {c} : caller'[d] = caller[d] /\ (Engaged(d)' => d \in disturbed')
           /\ c \notin disturbed' => c \notin disturbed
  BY OthersStay DEF Disturb, Selecting, Engaged

\* Where one step of c leaves the ring, if it is in order for c itself.
LEMMA RingStep ==
    ASSUME BalanceTypes, Ringed, NEW c \in Callers, Caller(c), Disturb(c),
           ~mixed' => \A d \in Callers \ {c} : ~Rebuilding(d),
           In(c, "put")' => caller'[c].todo \subseteq Offered(c)',
           c \notin disturbed' \/ ~mixed' => OwnRing(c)',
           c \notin disturbed' /\ ~mixed' => OwnHashes(c)',
           ~mixed' /\ NobodyCaches' => sorted' = cached'
    PROVE  Ringed'
<1> USE DEF Ringed
<1>1. (\A d \in Callers : In(d, "put") => caller[d].todo \subseteq Offered(d))'
  BY Disturbs DEF In, Offered
<1>2. (~mixed => Alone)'
  BY Disturbs DEF Alone, Rebuilding
<1>3. ASSUME NEW d \in Callers \ {c} PROVE (d \notin disturbed \/ ~mixed => OwnRing(d))'
  BY <1>3, Disturbs DEF OwnRing, In, Engaged, Rebuilding
<1>4. ASSUME NEW d \in Callers \ {c} PROVE (d \notin disturbed /\ ~mixed => OwnHashes(d))'
  BY <1>4, Disturbs DEF OwnHashes, In, Engaged
<1> QED
  BY <1>1, <1>2, <1>3, <1>4

LEMMA CheckRings == ASSUME BalanceTypes, Ringed, NEW c \in Callers, Check(c) PROVE Ringed'
<1>1. \A d \in Callers \ {c} : caller'[d] = caller[d] /\ (d \notin disturbed' => d \notin disturbed)
  BY OthersStay DEF Caller
<1>2. In(c, "check") /\ UNCHANGED <<ring, sorted, cached, mixed>>
  BY DEF Check, ringVars
<1>3. CASE ~AllOpen(c) \/ ~Known(c)
  <2>1. ~Engaged(c)'
    BY <1>3, Effects DEF Check, Engaged, NotCalling
  <2> QED
    BY <1>1, <1>2, <2>1, Elsewhere DEF In, Engaged
<1>4. CASE AllOpen(c) /\ Known(c)
  <2>1. caller'[c].pc = "search" /\ Same(c)
    BY <1>4, Effects DEF Check
  <2>2. c \notin disturbed' => \A d \in Callers : ~Rebuilding(d)
    BY DEF Check, BalanceTypes
  <2>3. (c \notin disturbed /\ ~mixed => OwnHashes(c))'
    BY <1>2, <1>4, <2>1, <2>2 DEF OwnHashes, In, Offered, Same, Known, Ringed, NobodyCaches, Rebuilding
  <2>4. (\A d \in Callers : In(d, "put") => caller[d].todo \subseteq Offered(d))'
    BY <1>1, <2>1 DEF In, Offered, Ringed
  <2>5. (~mixed => Alone)'
    BY <1>1, <1>2, <2>1 DEF Alone, Rebuilding, Ringed
  <2>6. (~mixed /\ NobodyCaches => sorted = cached)'
    BY <1>1, <1>2, <2>1 DEF NobodyCaches, In, Ringed
  <2>7. ASSUME NEW d \in Callers PROVE (d \notin disturbed \/ ~mixed => OwnRing(d))'
    BY <1>1, <1>2, <2>1 DEF OwnRing, In, Offered, Ringed
  <2>8. ASSUME NEW d \in Callers \ {c} PROVE (d \notin disturbed /\ ~mixed => OwnHashes(d))'
    BY <1>1, <1>2 DEF OwnHashes, In, Offered, Ringed
  <2> QED
    BY <2>3, <2>4, <2>5, <2>6, <2>7, <2>8 DEF Ringed
<1> QED
  BY <1>3, <1>4

LEMMA ClearRings == ASSUME BalanceTypes, Ringed, NEW c \in Callers, ClearRing(c) PROVE Ringed'
<1>1. caller'[c].pc = "put" /\ caller'[c].todo = Offered(c) /\ caller'[c].list = caller[c].list
  BY DEF ClearRing, BalanceTypes, CallerStates
<1>2. InTable(ring') = {} /\ UNCHANGED <<sorted, cached>>
  BY EmptyList DEF ClearRing
<1>3. ~mixed' => ~mixed /\ \A d \in Callers : ~Rebuilding(d)
  BY DEF ClearRing, BalanceTypes
<1>4. OwnRing(c)' /\ OwnHashes(c)' /\ caller'[c].todo \subseteq Offered(c)'
  BY <1>1, <1>2 DEF OwnRing, OwnHashes, In, Offered
<1>5. ~mixed' => sorted' = cached'
  BY <1>2, <1>3 DEF Ringed, NobodyCaches, Rebuilding, In
<1> QED
  BY <1>3, <1>4, <1>5, RingStep DEF Caller, ClearRing

LEMMA PutRings == ASSUME BalanceTypes, Ringed, NEW c \in Callers, PutNodes(c) PROVE Ringed'
<1>1. In(c, "put") /\ Disturb(c) /\ Caller(c) /\ UNCHANGED <<sorted, cached, mixed>>
  BY DEF PutNodes, Caller
<1>2. ~mixed' => \A d \in Callers \ {c} : ~Rebuilding(d)
  BY <1>1 DEF Ringed, Alone, Rebuilding, In
<1>3. ~mixed' /\ NobodyCaches' => sorted' = cached'
  BY <1>1, Disturbs DEF Ringed, NobodyCaches, In
<1>4. c \notin disturbed' \/ ~mixed' => OwnRing(c)
  BY <1>1, Disturbs DEF Ringed
<1>5. CASE caller'[c] = NotCalling /\ UNCHANGED ring
  <2>1. OwnRing(c)' /\ OwnHashes(c)' /\ ~In(c, "put")'
    BY <1>5 DEF OwnRing, OwnHashes, In, NotCalling
  <2> QED
    BY <1>1, <1>2, <1>3, <2>1, RingStep
<1>6. ASSUME NEW k \in caller[c].todo, Put(c, k) PROVE Ringed'
  <2>1. caller[c].todo \subseteq Offered(c) /\ Offered(c)' = Offered(c)
    BY <1>1, <1>6 DEF Ringed, Put, Same, Offered
  <2>2. caller[c].list \in Lists /\ k \in Keys /\ caller[c].list[k] \in Invokers
    BY <2>1 DEF BalanceTypes, CallerStates, Lists, Offered, InTable
  <2>3. InTable(ring') = InTable(ring) \cup {k}
    BY <1>6, <2>2, Entered DEF Put, BalanceTypes
  <2>4. caller'[c].todo = caller[c].todo \ {k}
        /\ caller'[c].pc = IF caller[c].todo = {k} THEN "sort" ELSE "put"
    BY <1>6 DEF Put
  <2>5. c \notin disturbed' \/ ~mixed' => OwnRing(c)'
    BY <1>1, <1>4, <2>1, <2>3, <2>4 DEF OwnRing, In
  <2>6. OwnHashes(c)' /\ caller'[c].todo \subseteq Offered(c)'
    BY <2>1, <2>4 DEF OwnHashes, In
  <2> QED
    BY <1>1, <1>2, <1>3, <2>5, <2>6, RingStep
<1> QED
  BY <1>5, <1>6, PutEffect

LEMMA SortRings == ASSUME BalanceTypes, Ringed, NEW c \in Callers, SortHashes(c) PROVE Ringed'
<1>1. In(c, "sort") /\ Disturb(c) /\ Caller(c) /\ UNCHANGED <<ring, cached, mixed>>
  BY DEF SortHashes, Caller
<1>2. ~mixed' => \A d \in Callers \ {c} : ~Rebuilding(d)
  BY <1>1 DEF Ringed, Alone, Rebuilding, In
<1>3. caller'[c].pc = "cache" /\ Same(c) /\ sorted' = InTable(ring)
  BY Effects DEF SortHashes
<1>4. c \notin disturbed' \/ ~mixed' => OwnRing(c)
  BY <1>1, Disturbs DEF Ringed
<1>5. c \notin disturbed' \/ ~mixed' => OwnRing(c)'
  BY <1>1, <1>3, <1>4 DEF OwnRing, In, Offered, Same
<1>6. OwnHashes(c)' /\ ~In(c, "put")' /\ ~NobodyCaches'
  BY <1>3 DEF OwnHashes, In, NobodyCaches
<1> QED
  BY <1>1, <1>2, <1>5, <1>6, RingStep

LEMMA CacheRings == ASSUME BalanceTypes, Ringed, NEW c \in Callers, Cache(c) PROVE Ringed'
<1>1. In(c, "cache") /\ Disturb(c) /\ Caller(c) /\ UNCHANGED <<ring, sorted>>
  BY DEF Cache, Caller
<1>2. CASE AllOpen(c)
  <2>1. cached' = Offered(c) /\ caller'[c].pc = "log" /\ Same(c)
    BY <1>2, Effects DEF Cache
  <2>2. mixed' = (mixed /\ (c \in disturbed \/ \E d \in Callers \ {c} : Rebuilding(d)))
    BY <1>2 DEF Cache
  <2>3. ~mixed' => ~mixed \/ c \notin disturbed
    BY <2>2
  <2>4. ~mixed' => sorted = Offered(c)
    BY <1>1, <2>3 DEF Ringed, OwnRing
  <2>5. ~mixed' => \A d \in Callers \ {c} : ~Rebuilding(d)
    BY <1>1, <2>2 DEF Ringed, Alone, Rebuilding, In, BalanceTypes
  <2>6. OwnRing(c)' /\ ~In(c, "put")' /\ (~mixed' => OwnHashes(c)')
    BY <1>1, <2>1, <2>4 DEF OwnRing, OwnHashes, In, Offered, Same
  <2> QED
    BY <1>1, <2>1, <2>4, <2>5, <2>6, RingStep
<1>3. CASE ~AllOpen(c)
  <2>1. caller'[c] = NotCalling /\ mixed'
    BY <1>3, Effects DEF Cache
  <2>2. OwnRing(c)' /\ OwnHashes(c)' /\ ~In(c, "put")'
    BY <2>1 DEF OwnRing, OwnHashes, In, NotCalling
  <2> QED
    BY <1>1, <2>1, <2>2, RingStep
<1> QED
  BY <1>2, <1>3

LEMMA OverwriteRings ==
    ASSUME BalanceTypes, Ringed, NEW c \in Callers, Overwrite(c) PROVE Ringed'
<1>1. \A d \in Callers \ {c} : caller'[d] = caller[d]
  BY OthersStay DEF Caller
<1>2. In(c, "log") /\ UNCHANGED <<ring, sorted, cached, mixed, disturbed>>
  BY DEF Overwrite, ringVars
<1>3. caller'[c].pc = "search" /\ Same(c)
  BY Effects DEF Overwrite
<1>4. (c \notin disturbed /\ ~mixed => OwnHashes(c))'
  BY <1>2, <1>3 DEF OwnHashes, In, Offered, Same, Ringed
<1>5. (\A d \in Callers : In(d, "put") => caller[d].todo \subseteq Offered(d))'
  BY <1>1, <1>3 DEF In, Offered, Ringed
<1>6. (~mixed => Alone)'
  BY <1>1, <1>2, <1>3 DEF Alone, Rebuilding, Ringed
<1>7. (~mixed /\ NobodyCaches => sorted = cached)'
  BY <1>1, <1>2, <1>3 DEF NobodyCaches, In, Ringed
<1>8. ASSUME NEW d \in Callers PROVE (d \notin disturbed \/ ~mixed => OwnRing(d))'
  BY <1>1, <1>2, <1>3 DEF OwnRing, In, Offered, Ringed
<1>9. ASSUME NEW d \in Callers \ {c} PROVE (d \notin disturbed /\ ~mixed => OwnHashes(d))'
  BY <1>1, <1>2 DEF OwnHashes, In, Offered, Ringed
<1> QED
  BY <1>4, <1>5, <1>6, <1>7, <1>8, <1>9 DEF Ringed

LEMMA SearchRings == ASSUME BalanceTypes, Ringed, NEW c \in Callers, Search(c) PROVE Ringed'
<1>1. \A d \in Callers \ {c} : caller'[d] = caller[d]
  BY OthersStay DEF Caller
<1>2. In(c, "search") /\ UNCHANGED <<ring, sorted, cached, mixed, disturbed>>
  BY DEF Search, ringVars
<1>3. CASE Finish(c)
  <2>1. ~Engaged(c)'
    BY <1>3, Effects DEF Engaged, NotCalling
  <2> QED
    BY <1>1, <1>2, <2>1, Elsewhere DEF In
<1>4. ASSUME NEW k \in sorted, caller' = [caller EXCEPT ![c].pc = "lookup", ![c].todo = {k}]
      PROVE  Ringed'
  <2>1. caller'[c].pc = "lookup" /\ caller'[c].todo = {k} /\ caller'[c].list = caller[c].list
    BY <1>4 DEF BalanceTypes, CallerStates
  <2>2. (c \notin disturbed /\ ~mixed => OwnHashes(c))'
    BY <1>2, <2>1 DEF OwnHashes, In, Offered, Ringed
  <2>3. (\A d \in Callers : In(d, "put") => caller[d].todo \subseteq Offered(d))'
    BY <1>1, <2>1 DEF In, Offered, Ringed
  <2>4. (~mixed => Alone)'
    BY <1>1, <1>2, <2>1 DEF Alone, Rebuilding, Ringed
  <2>5. (~mixed /\ NobodyCaches => sorted = cached)'
    BY <1>1, <1>2, <2>1 DEF NobodyCaches, In, Ringed
  <2>6. ASSUME NEW d \in Callers PROVE (d \notin disturbed \/ ~mixed => OwnRing(d))'
    BY <1>1, <1>2, <2>1 DEF OwnRing, In, Offered, Ringed
  <2>7. ASSUME NEW d \in Callers \ {c} PROVE (d \notin disturbed /\ ~mixed => OwnHashes(d))'
    BY <1>1, <1>2 DEF OwnHashes, In, Offered, Ringed
  <2> QED
    BY <2>2, <2>3, <2>4, <2>5, <2>6, <2>7 DEF Ringed
<1> QED
  BY <1>3, <1>4 DEF Search

\* The steps of a caller that leave the ring, or stay away from it.
LEMMA AwayRings ==
    ASSUME BalanceTypes, Ringed, NEW c \in Callers, GetList(c) \/ Choose(c) \/ Invoke(c) \/ RingLookup(c)
    PROVE  Ringed'
<1>1. \A d \in Callers \ {c} : caller'[d] = caller[d] /\ (d \notin disturbed' => d \notin disturbed)
  BY OthersStay DEF Caller
<1>2. UNCHANGED <<ring, sorted, cached, mixed>> /\ ~In(c, "cache")
  BY DEF GetList, Choose, Invoke, RingLookup, In, ringVars
<1>3. ~Engaged(c)'
  <2>1. CASE GetList(c)
    BY <2>1 DEF GetList, Engaged, BalanceTypes, CallerStates
  <2>2. CASE Choose(c) \/ Invoke(c) \/ RingLookup(c)
    BY <2>2, Effects DEF Choose, Invoke, RingLookup, Engaged, NotCalling
  <2> QED
    BY <2>1, <2>2
<1> QED
  BY <1>1, <1>2, <1>3, Elsewhere

LEMMA NextRings == BalanceTypes /\ Ringed /\ [BalanceNext]_serviceVars => Ringed'
<1> SUFFICES ASSUME BalanceTypes, Ringed, [BalanceNext]_serviceVars PROVE Ringed'
  OBVIOUS
<1>1. CASE UNCHANGED <<caller, disturbed, mixed, ring, sorted, cached>>
  BY <1>1, Elsewhere
<1>2. ASSUME NEW c \in Callers, Caller(c) PROVE Ringed'
  BY <1>2, CheckRings, ClearRings, PutRings, SortRings, CacheRings, OverwriteRings, SearchRings,
     AwayRings DEF Caller
<1> QED
  BY <1>1, <1>2 DEF BalanceNext, MonitorRound, serviceVars, balanceVars, ringVars

LEMMA InitRings == BalanceInit => Ringed
<1> SUFFICES ASSUME BalanceInit PROVE Ringed
  OBVIOUS
<1>1. \A c \in Callers : caller[c] = NotCalling
  BY DEF BalanceInit
<1> QED
  BY <1>1 DEF BalanceInit, Ringed, Alone, Rebuilding, OwnRing, OwnHashes, In, NotCalling

----------------------------------------------------------------------------
(* Load balance: one invoker of a URL *)

Held(i) == InUse(i) \/ Listed(i)

\* As long as a URL is not renewed, the table, the ring and the callers have one
\* invoker for it.
Unique ==
    \A k \in Keys \ renewed : \A i, j \in Invokers :
        Held(i) /\ Held(j) /\ invokers[i].key = {k} /\ invokers[j].key = {k} => i = j

\* The only step that makes an invoker held connects it, under a URL that the table has
\* no invoker for; a URL that the ring or a caller has one for is renewed.
LEMMA CallerHolds ==
    ASSUME BalanceTypes, NEW c \in Callers, Caller(c), NEW i \in Invokers, Held(i)'
    PROVE  Held(i)
<1>0. i # None /\ UNCHANGED table
  <2>1. i # None
    BY InvokerTableAssumption DEF Invokers, None
  <2>2. UNCHANGED table
    BY DEF Caller, GetList, Choose, Invoke, Check, ClearRing, PutNodes, SortHashes, Cache, Overwrite,
       Search, RingLookup, directoryVars, tableVars
  <2> QED
    BY <2>1, <2>2
<1>1. CASE Listed(i)'
  BY <1>0, <1>1 DEF Held, Listed
<1>2. ASSUME NEW k \in Keys, ring'[k] = i PROVE Held(i)
  <2>1. CASE UNCHANGED ring
    BY <1>2, <2>1 DEF Held, InUse
  <2>2. CASE ClearRing(c)
    BY <1>0, <1>2, <2>2 DEF ClearRing, Empty
  <2>3. ASSUME NEW l \in caller[c].todo, Put(c, l) PROVE Held(i)
    <3>1. ring' = [ring EXCEPT ![l] = caller[c].list[l]] /\ ring \in [Keys -> {None} \cup Invokers]
      BY <2>3 DEF Put, BalanceTypes, Lists
    <3>2. l \in Keys
      BY <2>3 DEF BalanceTypes, CallerStates
    <3> QED
      BY <1>2, <3>1, <3>2 DEF Held, InUse
  <2>4. CASE PutNodes(c)
    BY <2>1, <2>3, <2>4, PutEffect
  <2> QED
    BY <2>1, <2>2, <2>4 DEF Caller, GetList, Choose, Invoke, Check, SortHashes, Cache, Overwrite,
       Search, RingLookup, ringVars
<1>3. /\ caller'[c].list \in {caller[c].list, Empty, table}
      /\ \/ caller'[c].pick \in {caller[c].pick, None}
         \/ \E k \in Keys : caller'[c].pick \in {caller[c].list[k], ring[k]}
  <2>1. CASE GetList(c)
    BY <2>1 DEF GetList, BalanceTypes, CallerStates
  <2>2. CASE Choose(c)
    <3>1. PICK k \in Offered(c) : Select(c, caller[c].list[k])
      BY <2>2 DEF Choose
    <3>2. k \in Keys
      BY DEF Offered, InTable
    <3> QED
      BY <3>1, <3>2, Effects
  <2>3. CASE RingLookup(c)
    <3>1. PICK k \in caller[c].todo : IF ring[k] = None THEN Finish(c) ELSE Select(c, ring[k])
      BY <2>3 DEF RingLookup
    <3>2. k \in Keys
      BY DEF BalanceTypes, CallerStates
    <3> QED
      BY <3>1, <3>2, Effects DEF NotCalling
  <2>4. CASE Invoke(c) \/ Check(c) \/ SortHashes(c) \/ Cache(c) \/ Overwrite(c)
    BY <2>4, Effects DEF Invoke, Check, SortHashes, Cache, Overwrite, Same, NotCalling
  <2>5. CASE ClearRing(c)
    BY <2>5 DEF ClearRing, BalanceTypes, CallerStates
  <2>6. CASE PutNodes(c)
    BY <2>6, PutEffect DEF Put, Same, NotCalling
  <2>7. CASE Search(c)
    BY <2>7, Effects DEF Search, NotCalling, BalanceTypes, CallerStates
  <2> QED
    BY <2>1, <2>2, <2>3, <2>4, <2>5, <2>6, <2>7 DEF Caller
<1>4. ASSUME NEW d \in Callers, NEW k \in Keys, caller'[d].list[k] = i PROVE Held(i)
  <2>1. CASE caller'[d].list = caller[d].list
    BY <1>4, <2>1 DEF Held, InUse
  <2>2. CASE d = c
    BY <1>0, <1>3, <1>4, <2>1, <2>2 DEF Held, Listed, Empty
  <2> QED
    BY <2>1, <2>2, OthersStay
<1>5. ASSUME NEW d \in Callers, caller'[d].pick = i PROVE Held(i)
  <2>1. CASE caller'[d].pick = caller[d].pick
    BY <1>5, <2>1 DEF Held, InUse
  <2>2. CASE d = c
    BY <1>0, <1>3, <1>5, <2>1, <2>2 DEF Held, InUse
  <2> QED
    BY <2>1, <2>2, OthersStay
<1> QED
  BY <1>1, <1>2, <1>4, <1>5 DEF Held, InUse

LEMMA NextUnique == BalanceTypes /\ AllServe /\ Unique /\ [BalanceNext]_serviceVars => Unique'
<1> SUFFICES ASSUME BalanceTypes, AllServe, Unique, [BalanceNext]_serviceVars PROVE Unique'
  OBVIOUS
<1>A. ASSUME \A i \in Invokers : Held(i)' => Held(i), renewed \subseteq renewed' PROVE Unique'
  <2>1. \A i \in Invokers : Held(i) => invokers'[i].key = invokers[i].key
    BY KeysStay DEF Held
  <2> QED
    BY <1>A, <2>1 DEF Unique
<1>1. ASSUME NEW c \in Callers, Caller(c) PROVE Unique'
  <2>1. UNCHANGED renewed
    BY <1>1 DEF Caller, GetList, Choose, Invoke, Check, ClearRing, PutNodes, SortHashes, Cache,
       Overwrite, Search, RingLookup, directoryVars
  <2> QED
    BY <1>1, <1>A, <2>1, CallerHolds
<1>2. CASE MonitorRound \/ UNCHANGED serviceVars
  BY <1>2, <1>A DEF MonitorRound, serviceVars, directoryVars, balanceVars, tableVars, ringVars, Held,
     InUse, Listed
<1>3. CASE DirectoryStep /\ UNCHANGED balanceVars
  <2>0. \A i \in Invokers : InUse(i)' <=> InUse(i)
    BY <1>3 DEF InUse, balanceVars, ringVars
  <2>1. CASE Clear /\ UNCHANGED renewed
    BY <1>A, <2>0, <2>1, InvokerTableAssumption DEF Clear, Held, Listed, Empty, Invokers, None
  <2>2. ASSUME NEW i \in Invokers, InUse(i), Destroy(i), UNCHANGED renewed PROVE Unique'
    BY <1>A, <2>0, <2>2 DEF Destroy, Held, Listed
  <2>3. ASSUME NEW k \in Keys, NEW i \in Invokers, InUse(i), Keep(k, i), UNCHANGED renewed
        PROVE  Unique'
    BY <1>A, <2>0, <2>3 DEF Keep, Held, Listed, BalanceTypes, Lists
  <2>4. ASSUME NEW k \in Keys, NEW i \in Invokers, Free(i), Connect(k, i),
               renewed' = IF \E j \in Invokers : InUse(j) /\ invokers[j].key = {k}
                          THEN renewed \cup {k} ELSE renewed
        PROVE  Unique'
    <3>1. /\ table' = [table EXCEPT ![k] = i]
          /\ invokers' = [invokers EXCEPT ![i] = [key |-> {k}, state |-> "open"]]
      BY <2>4 DEF Connect
    <3>2. invokers'[i].key = {k} /\ \A j \in Invokers \ {i} : invokers'[j] = invokers[j]
      BY <3>1 DEF BalanceTypes
    <3>3. \A j \in Invokers \ {i} : Held(j)' => Held(j)
      BY <2>0, <3>1 DEF Held, Listed, BalanceTypes, Lists
    <3>4. ASSUME NEW j \in Invokers \ {i}, Held(j)', invokers'[j].key = {k} PROVE k \in renewed'
      <4>1. ~InUse(j) => \E l \in Keys : l # k /\ table[l] = j
        BY <2>0, <3>1, <3>4 DEF Held, Listed, BalanceTypes, Lists
      <4>2. \A l \in Keys : table[l] = j => invokers[j].key = {l}
        BY <3>4, InvokerTableAssumption DEF AllServe, Serves, Invokers, None
      <4>3. InUse(j) /\ invokers[j].key = {k}
        BY <3>2, <3>4, <4>1, <4>2
      <4> QED
        BY <2>4, <4>3
    <3>5. renewed \subseteq renewed'
      BY <2>4
    <3>6. SUFFICES ASSUME NEW l \in Keys, l \notin renewed', NEW i1 \in Invokers, NEW i2 \in Invokers,
                          Held(i1)', Held(i2)', invokers'[i1].key = {l}, invokers'[i2].key = {l}
                   PROVE  i1 = i2
      BY DEF Unique
    <3>7. CASE l = k
      BY <3>4, <3>6, <3>7
    <3>8. CASE l # k
      BY <3>2, <3>3, <3>5, <3>6, <3>8 DEF Unique
    <3> QED
      BY <3>7, <3>8
  <2> QED
    BY <1>3, <2>1, <2>2, <2>3, <2>4 DEF DirectoryStep
<1> QED
  BY <1>1, <1>2, <1>3 DEF BalanceNext

LEMMA InitUnique == BalanceInit => Unique
<1> SUFFICES ASSUME BalanceInit, NEW k \in Keys, NEW i \in Invokers, Held(i), invokers[i].key = {k}
             PROVE  table[k] = i
  BY DEF Unique
<1>1. i # None
  BY InvokerTableAssumption DEF Invokers, None
<1>2. Listed(i)
  BY <1>1 DEF BalanceInit, Held, InUse, NotCalling, Empty
<1> QED
  BY <1>2 DEF BalanceInit

----------------------------------------------------------------------------
(* Load balance: where a call goes *)

\* What a caller has selected is an invoker, for a URL of its list if nobody disturbed it.
Routed(c) ==
    In(c, "selected") =>
        /\ caller[c].pick \in Invokers
        /\ \E k \in Keys : /\ invokers[caller[c].pick].key = {k}
                           /\ c \notin disturbed => k \in Offered(c)

BalanceInv == BalanceTypes /\ AllServe /\ Ringed /\ Unique /\ \A c \in Callers : Routed(c)

LEMMA StaysRouted ==
    ASSUME BalanceInv, [BalanceNext]_serviceVars, NEW c \in Callers, caller'[c] = caller[c],
           c \notin disturbed' => c \notin disturbed
    PROVE  Routed(c)'
<1> SUFFICES ASSUME In(c, "selected") PROVE Routed(c)'
  BY DEF Routed, In
<1>1. caller[c].pick \in Invokers /\ InUse(caller[c].pick)
  BY DEF BalanceInv, Routed, InUse
<1>2. invokers'[caller[c].pick].key = invokers[caller[c].pick].key
  BY <1>1, KeysStay DEF BalanceInv
<1> QED
  BY <1>1, <1>2 DEF BalanceInv, Routed, In, Offered

\* Any invoker, one at random: of the list.
LEMMA ChooseRoutes == ASSUME BalanceInv, NEW c \in Callers, Choose(c) PROVE Routed(c)'
<1>1. PICK k \in Offered(c) : Select(c, caller[c].list[k])
  BY DEF Choose
<1>2. caller'[c].pick = caller[c].list[k] /\ caller'[c].list = caller[c].list
  BY <1>1, Effects DEF BalanceInv
<1>3. k \in Keys /\ caller[c].list[k] # None /\ caller[c].list \in Lists
  BY DEF Offered, InTable, BalanceInv, BalanceTypes, CallerStates
<1>4. caller[c].list[k] \in Invokers /\ invokers[caller[c].list[k]].key = {k}
  BY <1>3 DEF BalanceInv, AllServe, Serves, Lists
<1>5. UNCHANGED invokers
  BY DEF Choose, directoryVars, tableVars
<1> QED
  BY <1>1, <1>2, <1>3, <1>4, <1>5 DEF Routed, Offered

\* The point of the ring that was found: of the list, if the ring is still the list's.
LEMMA LookupRoutes == ASSUME BalanceInv, NEW c \in Callers, RingLookup(c) PROVE Routed(c)'
<1>1. PICK k \in caller[c].todo : IF ring[k] = None THEN Finish(c) ELSE Select(c, ring[k])
  BY DEF RingLookup
<1>2. CASE ring[k] = None
  BY <1>1, <1>2, Effects DEF BalanceInv, Routed, In, NotCalling
<1>3. CASE ring[k] # None
  <2>1. caller'[c].pick = ring[k] /\ caller'[c].list = caller[c].list
    BY <1>1, <1>3, Effects DEF BalanceInv
  <2>2. k \in Keys /\ ring \in Lists
    BY DEF BalanceInv, BalanceTypes, CallerStates
  <2>3. ring[k] \in Invokers /\ invokers[ring[k]].key = {k}
    BY <1>3, <2>2 DEF BalanceInv, AllServe, Serves, Lists
  <2>4. UNCHANGED invokers /\ In(c, "lookup")
    BY DEF RingLookup, directoryVars, tableVars
  <2>5. c \notin disturbed' => ~mixed /\ c \notin disturbed
    BY DEF RingLookup, BalanceInv, BalanceTypes
  <2>6. c \notin disturbed' => k \in Offered(c)
    BY <2>4, <2>5 DEF BalanceInv, Ringed, OwnHashes
  <2> QED
    BY <2>1, <2>2, <2>3, <2>4, <2>6 DEF Routed, Offered
<1> QED
  BY <1>2, <1>3

LEMMA NextRouted == BalanceInv /\ [BalanceNext]_serviceVars => \A c \in Callers : Routed(c)'
<1> SUFFICES ASSUME BalanceInv, [BalanceNext]_serviceVars, NEW c \in Callers PROVE Routed(c)'
  OBVIOUS
<1>1. CASE UNCHANGED <<caller, disturbed>>
  BY <1>1, StaysRouted
<1>2. ASSUME NEW d \in Callers \ {c}, Caller(d) PROVE Routed(c)'
  BY <1>2, OthersStay, StaysRouted DEF BalanceInv
<1>3. CASE Caller(c)
  <2>1. CASE GetList(c) \/ Invoke(c)
    <3>1. ~In(c, "selected")'
      BY <2>1, Effects DEF GetList, Invoke, In, NotCalling, BalanceInv, BalanceTypes, CallerStates
    <3> QED
      BY <3>1 DEF Routed
  <2>2. CASE Check(c) \/ ClearRing(c) \/ SortHashes(c)
    <3>1. ~In(c, "selected")'
      BY <2>2, Effects DEF Check, ClearRing, SortHashes, In, NotCalling, BalanceInv, BalanceTypes, CallerStates
    <3> QED
      BY <3>1 DEF Routed
  <2>3. CASE PutNodes(c)
    BY <2>3, PutEffect DEF Put, Routed, In, NotCalling, BalanceInv
  <2>4. CASE Cache(c) \/ Overwrite(c) \/ Search(c)
    <3>1. ~In(c, "selected")'
      BY <2>4, Effects DEF Cache, Overwrite, Search, In, NotCalling, BalanceInv, BalanceTypes, CallerStates
    <3> QED
      BY <3>1 DEF Routed
  <2> QED
    BY <1>3, <2>1, <2>2, <2>3, <2>4, ChooseRoutes, LookupRoutes DEF Caller
<1> QED
  BY <1>1, <1>2, <1>3 DEF BalanceNext, MonitorRound, serviceVars, balanceVars

LEMMA BalanceInductive == BalanceSpec => []BalanceInv
<1>1. BalanceInit => BalanceInv
  BY BalanceInitTypes, InitServes, InitRings, InitUnique DEF BalanceInit, BalanceInv, Routed, In, NotCalling
<1>2. BalanceInv /\ [BalanceNext]_serviceVars => BalanceInv'
  BY BalanceNextTypes, NextServes, NextRings, NextUnique, NextRouted DEF BalanceInv
<1> QED
  BY <1>1, <1>2, PTL DEF BalanceSpec

\* A call goes to an invoker of the list that its caller read, for any callers, however
\* they rebuild the ring between each other's steps, unless one of them was disturbed,
\* the ring is not the work of one rebuild, or the URL was renewed.
THEOREM CallsAreRouted == BalanceSpec => []RoutedToListed
<1>1. BalanceInv => RoutedToListed
  <2> SUFFICES ASSUME BalanceInv, NEW c \in Callers, In(c, "selected"), c \notin disturbed
               PROVE  \E k \in Offered(c) :
                          \/ caller[c].pick = caller[c].list[k]
                          \/ invokers[caller[c].pick].key = {k} /\ k \in renewed
    BY DEF RoutedToListed
  <2>1. PICK k \in Keys : invokers[caller[c].pick].key = {k} /\ k \in Offered(c)
    BY DEF BalanceInv, Routed
  <2>2. caller[c].pick \in Invokers /\ Held(caller[c].pick)
    BY DEF BalanceInv, Routed, Held, InUse
  <2>3. caller[c].list[k] \in Invokers /\ Held(caller[c].list[k])
    BY <2>1 DEF BalanceInv, BalanceTypes, CallerStates, Lists, Offered, InTable, Held, InUse
  <2>4. invokers[caller[c].list[k]].key = {k}
    BY <2>1 DEF BalanceInv, AllServe, Serves, Offered, InTable
  <2> QED
    BY <2>1, <2>2, <2>3, <2>4 DEF BalanceInv, Unique
<1> QED
  BY <1>1, BalanceInductive, PTL
=============================================================================
