----------------------------- MODULE Connection -----------------------------
(***************************************************************************)
(* The connection of a client (remoting/aio/aio_transporter.py): a thread  *)
(* that constructs and closes an AioClient, the event loop on which its    *)
(* connections are made, lost and made again, the heartbeat of each        *)
(* connection, and the calls that have a stream on one of them.            *)
(*                                                                         *)
(* Connections are numbered in the order in which they are established.    *)
(* Every loss has a connection_lost of its own, which connects again.      *)
(* _LOGGER.info is an attribute of the one logger of the program, which    *)
(* the load balance of another component may set to a string (Balance):    *)
(* from then on each call of it raises.                                    *)
(* What a stream sends and receives is in Outbound and Inbound: here a     *)
(* call has one HEADERS frame and one answer.                              *)
(***************************************************************************)
EXTENDS Integers, Sequences, FiniteSets

CONSTANTS
    Calls,
    NoCall,           \* a stream id that is not registered
    MaxConnections,   \* bound of the connections that are established
    MaxCalling,       \* bound of those while there are calls
    ReconnectTimes    \* aio_constants.RECONNECT_TIMES

ASSUME ConnectionAssumption ==
    /\ IsFiniteSet(Calls) /\ NoCall \notin Calls
    /\ MaxConnections \in Nat /\ MaxCalling \in Nat
    /\ ReconnectTimes \in Nat \ {0}

VARIABLES
    \* AioClient
    user,             \* the thread that constructs and closes the client
    connected, closed, activeClose,
    protocol,         \* the connection of _protocol, 0 is None
    \* the event loop
    tasks,            \* tasks and callbacks that are ready, in order
    stopped,
    dialing,          \* of the constructor, 0, and of the connection_lost of each connection:
                      \* "none", "dialing" (it waits for create_connection) or "gave_up"
    attempts,         \* failed attempts of each connection_lost
    result,           \* the constructor's future, 0 while it has no result
    \* connections
    made,             \* number of connections that were established
    conn,             \* of each: "none", "open", "hung" (the peer is gone and did
                      \* not say so), "closing" or "lost"
    heartbeat, heard, \* _heartbeat_loop, and whether it has reason to ping
    \* StreamClientMultiplexHandler and the calls
    current,          \* its _protocol
    streams,          \* its _streams
    callConn, callId, \* the connection and the id of a call's stream
    answer,           \* the call whose answer a call was given
    \* loggerFactory
    silenced,         \* _LOGGER.info is not callable any more
    \* history
    faults

clientVars == <<connected, closed, activeClose, protocol>>
loopVars == <<tasks, stopped, dialing, attempts, result>>
connVars == <<made, conn, heartbeat, heard>>
callVars == <<current, streams, callConn, callId, answer>>
vars == <<user, clientVars, loopVars, connVars, callVars, silenced, faults>>

Connections == 1..MaxConnections
Constructor == 0
Dialers == 0..MaxConnections
Calling(c) == callConn[c] # 0
Ids == 1..Cardinality(Calls)
Faults == {"ignored",    \* close() returned at once while a reconnection went on
           "undone",     \* a reconnection forgot that the client is being closed
           "overtaken"}  \* the constructor set _protocol to a connection that was replaced

Unregistered == [i \in Ids |-> NoCall]

\* The constructor has submitted the first attempt, and waits.
Init ==
    /\ user = "connect"
    /\ connected = FALSE /\ closed = FALSE /\ activeClose = FALSE /\ protocol = 0
    /\ tasks = <<>> /\ stopped = FALSE
    /\ dialing = [d \in Dialers |-> IF d = Constructor THEN "dialing" ELSE "none"]
    /\ attempts = [p \in Connections |-> 0] /\ result = 0
    /\ made = 0 /\ conn = [p \in Connections |-> "none"]
    /\ heartbeat = [p \in Connections |-> "none"] /\ heard = [p \in Connections |-> FALSE]
    /\ current = 0 /\ streams = Unregistered
    /\ callConn = [c \in Calls |-> 0] /\ callId = [c \in Calls |-> 0]
    /\ answer = [c \in Calls |-> NoCall]
    /\ silenced = FALSE /\ faults = {}

\* The task concerns a connection; it is a step of the coroutine "by", if of any.
Task(kind, p, by) == [kind |-> kind, conn |-> p, by |-> by]

\* create_task puts a task behind those that are ready.
SpawnFirst(task) == <<task>> \o tasks
Spawn(task) == Append(tasks, task)

----------------------------------------------------------------------------
(* Connecting *)

\* The transport calls connection_made, which initializes the stream handler,
\* starts the heartbeat and the task that tells the client; whoever waits for
\* create_connection is resumed after that.
Established(d) ==
    /\ dialing[d] = "dialing" /\ ~stopped
    /\ made < MaxConnections /\ (\A c \in Calls : Calling(c) => made < MaxCalling)
    /\ made' = made + 1
    /\ conn' = [conn EXCEPT ![made'] = "open"]
    /\ heartbeat' = [heartbeat EXCEPT ![made'] = "sleep"]
    /\ current' = made' /\ streams' = Unregistered
    /\ tasks' = Append(Spawn(Task("made", made', 0)),
                       Task(IF d = Constructor THEN "constructor" ELSE "reconnect", made', d))
    /\ dialing' = [dialing EXCEPT ![d] = "none"]
    /\ UNCHANGED <<user, clientVars, stopped, attempts, result, heard, callConn, callId,
                   answer, silenced, faults>>

LastAttempt(p) == attempts[p] + 1 >= ReconnectTimes

\* The except branch of an attempt: it is followed by the next one, or was the last.
TryAgain(p) ==
    /\ attempts' = [attempts EXCEPT ![p] = @ + 1]
    /\ dialing' = [dialing EXCEPT ![p] = IF LastAttempt(p) THEN "gave_up" ELSE "dialing"]

\* A failure of the first attempt is told to nobody; the constructor times out.
DialFails(d) ==
    /\ dialing[d] = "dialing" /\ ~stopped
    /\ \/ /\ d = Constructor
          /\ dialing' = [dialing EXCEPT ![d] = "none"] /\ UNCHANGED attempts
       \/ d # Constructor /\ TryAgain(d)
    /\ UNCHANGED <<user, clientVars, tasks, stopped, result, connVars, callVars, silenced,
                   faults>>

GetResult ==
    /\ user = "connect"
    /\ user' = IF result # 0 THEN "connecting" ELSE "failed"   \* timeout=3
    /\ UNCHANGED <<clientVars, loopVars, connVars, callVars, faults, silenced>>

\* connect sets _protocol on the caller's thread, when it gets to it, and logs that:
\* if this raises, the constructor fails, over a connection that stays.
SetProtocol ==
    /\ user = "connecting"
    /\ user' = IF silenced THEN "failed" ELSE "ready"
    /\ protocol' = result
    /\ faults' = IF protocol # 0 THEN faults \cup {"overtaken"} ELSE faults
    /\ UNCHANGED <<connected, closed, activeClose, loopVars, connVars, callVars, silenced>>

----------------------------------------------------------------------------
(* The tasks of the client, in the order in which they became ready *)

Run(kind) == ~stopped /\ tasks # <<>> /\ Head(tasks).kind = kind

ConnectionMade ==
    /\ Run("made")
    /\ tasks' = Tail(tasks) /\ connected' = TRUE
    /\ UNCHANGED <<user, closed, activeClose, protocol, stopped, dialing, attempts, result,
                   connVars, callVars, faults, silenced>>

\* The constructor's _do_connect.
Connected ==
    /\ Run("constructor")
    /\ tasks' = Tail(tasks) /\ result' = Head(tasks).conn
    /\ UNCHANGED <<user, clientVars, stopped, dialing, attempts, connVars, callVars, faults,
                   silenced>>

\* connection_lost, resumed by _do_connect.  The thread that closes the client
\* may be anywhere between the last two assignments.
Reconnected ==
    /\ Run("reconnect")
    /\ tasks' = <<Task("forget", Head(tasks).conn, Head(tasks).by)>> \o Tail(tasks)
    /\ protocol' = Head(tasks).conn /\ connected' = TRUE /\ closed' = FALSE
    /\ UNCHANGED <<user, activeClose, stopped, dialing, attempts, result, connVars, callVars,
                   silenced, faults>>

KeepsTrying(p) == TryAgain(p)
\* A successful attempt is the last one; but it is logged inside the try, and if this
\* raises the loop goes on to dial, over the connection that was just made.
AfterAttempt(p) == IF silenced THEN TryAgain(p) ELSE UNCHANGED <<dialing, attempts>>

ForgetClose ==
    /\ Run("forget")
    /\ tasks' = Tail(tasks) /\ activeClose' = FALSE
    /\ faults' = IF activeClose THEN faults \cup {"undone"} ELSE faults
    /\ AfterAttempt(Head(tasks).by)
    /\ UNCHANGED <<user, connected, closed, protocol, stopped, result, connVars, callVars,
                   silenced>>

ConnectionLost ==
    /\ Run("lost")
    /\ connected' = FALSE /\ closed' = TRUE
    /\ \/ /\ activeClose
          /\ tasks' = Append(Tail(tasks), Task("stop", 0, 0))
          /\ UNCHANGED <<dialing, attempts>>
       \/ /\ ~activeClose
          /\ tasks' = Tail(tasks)
          /\ dialing' = [dialing EXCEPT ![Head(tasks).conn] = "dialing"]
          /\ UNCHANGED attempts
    /\ UNCHANGED <<user, activeClose, protocol, stopped, result, connVars, callVars, faults,
                   silenced>>

\* EventLoop._stop cancels every task, heartbeats included.
Stop ==
    /\ Run("stop")
    /\ stopped' = TRUE /\ tasks' = <<>>
    /\ dialing' = [d \in Dialers |-> "none"]
    /\ heartbeat' = [p \in Connections |-> IF p <= made THEN "done" ELSE "none"]
    /\ UNCHANGED <<user, clientVars, attempts, result, made, conn, heard, callVars, faults,
                   silenced>>

----------------------------------------------------------------------------
(* Connections end by their peer, the network, a heartbeat or close().      *)

Closing(p) == [conn EXCEPT ![p] = IF @ \in {"open", "hung"} THEN "closing" ELSE @]

PeerCloses(p) ==
    /\ conn[p] \in {"open", "hung"} /\ conn' = Closing(p)
    /\ UNCHANGED <<user, clientVars, loopVars, made, heartbeat, heard, callVars, faults,
                   silenced>>

PeerHangs(p) ==
    /\ conn[p] = "open" /\ conn' = [conn EXCEPT ![p] = "hung"]
    /\ UNCHANGED <<user, clientVars, loopVars, made, heartbeat, heard, callVars, faults,
                   silenced>>

\* Http2ClientProtocol.connection_lost; calls are not told.
TransportLost(p) ==
    /\ conn[p] = "closing" /\ ~stopped
    /\ conn' = [conn EXCEPT ![p] = "lost"]
    /\ tasks' = Spawn(Task("lost", p, p))
    /\ UNCHANGED <<user, clientVars, stopped, dialing, attempts, result, made, heartbeat,
                   heard, callVars, faults, silenced>>

\* It matters to a heartbeat that sleeps; one that waits wants its own answer.
DataReceived(p) ==
    /\ conn[p] = "open" /\ heartbeat[p] = "sleep"
    /\ heard' = [heard EXCEPT ![p] = TRUE]
    /\ UNCHANGED <<user, clientVars, loopVars, made, conn, heartbeat, callVars, faults,
                   silenced>>

NeverPings(p) == TRUE
\* Something was received since the heartbeat went to sleep.
IsNormal(p) == heard[p]

\* The loop outlives its connection, and pings a lost one, too.
Wake(p) ==
    /\ heartbeat[p] = "sleep" /\ ~stopped
    /\ heard' = [heard EXCEPT ![p] = FALSE]
    /\ heartbeat' = [heartbeat EXCEPT ![p] = IF IsNormal(p) THEN "sleep" ELSE "ping"]
    /\ UNCHANGED <<user, clientVars, loopVars, made, conn, callVars, faults, silenced>>

PingAck(p) ==
    /\ heartbeat[p] = "ping" /\ conn[p] = "open" /\ ~stopped
    /\ heartbeat' = [heartbeat EXCEPT ![p] = "sleep"]
    /\ UNCHANGED <<user, clientVars, loopVars, made, conn, heard, callVars, faults, silenced>>

\* Five seconds without an acknowledgement, or h2 refuses to ping.
PingTimesOut(p) ==
    /\ heartbeat[p] = "ping" /\ ~stopped
    /\ heartbeat' = [heartbeat EXCEPT ![p] = "done"]
    /\ conn' = Closing(p)
    /\ UNCHANGED <<user, clientVars, loopVars, made, heard, callVars, faults, silenced>>

----------------------------------------------------------------------------
(* close(), which other threads than the event loop's read and write past.  *)

CloseChecks ==
    /\ user = "ready"
    /\ user' = IF closed THEN "closed" ELSE "checked"
    /\ faults' = IF closed THEN faults \cup {"ignored"} ELSE faults
    /\ UNCHANGED <<clientVars, loopVars, connVars, callVars, silenced>>

Unmarked == activeClose
Marked == TRUE

CloseMarks ==
    /\ user = "checked" /\ user' = "marked"
    /\ activeClose' = Marked
    /\ UNCHANGED <<connected, closed, protocol, loopVars, connVars, callVars, faults, silenced>>

CloseProtocol ==
    /\ user = "marked" /\ user' = "closed"
    /\ conn' = Closing(protocol)
    /\ UNCHANGED <<clientVars, loopVars, made, heartbeat, heard, callVars, faults, silenced>>

----------------------------------------------------------------------------
(* Calls.  A stream keeps the connection the handler had when the call was  *)
(* started; its headers, which give it its id, go with the first message.   *)

StartCall(c) ==
    /\ ~Calling(c) /\ made <= MaxCalling /\ user \in {"ready", "checked", "marked"} /\ connected
    /\ callConn' = [callConn EXCEPT ![c] = current]
    /\ UNCHANGED <<user, clientVars, loopVars, connVars, current, streams, callId, answer,
                   faults, silenced>>

AtStart(p) == Cardinality({c \in Calls : callConn[c] = p})
\* h2 numbers the streams of a connection by their first frame.
NextStreamId(p) == Cardinality({c \in Calls : callConn[c] = p /\ callId[c] # 0}) + 1

\* The connections of a client share one handler.
SendHeaders(c) ==
    /\ Calling(c) /\ callId[c] = 0 /\ ~stopped
    /\ LET id == NextStreamId(callConn[c]) IN
         callId' = [callId EXCEPT ![c] = id] /\ streams' = [streams EXCEPT ![id] = c]
    /\ UNCHANGED <<user, clientVars, loopVars, connVars, current, callConn, answer, faults,
                   silenced>>

\* The server answers the call that has the stream on its connection.
Answer(c) ==
    /\ callId[c] # 0 /\ conn[callConn[c]] = "open"
    /\ LET given == streams[callId[c]] IN
         /\ given # NoCall /\ answer[given] = NoCall
         /\ answer' = [answer EXCEPT ![given] = c]
    /\ heard' = [heard EXCEPT ![callConn[c]] = heartbeat[callConn[c]] = "sleep"]
    /\ UNCHANGED <<user, clientVars, loopVars, made, conn, heartbeat, current, streams,
                   callConn, callId, faults, silenced>>

----------------------------------------------------------------------------

\* A load balance of the program rebuilds its hash ring for the first time.
Silence ==
    /\ ~silenced /\ silenced' = TRUE
    /\ UNCHANGED <<user, clientVars, loopVars, connVars, callVars, faults>>

Dial(d) == Established(d) \/ DialFails(d)
RunTask == ConnectionMade \/ Connected \/ Reconnected \/ ForgetClose \/ ConnectionLost \/ Stop
Construct == GetResult \/ SetProtocol
Close == CloseMarks \/ CloseProtocol
Heartbeat(p) == Wake(p) \/ PingAck(p) \/ PingTimesOut(p)
Peer(p) == PeerCloses(p) \/ PeerHangs(p) \/ DataReceived(p)
Call(c) == StartCall(c) \/ SendHeaders(c) \/ Answer(c)

Next ==
    \/ RunTask \/ Construct \/ CloseChecks \/ Close \/ Silence
    \/ \E d \in Dialers : Dial(d)
    \/ \E p \in Connections : TransportLost(p) \/ Heartbeat(p) \/ Peer(p)
    \/ \E c \in Calls : Call(c)

Spec == Init /\ [][Next]_vars

\* The event loop runs what is ready, timers fire, an attempt ends, and the
\* thread that closes the client goes on.  Peers and calls are free.
Fairness ==
    /\ WF_vars(RunTask) /\ WF_vars(Construct) /\ WF_vars(Close)
    /\ \A d \in Dialers : WF_vars(Dial(d))
    /\ \A p \in Connections : WF_vars(TransportLost(p)) /\ WF_vars(Heartbeat(p))

FairSpec == Spec /\ Fairness

----------------------------------------------------------------------------
(* Properties *)

TypeOK ==
    /\ user \in {"connect", "connecting", "failed", "ready", "checked", "marked", "closed"}
    /\ connected \in BOOLEAN /\ closed \in BOOLEAN /\ activeClose \in BOOLEAN
    /\ protocol \in 0..made /\ result \in 0..made /\ made \in 0..MaxConnections
    /\ tasks \in Seq([kind : {"made", "constructor", "reconnect", "forget", "lost", "stop"},
                      conn : 0..made, by : 0..made])
    /\ stopped \in BOOLEAN
    /\ dialing \in [Dialers -> {"none", "dialing", "gave_up"}]
    /\ attempts \in [Connections -> Nat]
    /\ conn \in [Connections -> {"none", "open", "hung", "closing", "lost"}]
    /\ heard \in [Connections -> BOOLEAN]
    /\ heartbeat \in [Connections -> {"none", "sleep", "ping", "done"}]
    /\ current = made /\ streams \in [Ids -> Calls \cup {NoCall}]
    /\ callConn \in [Calls -> 0..made] /\ callId \in [Calls -> 0..Cardinality(Calls)]
    /\ answer \in [Calls -> Calls \cup {NoCall}]
    /\ silenced \in BOOLEAN /\ faults \subseteq Faults

Live(p) == conn[p] \in {"open", "hung", "closing"}

Up == \E p \in Connections : Live(p)

\* A client has one connection at a time: a new one is only made after the loss
\* of the one before, however losses, attempts, heartbeats and close() interleave.
\* This ends when _LOGGER.info is overwritten: each attempt that succeeds is then
\* followed by another one, and after ReconnectTimes of them connection_lost gives up
\* with "cannot reconnect" (aio_transporter.py 160-176).
OneConnection == ~silenced => \A p, q \in Connections : Live(p) /\ Live(q) => p = q

\* What is_connected says, and calls are refused by, is true whenever the loop
\* has nothing left to run: a late connection_made never hides a loss.  Once
\* _LOGGER.info is overwritten and several connections are up, the loss of one hides
\* the others; but a client that says it is connected still is.
ConnectedIsTrue ==
    tasks = <<>> /\ (\A p \in Connections : conn[p] # "closing") =>
        /\ connected /\ ~stopped => Up
        /\ ~silenced => (connected <=> Up)

\* An answer reaches the call it is for, whichever order calls start and send their
\* headers in: only a call with a stream on another connection, under an id that the
\* shared handler registered again, is ever given the answer of another one.
AnswersOwn ==
    \A c, d \in Calls : answer[c] = d /\ callConn[c] = callConn[d] => c = d

GaveUp == \E p \in Connections : dialing[p] = "gave_up"

\* close() ends the client, or there is nothing to end, or it fell into one of
\* the three races with the event loop: no other interleaving loses it.
CloseEnds == user = "closed" ~> (stopped \/ GaveUp \/ faults # {})

\* A client whose peer left or fell silent notices, and connects again, unless
\* it gives up after ReconnectTimes attempts or is closed.
Recovers ==
    (made > 0 /\ \A p \in Connections : conn[p] # "open")
        ~> \/ \E p \in Connections : conn[p] = "open"
           \/ GaveUp \/ stopped

=============================================================================
