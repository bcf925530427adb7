# Verification of dubbo-python

dubbo-python is an RPC framework: a client calls methods of a server over gRPC
messages ("Triple") in HTTP/2 streams, finds servers through a registry and
balances calls over them. Its HTTP/2 layer is the `h2` state machine driven by
`asyncio`; the program's own logic is what happens between the threads that
call and serve, the event loop that owns the connection, and the peer.

## The system

| part | source (`src/src/dubbo/`) | state | operations | hard because |
|---|---|---|---|---|
| remote flow control | `remoting/aio/http2/controllers.py` `RemoteFlowController` | items per stream, queue of stream ids, parked streams | `write_data`, `release_flow_control`, `_run` | one coroutine writes for all streams; windows move while it waits |
| outbound stream | `FrameOutboundController`, `stream.py` | posted callbacks, headers, data queue, last event | `send_headers`, `send_data`, `cancel_by_local`, `_run` | three kinds of actors: callers' threads, callbacks, coroutine |
| inbound stream | `FrameInboundController`, `stream_handler.py` | frame queue, condition, thread pool, registry of streams | `handle_frame`, `_run`, `_handle_frame`, `ack_frame` | order across a thread pool, credit, closing while frames are queued |
| connection, heartbeat | `protocol.py` | h2 connection, last read, ping future | `data_received`, `send_frame`, heartbeat, `connection_lost` | timeouts against late answers, loss with calls pending |
| transporters, event loop | `aio_transporter.py`, `event_loop.py` | connected/closed flags, protocol | connect, close, reconnect, start, stop | close against reconnection |
| message framing | `protocol/triple/coders.py` | accumulated bytes, state | `decode`, `close` | messages are cut anywhere |
| server call | `call/server_call.py`, `stream/server_stream.py`, `streams.py` | read stream, flags | events of the stream, method runner, `complete` | listener thread against method thread, errors while answering |
| client call, invoker | `call/client_call.py`, `stream/client_stream.py`, `invoker.py` | done flag, future or read stream | `send_message`, `cancel_by_local`, `on_complete` | caller's thread against listener's thread |
| headers and statuses | `metadata.py`, `call/server_call.py`, `stream/*_stream.py`, `status.py`, `headers.py` | request headers, status of the answer | `to_headers`, `on_headers`, trailers, `from_http_code` | a status passes five conversions, and others than the server may answer |
| directory, cluster | `cluster/directories.py`, `failfast_cluster.py`, `registry/protocol.py` | table of invokers | `notify`, `get_list`, `invoke`, `export` | two threads notify, callers read meanwhile, connecting fails in the middle |
| load balancing, CPU monitor | `cluster/loadbalances.py`, `cluster/monitor/cpu.py` | hash ring, usage table | `select`, monitor loop | unlocked caches shared by callers |
| registries | `registry/zookeeper`, `registry/nacos` | ephemeral nodes, watches, a timer | register, subscribe, notifications | session loss, crash and restart, check-then-act |
| configuration centre, reloader | `configcenter` | cached configuration, digest, attributes | fetch, subscribe, poll, reload | changes between fetch and subscription, readers during an assignment |
| Lawgenesis service | `lawgenesis_server.py` | configurations, limiter, cache | start, the wrapper of a method | starts before its configuration is loaded |
| facades | `bootstrap.py`, `client.py`, `server.py`, `url.py`, `configs.py` | a singleton's configurations, URLs | construct, refer, start, export | the singleton's constructor runs again for everybody |
| loggers, log upload | `loggers.py`, `monitor/loki.py` | configuration, handlers, queues, batches | `set_config`, `emit`, upload, `stop` | threads that log, configure, upload and stop |

How they interact: a call layer posts operations of its stream to the event
loop (`call_soon_threadsafe`); the stream's outbound coroutine sends headers
and trailers through the protocol and data through the connection's flow
controller, which reports with an event per write. Frames of the peer go from
`data_received` to the stream's queue, one at a time to a thread of the pool,
to the listener (a server or client transport listener), and the
acknowledgement comes back to the loop. A client finds its servers in the table
of a directory, which the registry's threads (a watch of kazoo, a timer of the
Nacos subscriber) rewrite while callers select from it; a server puts its URL
into the registry before it binds its port. A Lawgenesis service reads its
configuration from a centre that an event loop of its own polls, and builds a
server of it through the same facade as everybody else in the process. The
logger is shared by all. `PROJECT.json` lists every component with its status
and every hazard with its line.

## The modules

**`FlowControl`** models `RemoteFlowController` with what it reads and writes of
h2 and of the streams. `held`, `data`, `endStream`, `event` are `_stream_dict`
(the last write of a stream numbers its event), `queue` and `blocked` are
`_outbound_queue` and `_flow_controls`, `task` is the coroutine. `WriteData` is
`write_data`; `StreamWindowUpdate` and `ConnWindowUpdate` are
`release_flow_control` after h2 moved the window, `PeerSettings` the change of
SETTINGS_INITIAL_WINDOW_SIZE that releases nothing; one turn of `_run` is
`TransmitClosed` (stream closed meanwhile), `TransmitFails` (h2 raises, the
coroutine ends), `TransmitPart` or `TransmitAll`. `LocalReset`, `SendTrailers`,
`PeerReset` and `ConnectionLost` are the other coroutines and the peer. `marks`
records what closed the sending side in h2, which is not the same as
`_local_closed` (`localClosed`). Data is counted in bytes. Between two awaits
code on the event loop is atomic, so each of these is one action.

**`Outbound`** adds, per stream, the call layer's threads (`SendHeaders`,
`SendData`, `SendTrailers`, `CancelByLocal`: check `local_closed`, post), the
callbacks in posting order (`HeadersCallback`, `DataCallback`, `RstCallback`)
and the coroutine (`WriteHeaders`, `ForwardData`, `ReachLast`,
`WriteTrailers`), over an instance of `FlowControl`. `close_local` cancels the
coroutine, hence `At`. The streams in `Rivals` only compete for the windows.

**`ResponseStream`** is the abstract specification: what a server's method
runner may rely on. Bytes are delivered in order, a stream that ends without a
reset ends after the runner finished and with everything delivered.
`Outbound` is shown to implement it (`Implements`), mapping bytes handed over
to `given`, bytes on the wire to `sent`, and the marks to the status.

**`Inbound`** models `FrameInboundController` with the stream registry:
`ReceiveFrame` is `handle_frame` of both handlers, `Dispatch` a turn of `_run`,
`StartFrame`/`FinishFrame`/`ListenerRaises` the thread pool, `AckFrame` the
acknowledgement coroutine, which needs the condition's lock, `CloseLocal` and
`LocalReset` the sending side. Frames carry their kind, END_STREAM and their
position. The trailers of a client's request are HEADERS to the server's handler
(`RequestTrailers`): it registers a new stream over the old one, its `heir`, whose
listener gets them and whatever follows.

**`TriDecoder`** is the framing of gRPC messages as operators on a record
(`state`, `required`, `accumulate`, the fields of the same names): `Feed` is
`decode`'s extension of the buffer, `ProcessHeader` and `ProcessPayload` the two
branches of the loop of `_do_decode`. The four bytes of a length are one number,
so a header has two cells.

**`ServerCall`** models the calls of a server. `listener` is the place of the
thread that handles a frame: `OnHeaders` submits the method, `OnData` feeds any
number of the next bytes, `DecodeHeader` and `OnMessage` are turns of the
decoder's loop, `DecodeEnds` its end, which closes it after END_STREAM; `PutEof`
is the second half of `put_eof`, after the flag. `method` is the place of the
method runner: `Start` takes it from the pool, `Read` and `Get` are the two
halves of `TriReadStream.read` (look for the end, then wait), `User...` is what
a method may do with its stream, `UserReturns` to `FinishResult` are
`handle_result`, `HandleException` is `handle_exception`. A message that
cannot be decompressed or deserialized is in `Refused`.

**`ClientCall`** models one call of a client. `pc` has the place of each of its
two threads: `SendMessage`, `PostMessage` and `SerializeFails` are the caller in
`TripleClientCall.send_message`; `OnHeaders`, `OnTrailers`, `OnData`,
`OnErrorData`, `CancelByRemote` and `OnMalformed` the frames handled by
`ClientTransportListener`, `OnMessage` the deserialization. `Cancel` and
`Cancelling`, `Complete` and `Completing` split the check of `_done` from its
assignment, since both threads do it without a lock; `OnClose` completes the
future or ends the read stream. `faults` is history.

**`Connection`** models an `AioClient` with its event loop, its connections and
the one `StreamClientMultiplexHandler` they share. `user` is the thread that
constructs and closes the client: `GetResult` and `SetProtocol` are `connect`
after it submitted `_do_connect`; `CloseChecks`, `CloseMarks` and
`CloseProtocol` are the three steps of `close`, whose lock the event loop does
not take. `tasks` are the callbacks and tasks that are ready, run in order:
`ConnectionMade`, `Connected`, `Reconnected` and `ForgetClose` (the assignments
after an attempt succeeded, with the other thread between them),
`ConnectionLost`, `Stop`. The success is logged inside the `try` of the attempt: once
another component has overwritten the logger's `info` (`Silence`), that raises, and
`AfterAttempt` dials again over the connection just made (`TryAgain`). `Established` is the protocol's `connection_made` with
`do_init` of the handler; `TransportLost` its `connection_lost`; `Wake`,
`PingAck` and `PingTimesOut` are `_heartbeat_loop`, which goes on after its
connection is lost. A connection is `hung` when its peer is gone and the
transport has not been told; only the heartbeat notices. `heard` stands for
the comparison of `_last_read` with the interval. The pause of a second after a
failed attempt is part of the attempt. A call has one HEADERS frame, sent on the
connection its stream was created for, and one answer, given to whom
`_streams` has under its id. `faults` is history.

**`Exchange`** follows the headers of one call and the status it ends with.
`Invoke` is `TripleInvoker.invoke` up to `RequestMetadata.to_headers`;
`OnHeaders` with `Verdict` is `ServerTransportListener.on_headers` with its checks in
their order; `MethodEnds` the trailers a method's end makes, alone or behind
headers and a message; `OnResponseHeaders`, `OnResponseTrailers`,
`OnResponseData` and `CancelByRemote` are `ClientTransportListener`. Requests of
other clients, answers of a proxy and resets of the peer are `Others`. A header is
what the code compares of it; a path is its segments, so that a name with a slash
has two.

**`InvokerTable`** is the abstract specification of a directory, what its
readers are promised: invokers in the table are open and serve the URL they are
listed under, and only what is not in the table is destroyed.

**`Directory`** models `RegistryDirectory.notify` with the Nacos subscriber that
calls it from two threads. `Subscribe`, `Tick` and `Unsubscribe` are the
subscriber; `NotifyRead`, `NotifyReset`, `Move`, `Connect`, `Refer`,
`StartDestroy`, `Destroy` and `NotifyEnds` are `notify` line by line, with what
raises in it (`MoveFails`, `ReferFails`, `DestroyFails`): the two threads may meet
between any two of these. A dictionary of invokers is an object with a number (`tables`), since
`notify` keeps a reference to the one it replaces; `thread[n].old` is that reference,
`todo` the URLs or invokers that are left, `key` the URL being referred, or
while it destroys, the size the loop began with.

**`Balance`** extends `InvokerTable` with callers. `GetList` is `get_list` and the
choice of a strategy, `Choose` a random selection, `Check` to `RingLookup` the
steps of `ConsistentHashLoadBalance.do_select` over `ring`, `sorted` and `cached`,
which all callers share; a rebuild that comes to its end assigns its message to
`_LOGGER.info` (`Overwrite`), after which no new invoker can be connected. `renewed` is history:
the URLs that got a new invoker while the ring or a caller had an earlier one. `Invoke`
is the invocation. `DirectoryStep` takes a
step of the abstract table, so that what holds here holds over every directory that
implements it. `MonitorRound` is the CPU monitor, whose thread ends in its first round
with a connected invoker: its own calls raise, and so does the removal of a usage it never recorded.

**`Registry`** is ZooKeeper as the package uses it: `Start`, `Create`, `Update` and
`Bind` are a provider's `create_or_update` and the port it binds afterwards,
`Crash`, `Expire` and `LoseSession` what happens to its session; `StartClient`,
`Fetch`, `Notified`, `Refused`, `Suspend` and `Resume` are the consumer with
kazoo's `ChildrenWatch`. `node` has the owner of each ephemeral node: `create_or_update` may
write into the node of a process that is gone.

**`Url`** holds the conversions between texts, URLs and configurations as operators on
records; **`Facade`** uses them. One thread per facade goes through `Dubbo(...)`
(`SetApplication`, `SetRegistry`: a singleton, so that these overwrite what another
thread has set, or `Reuse`, which takes what is there), `_check_default`, `_initialize`
(`ReadRegistry`, `Choose`, `Build`: the registry is read twice), and `Refer`, or `Start` and
`Export`, which may fail and be tried again. Nothing is locked, and `_check_default` reads
the two configurations of the singleton again for each test and each use: every read and
write of them is a step of its own (`TestApplication`, `FillApplication`, `TestRegistry`,
`TestVersion`, `TestApplicationVersion`, `ReadVersion`, `ReadObject`, `StoreVersion`), and a
configuration that another thread replaced by None meanwhile raises. A registry
configuration is an object (`object`) that several threads may come to hold. `Setups` are the plans the threads
may have together.

**`Reloader`** is the configuration centre on a file: `Fetch` and `Subscribe` start the
reloaders one after the other, `Poll` is the listener's comparison of digests,
`Assign` one assignment of `update_cls`, between which other threads read. A content has keys
for some of the attributes (`Given`), and only those are assigned: an attribute whose key
was taken out keeps the value of an earlier content. `ClientRaises` is a centre whose
constructor fails.
**`Service`** composes `Reloader` and `Facade`: `Wait`, `Decorate`, `ReadHost` and
`ReadCenter` are the start of a Lawgenesis service, which then becomes a facade
(`said` is the server's configuration when it began to read it);
`Arrive`, `Limit`, `Lookup`, `Execute` and `Store` are what `@methods` wraps
around a business function, `Expire` and `NextWindow` the passing of time. The fixed window
counts against the quota as `quate` makes it (`QuotaOf`), the library's other strategies
refuse and admit as they like.

**`Logging`** models `_LoggerFactory.set_config` (`SetConfig`, then `ClearHandlers` and
`AddHandler` under the lock), a thread that logs (`Find` the handler, `Put` into its
queue), the thread of each `LokiQueueHandler` (`CheckStop`, `GetRecord`,
`GetTimesOut`, `Posted`) and `stop` (`Stop`, `Joined`, `Drain`). `posting` is
the copy of a batch that is being uploaded. Handlers are never forgotten: a logger
that is configured again leaves the old handler's thread running.

`MC...` modules give values to the constants; the modules that end in `_proofs`
hold the proofs.

## The runs

| run | question | states |
|---|---|---|
| `flow_control` | are streams never stranded, does a set event mean "sent", what can end the writer | 3,717,000 |
| `outbound` | are responses complete before their trailers, do trailers follow, is `ResponseStream` implemented | 105,000 |
| `inbound` | does a listener see its frames in order and one at a time, is credit returned, is no frame stuck | 476,000 |
| `server_call` | is a request given to its method in order and to its end, has every method that ended answered once and in form | 4,490,000 |
| `client_call` | is a result the server's, completed once, and is every end the server sends reported | 144,000 |
| `connection` | has a client one connection at a time, is `is_connected` true when the loop is idle, does `close` end it, does it recover from a silent or closing peer, does an answer reach its call | 547,000 |
| `exchange` | does the client report the server's status, and no success that is not the server's | 23,000 |
| `directory` | is no open invoker lost, is `InvokerTable` implemented, has the table in the end the URLs of the registry | 1,054,000 |
| `balance` | does a caller get an invoker, not only a URL, of the list it read | 1,550,000 |
| `registry` | is who serves registered, is no change of the nodes missed, does the consumer learn of them | 111,000 |
| `service` | is what is built of one configuration, however the threads interleave, is what is exported registered where it listens and found there, is a service served as its configuration says, is a cache hit an answer, are reloads taken in | 1,172,000 |
| `logging` | is every record in one place and in order, does the logger follow its configuration, do the queues empty | 174,000 |

All of them pass.

Bounds. Two streams are enough for everything that depends on competition:
a parked and a served stream, a release order, a writer stopped by another
stream. Windows of one or two bytes and two or three bytes of data per stream make
every window run out and every write meet the cases nothing/part/all; SETTINGS of +1 and -2
open a window without an update and make one negative. Two workers are enough
for two frames of one stream to overlap if the protocol let them; three frames
give headers, data and an end or a reset. Symmetry is used only where no
temporal property is checked. `server_call` has a unary and a bidirectional call
on one method thread, so that one waits for the other; requests of one or two
messages, one of them empty, refused or malformed, cut at any byte; a queue of one, so
that it is full at the second message or at the end; three reads, which go
beyond the end of a request. `client_call` has three messages each way and a
queue of two, and stops after two resets posted by one listener. `connection`
has three connections, hence two losses and two reconnections, so that a task, a heartbeat
or a `close` meets a connection that is not the one it began with, and two attempts,
the first of which is not the last; or two connections (`MaxCalling`) and two calls, which are alike, so that one is
the first to begin, of a client nobody closes meanwhile: ids of one connection meet those of another in the shared table.

`exchange` has names of one segment and of two, two services of one name (the second hides the first), an
encoding that nobody registered, HTTP statuses of every class and one that
`HttpStatus` does not know, statuses in and out of gRPC's. `directory` has two
URLs, so that one is kept while the other comes or goes, both threads, a change
between two notifications and one refused connection; six invokers are more than
two tables and two threads can hold. Symmetry of the URLs would be unsound there,
as it would be wherever a temporal property is checked. `balance` has three
providers, hence rings that share one, none or all of their nodes, and four
steps of the directory: an invoker is replaced under the same URL. `registry` has five faults,
which are a crash, its restart on the old node, a lost session and two
suspensions. `service` explores seven scenarios apart (`Scenarios`), since their
product is out of reach: an edit of the file while the service starts and runs,
with and without configurations that the process had read before, to contents that have
both keys of the server's, one of them, or the other without a value; the service
beside a client that constructs `Dubbo` with another registry and application;
two calls of two users, one with a fixed window, with one cache key; and, without a
service, two servers of different registries, a server and the client that looks for it, and two servers and a client that
reuses what is there, with registries that have a version, have none, or are not given. Each
server may be started twice, so that its handlers are wrapped twice; the service, once.
`MCSpec` of `MCConnection` and of `MCService` are the specifications with the last of these bounds in their
next-state relations; none of them blocks an action that fairness is about.
`logging` has one thread that logs, two that configure, with or without Loki,
batches of two and a stop. `CHECK_DEADLOCK FALSE`: streams, calls and bounded
histories end, and the system stops.

Fairness. The event loop resumes a coroutine that is ready and runs posted
callbacks; the thread pool starts queued work; a listener returns or raises (the
listeners of this program put into queues and complete futures); the two threads
of a client's call take the steps they are in the middle of; a peer that
acknowledges what it receives keeps opening windows. Callers, servers, methods, resets, SETTINGS
and the loss of the connection are never forced. In `Connection` the loop runs what is ready, timers
fire, an attempt to connect ends, a transport that closes is lost (what is
left in its buffer, a GOAWAY, fits the socket), and a constructor or `close` that
began goes on; nobody has to close. `server_call` checks safety only:
that a method waiting for its request is woken is the invariant `EndIsSeen`.
In `Directory` the subscriber's thread and the timer's go on, and the timer fires
for ever; in `Registry` a process that exports goes on, ZooKeeper expires what is gone and
kazoo delivers events and reconnects, but no provider has to start; in `Service` the
configurations' event loop runs what is ready and its listeners poll; in `Logging`
the uploaders' threads run, whose waits and requests all have timeouts. `Balance`
and `Exchange` check safety only.

What the client's run shows besides: a unary call is completed a second time,
which raises in the thread that does it, when its message cannot be serialized
and the server answers at the same time (`CompletedOnce` excepts exactly that);
every end that the server sends, trailers with any status, after headers that were valid, invalid or
missing, and resets, is reported, unless the listener itself raised before it had a
status, on a malformed frame or when the read stream was full (`ListenerLost`, which
`CallEnds` excepts); END_STREAM on a DATA frame without trailers is not looked at
(`client_stream.py:165`), and such a call is never completed. A failed stream ends with
EOF at its reader: the exception is raised in the listener's thread.

What the connection's run shows besides: `close` is lost in three races with the
loop, which `faults` names and `CloseEnds` excepts. It returns at once while a reconnection goes on
(`closed` is set by every loss); a reconnection that succeeds resets
`_active_close` after `close` has set it, so that the loss that `close` causes is
repaired; a constructor whose first connection was lost and replaced before it
set `_protocol` puts the dead connection back, and `close` closes that one. No other interleaving loses it.
`Recovers` holds because a heartbeat that hears nothing for its interval pings.
All of this is of a process whose logger is whole. Once `_LOGGER.info` is overwritten, a reconnection that
succeeded is followed by another one until `ReconnectTimes` attempts are used up, several connections
are live, and the loss of one makes `_connected` false while another is up: `OneConnection`
says nothing from then on, and of `ConnectedIsTrue` remains that a client which says it is connected is.

Where the code departs from what its callers may expect. The models do what the code does;
these are the places a reader should know, with the module that has them.

- Streams. END_STREAM with a window of zero leaves before the data that is still
  buffered (`controllers.py:157`, `FlowControl`); a cancel is dropped while its stream has no id
  (`controllers.py:341`, `Outbound`); trailers without data wait for the event the controller
  was made with, which nobody sets (`controllers.py:384`); frames after END_STREAM, a reset in particular, never
  reach the listener (`controllers.py:257`, `Inbound`). A server takes the trailers of a
  request for the headers of a new one and registers a new stream over the old
  (`stream_handler.py:170`), whose method waits for ever (`Inbound`). Ids start again on a new
  connection, and a callback of the old one may replace a stream that is
  registered (`protocol.py:189`, `stream_handler.py:70`, `Connection`).
- Statuses. A plain-text refusal carries its status in the HTTP status only; an HTTP
  status that `HttpStatus` does not know raises in the listener; trailers without headers
  complete the call twice, and the first counts (`Exchange`). The kinds of call at
  the two ends are never compared. Outside the model, which has no attachments: their
  `content-type` replaces that of an answer of trailers alone, and a method's
  `tri_rpc_status` stays among them, since another key is removed (`streams.py:193`).
- The logger. The first rebuild of a hash ring that comes to its end assigns a string to the
  method `info` of the one logger of the package (`loadbalances.py:166`, `Balance`). Each later
  call raises: after a first connection, so that its constructor fails over a connection that
  stays (`aio_transporter.py:104`); after a reconnection, inside the `try` (162), so that a success is taken for a failure, and
  after `RECONNECT_TIMES` successes the client gives up as not connected (`Connection`); and in a reload
  of the configuration. `Directory`, `Facade`, `Reloader` and `Service` model a process in which it has not happened.
- Facades. The constructor of the `Dubbo` singleton runs again for everybody who calls it;
  `_check_default` reads both configurations of the singleton again for each use, without a
  lock (`bootstrap.py:95-100`), so that another application's version may get into a
  registry configuration, and one replaced by None raises; `Client` and `Server` read its registry twice (`Facade`). A `Server` that failed to
  bind and is started again wraps its handlers once more, and raises from then on.
- Directory and registry. A notification that fails in the middle leaves a table that
  is not the one it was given, until the next one; two that overlap lose invokers
  (`InvokersAccounted` says which). The timer gives the table the URLs of the registry again; an invoker that
  an overlap destroyed and left under its URL is not repaired, since `notify` keeps what is listed under a URL. The hash ring
  is kept while the URLs are the same (`loadbalances.py:168`): a provider that left and returned between two selections has a
  new invoker, and the ring the destroyed one (`Balance`, `renewed`). A node taken over from a process that is gone
  disappears with that process's session, and its new server stays unlisted (`Registry`).
  The monitor's thread ends in its first round (`Balance`).
- Configuration. A reload assigns only the keys that the content has (`lawgenes_config.py:107`): what an edit takes out keeps
  its value, and a service may listen as one version says and register where an earlier one said
  (`Reloader`, `Service`). The limiter passes amount and multiple to `quate` in the other order than it declares them
  (`limit/_interface.py:38`, 82): a user is admitted as often as the multiple says, in a window of as many seconds as the amount,
  which `lawgenes_config.py:269` calls the quota (`Service`).
- Logging. A logger that is configured again leaves the uploader of the old handler
  running, and nothing in the package calls `stop`.

## The proofs

Every invariant that a run checks but `AnswersOwn`, and the two refinements, are proved here for all
values of the constants, each from the assumption that types the constants
(`...Assumption`) and no other unless it says so. The type invariants, those of
`FlowControl` called `Located` and `Conserved`, `RequestWellFormed` of
`ClientCall`, `OwnIsServed` of `Exchange` and `TableFollows` of `Directory` are proved and not run. A proof module extends the modules of one subject;
where it extends several, their specifications have names of their own
(`ExchangeSpec`, `BalanceSpec`, `RegistrySpec`, `ServiceSpec`).

### Flow control

`FlowControl_proofs` proves invariants of `FlowControl` for every finite set of
streams, every initial window, every bound and every set of SETTINGS changes.
The only assumption is `FlowControlAssumption`, the types of the constants.

| theorem | establishes, as `Spec => []...` |
|---|---|
| `TypeCorrect` | the type invariant `TypeOK` |
| `LocatedCorrect` | `Located`: a stream with an item is queued once or parked, never both |
| `ConservedCorrect` | `Conserved`: bytes taken are on the wire or buffered, once each |
| `EventMeansSentCorrect` | `EventMeansSent`: the event of the last write says its bytes left |
| `NoLostWakeupCorrect` | `NoLostWakeup`: a parked stream has no window it could use, unless SETTINGS raised one |
| `FailureHasCauseCorrect` | `FailureHasCause`: the writer ends only through the peer or a truncation |

The argument. `TypeOK`, `Located` and `Conserved` are inductive one after the
other. `EventMeansSent` is not: from a state in which the last event is set
while the item is still held, or in which an older event has the number of the
last write, one step breaks it. Two invariants exclude such states.
`Numbered` says that a stream's events are numbered by its writes, and an item's
event is that of its last write. `Closing` says how a stream closes: a reset
closes it locally; an item that is held on a locally closed stream was reset;
the event of the last write is set only when nothing is held or the stream was
reset; END_STREAM has closed the stream locally, or left while data was still
held. Then a set event means no item, no item means no data, and `Conserved`
gives `sent = accepted`. `FailureHasCause` adds `Windows`: the connection's
window is never negative and a stream's window is negative only after SETTINGS
shrank it. h2 refuses a write for one of four reasons (`Cause`): the peer reset
the stream, a local reset (excluded, the turn would have seen the stream closed),
END_STREAM already sent (excluded unless data was left: truncation), or more
than the window (excluded unless the window is negative). `NoLostWakeup` is
inductive with `TypeOK`: only a window update can give a parked stream credit,
and it unparks it; SETTINGS are recorded in its hypothesis.

### The sending side of a stream

`Outbound_proofs` proves invariants of `Outbound`, and that it implements
`ResponseStream`, for every finite set of streams and of rivals among them, both
sides, any windows and amounts of data. It uses the proofs of `FlowControl` through
an instance.

| theorem | establishes |
|---|---|
| `TypeCorrect` | `Spec => []TypeOK` |
| `FlowImplemented` | `Spec => Flow!Spec`: the controllers use the flow controller as `FlowControl` assumes of its callers |
| `FlowKept` | `Spec => [](Flow!Conserved /\ Flow!EventMeansSent /\ Flow!NoLostWakeup)` |
| `CompleteResponseCorrect` | `Spec => []CompleteResponse`: a response that ended without a reset has all its bytes on the wire |
| `ImplementsCorrect` | `Spec => Implements`: every step is one of `ResponseStream`, or changes nothing in it |

The argument. `FlowControl` restricts its callers: nothing is written after
END_STREAM, trailers wait for the event of the last write, a stream is reset once.
`Controllers` says why the controllers keep to that, per stream: what was given and
not yet accepted is in the callbacks and the data queue, in order (`Bytes`); headers come first and
start the coroutine (`Headed`); once the sentinel of the trailers is queued,
or behind it, nothing more is given (`Ordered`); the event the coroutine waits for
is that of the last write (`Flags`); a stream is cancelled once (`Resets`).
`StepOf` gives every step as one stream sees it, so that each part is proved
stream by stream. With `FlowImplemented` the theorems on `FlowControl` hold of the
composition, and `CompleteResponse` follows (`Ended`): trailers leave when the
event of the last write is set, hence all that was accepted is sent, and by
`Bytes` and `Ordered` all that was given was accepted. The refinement maps the
state of a server's streams and goes stream by stream (`ResponseStep`).

### The server's calls

`ServerCall_proofs` proves invariants of `ServerCall` for every set of calls and
their types, any requests, any number of method threads, any queue size and bounds. It
assumes `ServerCallAssumption`, the types of the constants, and
`RequestsAreMessages`: a request is a sequence of messages, each a flag and a
payload of bytes.

| theorem | establishes, as `Spec => []...` |
|---|---|
| `TypeCorrect` | `TypeOK`; a read stream never exceeds its queue |
| `GivenInOrderCorrect` | `GivenInOrder`: a method is given the messages of its request in order, and the end after the last |
| `EndIsSeenCorrect` | `EndIsSeen`: no method waits for an end that has passed |
| `EndedIsAnsweredCorrect` | `EndedIsAnswered`: a method that returned or raised left trailers |
| `AnswerWellFormedCorrect` | `AnswerWellFormed`: headers first, trailers last, each once |

The argument. `Typed` is stronger than `TypeOK`: a decoder that waits for a header
requires exactly its length, so that the header it cuts has five bytes, and what it cuts from
bytes is bytes. `EndIsSeen` needs `EndFlagged`: the flag is set before the
listener is done, so a method that goes on to wait has seen it unset and finds
what is put later. `EndFlagged`, `EndIsSeen` and the types are inductive together
(`Reading`). The two properties of the answer follow from one invariant,
`Answering`: a call that is not completed has an answer that can be added to
(headers first, no trailers), a completed one has its trailers, nothing is answered before the
method runs, and a method at its end is completed. A step is one call's,
so it is enough to look at that call (`OnlyOne`).

`GivenInOrder` compares what a method was given with what the whole request means.
`Follows` is its invariant: while the listener is at work there is a number `k` such that the method has
been given the first `k` messages of the request (without the refused ones), and
what the decoder has accumulated, with what is still on the wire, are exactly the
bytes left after `k` messages, less a header that has been decoded already.
A turn of the decoder then cuts the next message, and no bytes are
left exactly after the last. `EofLast` says that the end is the last thing that is
put and the last that is read. What the joined bytes of a list of messages are is
proved of `FlattenSeq`, whose fold is a recursive function, by the least number
for which a statement would fail (`Least`, `Induction`).

### A call from end to end

`Call_proofs` proves invariants of `ClientCall` for every kind of call, any
numbers of messages and resets, and any queue size, and of `Exchange` for all names,
services, encodings and statuses, from `ClientCallAssumption` and
`ExchangeAssumption`, the types of the constants.

| theorem | establishes, as `Spec => []...` or `ExchangeSpec => []...` |
|---|---|
| `TypeCorrect` | `TypeOK` of `ClientCall`; the read stream never exceeds its queue |
| `CompletedOnceCorrect` | `CompletedOnce`: two threads without a lock complete a future once, unless a message could not be serialized |
| `RequestWellFormedCorrect` | `RequestWellFormed`: headers first and once, only resets after the last message |
| `ResultIsServersCorrect` | `ResultIsServers`: a result comes with trailers that say OK and with every message deserialized |
| `StatusIsReported` | `StatusReported`: a call that was answered and not reset is completed with the server's status |
| `SuccessIsServers` | `OkIsServers`: OK is reported only when the method ended with OK |
| `OwnRequestsAreServed` | `OwnIsServed`: the package's own requests are refused only when there is no such method |

The argument. `Sole` says why a check of `_done` that is not atomic with its
assignment is harmless while every message can be serialized: the caller is then never
about to end the call, so what the listener read stays true until it acts, and
a future it is about to complete is pending. The moment a message cannot be
serialized the invariant says nothing, and the run shows the second completion.
`Posting` says that everything but `send_message` happens after the
headers were posted (the listener has left its first place, the server has
answered, the caller is cancelling), and that a caller in the middle of a write
has not ended its writing. `Serving` follows a message from its frame to the
result: status OK comes from trailers alone, after which the server is silent; while the call is
not done and no message is in hand, all messages were deserialized and the last one is kept;
and the listener completes the call only out of that state.

In `Exchange`, `AnswerInv` says what is on the wire and what the listener has made of
it, by who answered: the method, with headers and messages before the trailers or without
(`MethodAnswer`), a refusal in trailers alone (`RefusedAnswer`), plain text or a proxy
(`OtherAnswer`: no status of gRPC, and no HTTP status stands for OK), or a reset.
In each the listener is between two frames of that answer, and only the last one
ends the stream. `RequestInv` keeps the verdict beside the request it was about.

### A consumer: its connection and its choice of an invoker

`Consumer_proofs` proves invariants of `Connection` for every finite set of
calls and any bounds of connections and attempts, and of `Balance` for any
callers and any number of invokers and of steps of the directory, from `ConnectionAssumption`,
`InvokerTableAssumption` and `BalanceAssumption`, the types of the constants.

| theorem | establishes, as `Spec => []...` or `BalanceSpec => []...` |
|---|---|
| `TypeCorrect` | `TypeOK` of `Connection`; ids stay within the table of streams |
| `OneConnectionCorrect` | `OneConnection`: no two connections are live, as long as the logger is whole |
| `ConnectedIsTrueCorrect` | `ConnectedIsTrue`: when no task that writes it is due, `_connected` is never true without a connection, and as long as the logger is whole, never false with one |
| `BalanceTypesHold` | the types of `Balance` over the abstract table |
| `CallsAreRouted` | `RoutedToListed`: a caller gets an invoker of the list it selects from, with the exceptions it names |

The argument. `Typed` adds to `TypeOK` that connections to come have no state.
That ids fit the table
is a fact about cardinalities (`IdsAreEnough`): a call without an id is not
among those counted for the next one. `OneConnection` becomes inductive as `Sole`, whose body (`OneAtATime`) is claimed until the logger is overwritten: a
live connection, a loss the client has not heard of (a `lost` task), and an attempt
to connect exclude each other, and there is at most one loss unheard. An
attempt then begins only where nothing is live, and a connection made by it is alone.
`Due` is the invariant of the tasks: what sets `_connected` comes before a loss that is
due; without a loss, a live connection has set it or is about to, and a connection that
is gone leaves nothing behind that would; a stop follows the last loss. It, too, is
claimed until the logger is overwritten; `Backed` is what remains: a task that will set `_connected` has a connection behind it that
is live or whose loss comes later, and a client that says it is connected has one that is live or a loss it has not heard of.

The callers of `Balance` share the ring without a lock. `AllServe` says that an invoker
is listed under its own URL in the table, on the ring and in every list.
`Ringed` says when the ring is a caller's own: while no other
has disturbed its rebuild, or as long as the ring is not the work of two (`mixed`), in which
case only one caller rebuilds at a time. What a caller has selected then serves a URL
of its list (`Routed`) unless it was disturbed; and since of the invokers that the table, the ring
and the lists hold, one serves a URL that was not renewed (`Unique`), it is the list's own invoker.

### Frames of a stream

`Inbound_proofs` proves invariants of `Inbound` for every set of streams, any number
of workers and of frames, with and without frames that make a listener raise.

| theorem | establishes, as `Spec => []...` |
|---|---|
| `TypesHold` | `TypeOK` |
| `FramesOneAtATime` | `OneAtATime`: no two threads are in a stream's listener, and a frame is acknowledged before the next starts |
| `FramesInOrder` | `InOrder`: a listener sees the frames received, in order, without a gap |

The argument. Nothing locks a listener; what keeps the pool's threads apart is that the
coroutine waits for an acknowledgement between two frames. `Single` says so: a
frame that has left its queue is in one place (the pool, a thread, an
acknowledgement), alone of its stream, and the coroutine is not taking the next one.
That holds only as long as every acknowledgement wakes the right coroutine, hence
`Gone` (after a frame that ends the stream the coroutine is done, and nothing follows) and
`Remembered` (a stream the registry forgot is closed, or has an heir that is registered in its place, so that no
acknowledgement misses its stream). `Numbered` follows the frames: those delivered, the one in the
pool and those queued have the numbers from 1 to that of the last one received;
order is then a matter of positions. A stream whose place was taken receives nothing more, and what its listener has seen holds no end
(`Unended`): `InOrder` says of it that it saw a beginning. `Charged` bounds the DATA frames that are on
their way by what h2 still counts as unacknowledged, so that an acknowledgement never
returns more than was taken.

### The directory

`Discovery_proofs` proves invariants of `Directory`, and that it implements
`InvokerTable`, for every finite set of URLs and any number of invokers, of changes and of
refused connections; the two threads that notify are those of the subscriber.

| theorem | establishes |
|---|---|
| `TypesHold` | `Spec => []TypeOK` |
| `AllAccounted` | `Spec => []InvokersAccounted`: an open invoker is in a table a thread holds, or was lost in a way that is named |
| `TableIsFollowed` | `Spec => []TableFollows`: after a notification that ran alone, the table has its URLs |
| `TableIsImplemented` | `Spec => ImplementsTable`: every step is one of `InvokerTable`, or changes nothing that a reader sees |

The argument. `Shape` says what a thread has at its place in `notify`: the
dictionary it replaces is not the current one once it has made a new one.
`Keyed` says that an invoker is listed under its own URL in every dictionary,
`Solo` that a notification that began alone is still alone. `Following` is the loop
invariant of `notify`: the URLs in the table, those to do and the one being referred
are the notification's. `Apart` says, while no two notifications overlapped, that
the new table and the old one share no invoker: in the first loop (`Filling`) what the old one still
has is open, and in the second (`Disposing`) it is open exactly if it is yet to be
destroyed. Without `Apart` the second loop might destroy an invoker that callers
select. TLC checked the invariant before it was proved. The refinement goes action by
action: `NotifyRead` is `Overlap` if another notification runs and nothing otherwise,
`NotifyReset` is `Clear`, `Move` is `Keep`, `Refer` is `Connect`, `Destroy` is `Destroy`,
the end of a notification, by itself or by an exception, is `Forget`, and the rest stutters.

### The registry

`Discovery_proofs` proves invariants of `Registry`, too, for every finite set of providers and any
number of faults.

| theorem | establishes, as `RegistrySpec => []...` |
|---|---|
| `RegistryTypesHold` | `RegistryTypes` |
| `Registered` | `ServingIsRegistered`: who serves owns its node, unless it took one over or lost its session |
| `NoWatchLost` | `NothingMissed`: a consumer knows the nodes there are, or is about to be told |

The argument. `Owned` extends the first property back to the moment of the
registration: a process owns its node before it binds its port. For the second,
`Watching` says that an established watch has fired, or is armed for exactly the children
the consumer was last given; ZooKeeper arms a watch in the same step that reads the
children, so nothing changes in between.

### The log

`Lawgenesis_proofs` proves invariants of `Logging` for every set of threads that log
and that configure, all configurations and any sizes of queues and batches.

| theorem | establishes, as `Spec => []...` |
|---|---|
| `ConfigFollowed` | `FollowsConfig`: when nobody is configuring, the logger has the handler of the last configuration |
| `RecordsKept` | `KeptInOrder`: a record is sent, on its way, dropped or discarded, once, and records stay in order |

The argument. `set_config` assigns without a lock and refreshes under one, so the
thread that assigned last need not refresh last. `ConfigInv` says why that does no
harm: the lock is held between the two steps of a refresh (`LockHeld`), meanwhile there is no
handler, and unless some thread has assigned and not yet refreshed, the
configuration taken by the one that holds the lock is the current one (`Latest`).
For the records, `OnePost` says that a copy of a batch exists only
while its handler's thread posts it, so that the next copy overwrites nothing, and
`InPlace` is stated over the concatenation of what a handler sent, posts, has
batched and has queued: its steps move records from one part to the next (which leaves
the concatenation alone), append one, or cut one part away into `discarded`.

### The service

`Lawgenesis_proofs` also proves invariants of `Service` with `Facade` and `Reloader`,
for any clients and servers with any configurations, any files and edits,
and any calls, users and cache keys, from `ReloaderAssumption`, `FacadeAssumption` and
`ServiceAssumption`, the types of the constants.

| theorem | establishes, as `ServiceSpec => []...` |
|---|---|
| `BuiltAsConfiguredCorrect`, of `FacadeSpec` | `BuiltAsConfigured`: a facade uses one configuration some thread gave, its own unless another thread interfered |
| `ExportedIsReachableCorrect`, of `FacadeSpec` | `ExportedIsReachable`: a registered server listens where it is registered |
| `ClientFindsServerCorrect`, of `FacadeSpec` | `ClientFindsServer`: a client of the same registry and group finds the socket of an exported server |
| `ServiceFacadesCorrect` | the three, of the facades of a process that runs a service |
| `ServedAsConfiguredCorrect` | `ServedAsConfigured`: a service is what the configuration it found says, in all that it says |
| `HitIsAnAnswerCorrect` | `HitIsAnAnswer`: a cache hit is the answer of a call with the same key |

The argument. `MadeInv` is about every thread, disturbed or not: whatever registry configuration is in use, in
the singleton or in a thread's hands, was made by a thread that had begun, of the text that
thread gave, with its own version or one of an application; `StoreVersion`, the one step that writes into another
thread's configuration, writes the version of some application. `BuildInv` follows a facade while it is built and undisturbed:
the singleton has the application, then the registry, that its thread gave it, at each of the steps of
`_check_default`, and the version that is stored is its application's. Whoever assigns to the singleton, or
to its configuration, disturbs the facade. Both need that nothing but a constructor changes a plan
(`PlanKeeps`), except that of a service, before it begins. The lemmas on `Url` carry what a text says through the parsing, the
configuration and the URL made of it, a client's merged parameters included. `ExportInv`: a server that has registered has its
`Entry` among the names, one that is exported its own socket; neither URL nor protocol changes
after `Build`.

`LoadInv` says what the attributes are of. An attribute is of a content that had a key for it, or of none
(`Sourced`); a configuration that has been loaded has, for each key of its content, the
value of that content, except the attributes that are still being assigned (`AsSaid`, `Adopted`,
`Loaded`). Hence the two reads of a start that waited, with no reload between them, are as
the content found (`said`) says, or as an earlier one said where it has no key
(`HostRead`), and the plan of the service is made of them (`CenterRead`). A start that did
not wait may find the loader anywhere, which is why `Waited` is about those that did. The
plan changes under a facade that has not begun (`Idle`). For the cache, a call
keeps its key from its arrival and its reply once it has one, so what is stored
under a key stays an answer to it (`Stored`).

### Only model-checked

The liveness properties, among them `TrailersFollowData` of `Outbound`: fairness and
ENABLED are beyond the prover. `AnswersOwn` of `Connection`. What recursive definitions
compute in general. The type invariants of `Exchange` and `InvokerTable`
as such: the invariants above type what they need.

## Plan

1. Done: flow control, outbound and inbound streams.
2. Done: `TriDecoder` and `ServerCall` (framing, listener thread, read stream,
   method runner, answer).
3. Done: `ClientCall` (caller and listener threads, future and read stream), and
   `Exchange` (headers and statuses from end to end).
   Left: the abstract promise "every call is answered once" for both sides.
4. Done: `Connection` (AioClient: connect, close, loss, reconnection, heartbeat).
   Left: what a loss does to the calls on the connection.
5. Done: `Directory` over `InvokerTable`, `Balance`, `Registry`.
6. Done: `Url`, `Facade`, `Reloader`, `Service`, `Logging`.
7. Proofs. Done: every invariant that a run checks but `AnswersOwn` of `Connection`, and the refinements of
   `ResponseStream` and `InvokerTable`. Left: the lemmas the proofs share (an
   operation put at the end of a queue, a head that is taken) stated once.

## Not modelled

HTTP/2 and calls: how a chunk is cut into frames of the maximum size (all frames of a
chunk leave in one step), HPACK, padding, PRIORITY, push; the contents of messages.
Serialization and compression are calls that succeed or raise. Reads with a timeout. In
`ClientCall`, how messages are cut into DATA (`ServerCall` has it), and what
`invoke` refuses before it starts a call. What the loss of the connection does
to calls: nothing tells them, and a call without a timeout waits. GOAWAY of a
peer that keeps the transport open. `AioServer.close`, which nothing calls (`Facade` has its
listening socket and its failure to bind).

Registries and configuration: the Nacos configuration centre, and `register` and the
heartbeat of the Nacos registry, which are calls of the Nacos client's own threads (a URL keeps ip and
port of an instance, as in the code);
the environment variables that replace the address of a registered URL; `unregister`,
`unsubscribe`, `remove` and the data listeners of ZooKeeper, which have no caller.
Load balancing: the CPU figures, the weights of a random choice (any listed
invoker may be chosen) and the calls of the monitor. Lawgenesis: the limits kept in
redis, the notifications of errors, the client, which makes a new `Client` on every
access and keeps no state. Logging: console and file handlers, formatters, the attempts of a post,
which are one step that succeeds or gives up. Generated protobuf code has no behaviour.
