------------------------------ MODULE Logging ------------------------------
(***************************************************************************)
(* The logger (loggers.py) and its Loki uploader (monitor/loki.py):        *)
(* threads that log, threads that configure the logger while they do, and  *)
(* for every handler ever made a queue with a thread of its own that       *)
(* uploads batches.                                                        *)
(*                                                                         *)
(* Of the handlers only the Loki one has a state worth keeping. A record   *)
(* is its number; what the filter and the formatters write into it is left *)
(* out. Threads that only wait (get with a timeout, time not up) do not    *)
(* step.                                                                   *)
(***************************************************************************)
EXTENDS Naturals, Sequences, FiniteSets, SequencesExt

CONSTANTS
    Threads,        \* threads that log
    Admins,         \* threads that each configure the logger once
    Settings,       \* the configurations they may give it
    WithLoki,       \* those that enable the Loki handler
    Initial,        \* the configuration the logger was first made with, which does, too
    NoHandler,
    BatchSize,      \* LOG_BATCH_SIZE
    MaxRecords,     \* bound of the records
    MaxStops        \* bound of the handlers that the application stops

ASSUME LoggingAssumption ==
    /\ WithLoki \subseteq Settings /\ Initial \notin Settings
    /\ BatchSize \in Nat \ {0} /\ MaxRecords \in Nat /\ MaxStops \in Nat
    /\ NoHandler \notin {Initial} \cup Admins /\ Initial \notin Admins
    /\ "nobody" \notin Admins

VARIABLES
    \* _LoggerFactory
    config,         \* _config
    lock,           \* the owner of _logger_lock
    admin, taken,   \* of each thread in set_config: its step, the configuration it took
    handler,        \* the Loki handler in the logger's list, named for who made it
    \* the threads that log
    emitting,       \* the handler a thread with a record found
    logged,         \* number of records that reached a queue
    \* of each handler ever made
    url, queue, batch, posting, uploader, stopping,
    sent, dropped, discarded

configVars == <<config, lock, admin, taken, handler>>
threadVars == <<emitting, logged>>
queueVars == <<queue, batch, posting, sent, dropped, discarded>>
uploaderVars == <<url, uploader, stopping, queueVars>>
vars == <<configVars, threadVars, uploaderVars>>

\* A handler is named for the configuration thread that made it; the first one
\* was made when the logger was.
Handlers == {Initial} \cup Admins
Nobody == "nobody"
Loki(c) == c \in WithLoki \cup {Initial}

Init ==
    /\ config = Initial /\ lock = Nobody /\ handler = Initial
    /\ admin = [a \in Admins |-> "idle"] /\ taken = [a \in Admins |-> Initial]
    /\ emitting = [t \in Threads |-> NoHandler] /\ logged = 0
    /\ url = [h \in Handlers |-> Initial]
    /\ queue = [h \in Handlers |-> <<>>] /\ batch = queue /\ posting = queue
    /\ uploader = [h \in Handlers |-> IF h = Initial THEN "checking" ELSE "none"]
    /\ stopping = [h \in Handlers |-> "no"]
    /\ sent = queue /\ dropped = {} /\ discarded = {}

----------------------------------------------------------------------------
(* set_config *)

AdminStep(a, from, to) == admin[a] = from /\ admin' = [admin EXCEPT ![a] = to]

SetConfig(a, c) ==
    /\ AdminStep(a, "idle", "assigned")
    /\ config' = c
    /\ UNCHANGED <<lock, taken, handler, threadVars, uploaderVars>>

NoLock == TRUE      \* Mutation
LockIsFree == lock = Nobody

\* _refresh_config takes the lock, _update_logger empties the list of handlers and
\* takes the configuration.
ClearHandlers(a) ==
    /\ AdminStep(a, "assigned", "cleared")
    /\ LockIsFree /\ lock' = a
    /\ handler' = NoHandler
    /\ taken' = [taken EXCEPT ![a] = config]
    /\ UNCHANGED <<config, threadVars, uploaderVars>>

\* _get_loki_handler reads the configuration once more. The new handler starts the
\* thread of its own; nobody stops the thread of the old one.
AddHandler(a) ==
    /\ AdminStep(a, "cleared", "done")
    /\ lock' = Nobody
    /\ IF Loki(taken[a])
       THEN /\ handler' = a
            /\ url' = [url EXCEPT ![a] = config]
            /\ uploader' = [uploader EXCEPT ![a] = "checking"]
       ELSE UNCHANGED <<handler, url, uploader>>
    /\ UNCHANGED <<config, taken, threadVars, stopping, queueVars>>

----------------------------------------------------------------------------
(* Logging: a thread with a record finds the handler, then the handler puts the record
   into its queue. A thread that finds none logs to the other handlers only. *)

Find(t) ==
    /\ handler # NoHandler /\ emitting[t] = NoHandler
    /\ emitting' = [emitting EXCEPT ![t] = handler]
    /\ UNCHANGED <<configVars, logged, uploaderVars>>

Put(t) ==
    /\ emitting[t] # NoHandler /\ logged < MaxRecords
    /\ queue' = [queue EXCEPT ![emitting[t]] = Append(@, logged + 1)]
    /\ logged' = logged + 1
    /\ emitting' = [emitting EXCEPT ![t] = NoHandler]
    /\ UNCHANGED <<configVars, url, uploader, stopping, batch, posting, sent, dropped, discarded>>

----------------------------------------------------------------------------
(* LogUploaderThread *)

UploaderStep(h, from, to) == uploader[h] = from /\ uploader' = [uploader EXCEPT ![h] = to]

Copied(records) == records      \* Mutation
Cleared(records) == <<>>

\* upload_logs copies the batch and clears it before it is built and posted.
Upload(h, records) ==
    /\ posting' = [posting EXCEPT ![h] = records]
    /\ batch' = [batch EXCEPT ![h] = Cleared(records)]

\* The event is checked before the thread waits for a record.
CheckStop(h) ==
    /\ \/ /\ stopping[h] = "no"
          /\ UploaderStep(h, "checking", "waiting")
          /\ UNCHANGED <<posting, batch>>
       \/ /\ stopping[h] # "no" /\ batch[h] # <<>>
          /\ UploaderStep(h, "checking", "flushing")
          /\ Upload(h, batch[h])
       \/ /\ stopping[h] # "no" /\ batch[h] = <<>>
          /\ UploaderStep(h, "checking", "closed")
          /\ UNCHANGED <<posting, batch>>
    /\ UNCHANGED <<configVars, threadVars, url, stopping, queue, sent, dropped, discarded>>

GetRecord(h) ==
    /\ queue[h] # <<>>
    /\ queue' = [queue EXCEPT ![h] = Tail(@)]
    /\ LET records == Append(batch[h], Head(queue[h]))
       IN IF Len(records) >= BatchSize
          THEN UploaderStep(h, "waiting", "posting") /\ Upload(h, records)
          ELSE /\ UploaderStep(h, "waiting", "checking")
               /\ batch' = [batch EXCEPT ![h] = records]
               /\ UNCHANGED posting
    /\ UNCHANGED <<configVars, threadVars, url, stopping, sent, dropped, discarded>>

DueAtStop(h) == batch[h] # <<>> /\ stopping[h] # "no"       \* Mutation
Due(h) == batch[h] # <<>>

\* queue.Empty: after a second the event is checked again, after ten a batch goes.
GetTimesOut(h) ==
    /\ queue[h] = <<>>
    /\ \/ /\ Due(h)
          /\ UploaderStep(h, "waiting", "posting")
          /\ Upload(h, batch[h])
       \/ /\ stopping[h] # "no"
          /\ UploaderStep(h, "waiting", "checking")
          /\ UNCHANGED <<posting, batch>>
    /\ UNCHANGED <<configVars, threadVars, url, stopping, queue, sent, dropped, discarded>>

\* The server takes the batch, or the batch is dropped.
Posted(h) ==
    /\ \/ UploaderStep(h, "posting", "checking")
       \/ UploaderStep(h, "flushing", "closed")
    /\ \/ /\ sent' = [sent EXCEPT ![h] = @ \o posting[h]]
          /\ UNCHANGED dropped
       \/ /\ dropped' = dropped \cup ToSet(posting[h])
          /\ UNCHANGED sent
    /\ posting' = [posting EXCEPT ![h] = <<>>]
    /\ UNCHANGED <<configVars, threadVars, url, stopping, queue, batch, discarded>>

----------------------------------------------------------------------------
(* LokiQueueHandler.stop *)

StopStep(h, from, to) == stopping[h] = from /\ stopping' = [stopping EXCEPT ![h] = to]
Stops == {h \in Handlers : stopping[h] # "no"}

\* The application stops a handler it was given; this package never does.
Stop(h) ==
    /\ uploader[h] # "none" /\ Cardinality(Stops) < MaxStops
    /\ StopStep(h, "no", "joining")
    /\ UNCHANGED <<configVars, threadVars, url, uploader, queueVars>>

\* The thread has ended, or 15 seconds have passed.
Joined(h) ==
    /\ StopStep(h, "joining", "draining")
    /\ UNCHANGED <<configVars, threadVars, url, uploader, queueVars>>

Drain(h) ==
    /\ stopping[h] = "draining"
    /\ IF queue[h] = <<>>
       THEN StopStep(h, "draining", "done") /\ UNCHANGED <<queue, discarded>>
       ELSE /\ discarded' = discarded \cup {Head(queue[h])}
            /\ queue' = [queue EXCEPT ![h] = Tail(@)]
            /\ UNCHANGED stopping
    /\ UNCHANGED <<configVars, threadVars, url, uploader, batch, posting, sent, dropped>>

----------------------------------------------------------------------------
Configuring(a) == (\E c \in Settings : SetConfig(a, c)) \/ ClearHandlers(a) \/ AddHandler(a)
Uploading(h) == CheckStop(h) \/ GetRecord(h) \/ GetTimesOut(h) \/ Posted(h)
Stopping(h) == Stop(h) \/ Joined(h) \/ Drain(h)
Next ==
    \/ \E a \in Admins : Configuring(a)
    \/ \E t \in Threads : Find(t) \/ Put(t)
    \/ \E h \in Handlers : Uploading(h) \/ Stopping(h)

Spec == Init /\ [][Next]_vars

\* The uploader threads run: get, the request and the waits between its attempts have
\* timeouts.
FairSpec == Spec /\ \A h \in Handlers : WF_vars(Uploading(h))

----------------------------------------------------------------------------
(* Properties *)

TypeOK ==
    /\ config \in Settings \cup {Initial} /\ lock \in Admins \cup {Nobody}
    /\ admin \in [Admins -> {"idle", "assigned", "cleared", "done"}]
    /\ taken \in [Admins -> Settings \cup {Initial}] /\ url \in [Handlers -> Settings \cup {Initial}]
    /\ handler \in Handlers \cup {NoHandler} /\ emitting \in [Threads -> Handlers \cup {NoHandler}]
    /\ logged \in 0..MaxRecords
    /\ \A f \in {queue, batch, posting, sent} : f \in [Handlers -> Seq(1..logged)]
    /\ uploader \in [Handlers -> {"none", "checking", "waiting", "posting", "flushing", "closed"}]
    /\ stopping \in [Handlers -> {"no", "joining", "draining", "done"}]
    /\ dropped \cup discarded \subseteq 1..logged

\* All records on their way through a handler, the oldest first.
Held(h) == posting[h] \o batch[h] \o queue[h]
Through(h) == sent[h] \o Held(h)

\* Every record that reached a queue is in one place: uploaded, on its way, dropped
\* with a batch the server did not take, or discarded by stop; and a handler uploads
\* its records in the order they were logged, whoever else configures the logger or
\* empties the queue (loki.py 127-208, 234-249).
KeptInOrder ==
    /\ \A h \in Handlers : \A i, j \in DOMAIN Through(h) :
           i < j => Through(h)[i] < Through(h)[j]
    /\ LET kept == UNION {ToSet(Through(h)) : h \in Handlers}
           gone == dropped \cup discarded
       IN /\ kept \cup gone = 1..logged
          /\ kept \cap gone = {} /\ dropped \cap discarded = {}
    /\ \A g, h \in Handlers : g # h => ToSet(Through(g)) \cap ToSet(Through(h)) = {}

\* When nobody is configuring the logger, its handler is one of the last configuration
\* that was set, also when several threads set one at a time (loggers.py 125-178).
FollowsConfig ==
    (\A a \in Admins : admin[a] \in {"idle", "done"}) =>
        /\ handler # NoHandler <=> Loki(config)
        /\ handler # NoHandler => url[handler] = config

\* A record in the queue or the batch of a handler that is not stopped leaves it, also
\* when the logger has been given another handler (loki.py 168-200).
Delivered ==
    \A h \in Handlers :
        [](Held(h) # <<>> /\ stopping[h] = "no" => <>(Held(h) = <<>> \/ stopping[h] # "no"))
=============================================================================
