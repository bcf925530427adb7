----------------------------- MODULE Directory -----------------------------
(***************************************************************************)
(* The directory of a consumer (cluster/directories.py) and the Nacos      *)
(* subscriber that feeds it (registry/nacos/nacos_registry.py): the thread *)
(* that refers a service subscribes and is the first to notify the         *)
(* directory; from then on the Nacos timer notifies it again and again.    *)
(* Nothing keeps the two apart.                                            *)
(*                                                                         *)
(* A provider's URL is a member of Keys, str(url) is the identity on it.   *)
(* A dictionary of invokers is an object, not a value: notify keeps a      *)
(* reference to the one it replaces.                                       *)
(***************************************************************************)
EXTENDS Integers, FiniteSets

CONSTANTS
    Keys,         \* the URLs of the providers
    MaxInvokers,  \* bound of the invokers that exist at a time
    MaxChanges,   \* bound of the changes of what Nacos lists
    MaxRefused    \* bound of the connections that are refused

ASSUME DirectoryAssumption ==
    /\ IsFiniteSet(Keys)
    /\ MaxInvokers \in Nat /\ MaxChanges \in Nat /\ MaxRefused \in Nat

VARIABLES
    \* Nacos: the hosts of the service that are enabled
    registered, changes, refusals,
    \* NacosSubscriber
    subscribed,
    \* RegistryDirectory
    tables,      \* the dictionaries that some reference leads to
    current,     \* the one _invokers refers to
    thread,      \* what each thread that notifies is doing
    \* TripleInvoker: the URL of each, and whether it is open
    invokers,
    \* history
    overlapped,  \* two calls of notify ran at once
    refused,     \* a call of notify was cut short by a refused connection
    settled      \* the URLs of the last call that ran alone to its end, if no
                 \* call began since

nacosVars == <<registered, changes, refusals, subscribed>>
tableVars == <<tables, current, invokers>>
historyVars == <<overlapped, refused, settled>>
vars == <<nacosVars, tableVars, thread, historyVars>>

Notifiers == {"subscriber", "timer"}
Invokers == 1..MaxInvokers
None == 0
Tables == 1..(Cardinality(Notifiers) + 2)
Empty == [k \in Keys |-> None]
InTable(t) == {k \in Keys : t[k] # None}

Idle == [pc |-> "idle", old |-> None, todo |-> {}, key |-> {}]
Waiting == [Idle EXCEPT !.pc = "waiting"]
NoInvoker == [key |-> {}, state |-> "none"]
Blank(i) == invokers[i] = NoInvoker
Nothing == [known |-> FALSE, urls |-> {}]

Init ==
    /\ registered \in SUBSET Keys /\ changes = 0 /\ refusals = 0
    /\ subscribed = FALSE
    /\ tables = [t \in Tables |-> Empty] /\ current = 1
    /\ thread = [n \in Notifiers |-> IF n = "timer" THEN Idle ELSE Waiting]
    /\ invokers = [i \in Invokers |-> NoInvoker]
    /\ overlapped = FALSE /\ refused = FALSE /\ settled = Nothing

At(n, pc) == thread[n].pc = pc
Goto(n, pc) == thread' = [thread EXCEPT ![n].pc = pc]
Notifying(n) == thread[n].pc \notin {"idle", "waiting", "notify"}

\* A provider registers, leaves, is enabled or disabled.
Change(k) ==
    /\ changes < MaxChanges
    /\ registered' = IF k \in registered THEN registered \ {k} ELSE registered \cup {k}
    /\ changes' = changes + 1
    /\ UNCHANGED <<refusals, subscribed, tableVars, thread, historyVars>>

----------------------------------------------------------------------------
(* NacosSubscriber *)

\* Mutation: an empty list of hosts is ignored.
ListedSome(n) ==
    thread' = IF registered = {} THEN thread
              ELSE [thread EXCEPT ![n].pc = "notify", ![n].todo = registered]

Listed(n) == thread' = [thread EXCEPT ![n].pc = "notify", ![n].todo = registered]

\* The timer is started before the flag is set: its first execution finds the
\* flag down. Here as in Tick, a list_naming_instance that fails is logged, and
\* the directory is not notified.
Subscribe ==
    /\ At("subscriber", "waiting") /\ ~subscribed
    /\ subscribed' = TRUE
    /\ Listed("subscriber") \/ thread' = [thread EXCEPT !["subscriber"] = Idle]
    /\ UNCHANGED <<registered, changes, refusals, tableVars, historyVars>>

\* refresh_instances on the timer's thread.
Tick ==
    /\ At("timer", "idle") /\ subscribed
    /\ Listed("timer")
    /\ UNCHANGED <<nacosVars, tableVars, historyVars>>

\* The application's thread: the flag goes down, and the directory is told that
\* there is no provider. A refresh of the timer that is under way goes on.
Unsubscribe ==
    /\ At("subscriber", "idle") /\ subscribed
    /\ subscribed' = FALSE
    /\ thread' = [thread EXCEPT !["subscriber"] = [Idle EXCEPT !.pc = "notify"]]
    /\ UNCHANGED <<registered, changes, refusals, tableVars, historyVars>>

----------------------------------------------------------------------------
(* RegistryDirectory.notify *)

Alone(n) == \A m \in Notifiers \ {n} : ~Notifying(m)

\* old_invokers = self._invokers
NotifyRead(n) ==
    /\ At(n, "notify")
    /\ thread' = [thread EXCEPT ![n].pc = "reset", ![n].old = current]
    /\ overlapped' = (overlapped \/ ~Alone(n))
    /\ settled' = [known |-> Alone(n), urls |-> thread[n].todo]
    /\ UNCHANGED <<nacosVars, tableVars, refused>>

Unused(t) == t # current /\ \A n \in Notifiers : t # thread[n].old

\* Another dictionary, or the same one emptied.
SameTable(t) == t = current     \* Mutation
NewTable(t) == Unused(t) /\ \A u \in Tables : Unused(u) => t <= u

\* self._invokers = {}
NotifyReset(n) ==
    /\ At(n, "reset")
    /\ \E t \in Tables :
          /\ NewTable(t)
          /\ tables' = [tables EXCEPT ![t] = Empty]
          /\ current' = t
    /\ Goto(n, "fill")
    /\ UNCHANGED <<nacosVars, invokers, historyVars>>

Old(n) == tables[thread[n].old]

\* The thread leaves notify: what nothing refers to any more is collected. Open
\* invokers that a failed notification lost stay open, their numbers are reused.
Leave(n, lost) ==
    LET kept == {current} \cup {thread[m].old : m \in Notifiers \ {n}}
        reached(i) == \E t \in kept \ {None}, k \in Keys : tables[t][k] = i
    IN /\ thread' = [thread EXCEPT ![n] = Idle]
       /\ tables' = [t \in Tables |-> IF t \in kept THEN tables[t] ELSE Empty]
       /\ invokers' = [i \in Invokers |->
                          IF ~reached(i) /\ (lost \/ invokers[i].state = "destroyed")
                          THEN NoInvoker ELSE invokers[i]]

\* The exception leaves notify; refresh_instances logs it.
Raise(n) ==
    /\ Leave(n, TRUE)
    /\ settled' = Nothing

\* pop(key)
Pop(i) == None

\* An invoker that is kept goes to the table that is current by now, and out of
\* the old one. A thread with the same old table may take it in between.
Move(n) ==
    /\ At(n, "fill")
    /\ \E k \in thread[n].todo :
          /\ Old(n)[k] # None
          /\ tables' = [t \in Tables |->
                           [tables[t] EXCEPT ![k] = IF t = current THEN Old(n)[k]
                                                    ELSE IF t = thread[n].old THEN Pop(@) ELSE @]]
          /\ thread' = [thread EXCEPT ![n].todo = @ \ {k}]
    /\ UNCHANGED <<nacosVars, current, invokers, historyVars>>

MoveFails(n) ==
    /\ At(n, "fill")
    /\ \E k \in thread[n].todo : Old(n)[k] # None
    /\ \E m \in Notifiers \ {n} : At(m, "fill") /\ thread[m].old = thread[n].old
    /\ Raise(n)
    /\ UNCHANGED <<nacosVars, current, overlapped, refused>>

\* An invoker that the old table does not hold is referred.
Connect(n) ==
    /\ At(n, "fill")
    /\ \E k \in thread[n].todo :
          /\ Old(n)[k] = None
          /\ thread' = [thread EXCEPT ![n].pc = "refer", ![n].todo = @ \ {k}, ![n].key = {k}]
    /\ UNCHANGED <<nacosVars, tableVars, historyVars>>

\* RegistryProtocol gives the directory TripleProtocol.refer, which connects:
\* meanwhile the other threads go on.
Refer(n) ==
    /\ At(n, "refer")
    /\ \E i \in Invokers, k \in thread[n].key :
          /\ Blank(i) /\ \A j \in Invokers : Blank(j) => i <= j
          /\ invokers' = [invokers EXCEPT ![i] = [key |-> {k}, state |-> "open"]]
          /\ tables' = [tables EXCEPT ![current][k] = i]
    /\ thread' = [thread EXCEPT ![n].pc = "fill", ![n].key = {}]
    /\ UNCHANGED <<nacosVars, current, historyVars>>

\* The connection is refused: the URLs that are left are not referred, and the
\* invokers left in the old table are neither kept nor destroyed.
ReferFails(n) ==
    /\ At(n, "refer") /\ refusals < MaxRefused
    /\ refusals' = refusals + 1
    /\ refused' = TRUE
    /\ Raise(n)
    /\ UNCHANGED <<registered, changes, subscribed, current, overlapped>>

\* old_invokers.values()
NoneLeft(n) == {}       \* Mutation
Left(n) == InTable(Old(n))

\* The loop over what is left begins.
StartDestroy(n) ==
    /\ At(n, "fill") /\ thread[n].todo = {} /\ InTable(Old(n)) # {}
    /\ thread' = [thread EXCEPT ![n].pc = "destroy", ![n].todo = Left(n),
                                ![n].key = InTable(Old(n))]
    /\ UNCHANGED <<nacosVars, tableVars, historyVars>>

\* destroy closes the client and forgets it.
Destroy(n) ==
    /\ At(n, "destroy") /\ InTable(Old(n)) = thread[n].key
    /\ \E k \in thread[n].todo :
          /\ invokers[Old(n)[k]].state = "open"
          /\ invokers' = [invokers EXCEPT ![Old(n)[k]].state = "destroyed"]
          /\ thread' = [thread EXCEPT ![n].todo = @ \ {k}]
    /\ UNCHANGED <<nacosVars, tables, current, historyVars>>

\* A second destroy raises, and so does the loop when the dictionary has changed
\* its size.
DestroyFails(n) ==
    /\ At(n, "destroy") /\ thread[n].todo # {}
    /\ \/ InTable(Old(n)) # thread[n].key
       \/ \E k \in thread[n].todo \cap InTable(Old(n)) : invokers[Old(n)[k]].state = "destroyed"
    /\ Raise(n)
    /\ UNCHANGED <<nacosVars, current, overlapped, refused>>

NotifyEnds(n) ==
    /\ thread[n].todo = {}
    /\ At(n, "destroy") \/ (At(n, "fill") /\ InTable(Old(n)) = {})
    /\ Leave(n, overlapped \/ refused)
    /\ UNCHANGED <<nacosVars, current, historyVars>>

Notify(n) ==
    \/ NotifyRead(n) \/ NotifyReset(n) \/ Move(n) \/ MoveFails(n)
    \/ Connect(n) \/ Refer(n) \/ ReferFails(n)
    \/ StartDestroy(n) \/ Destroy(n) \/ DestroyFails(n) \/ NotifyEnds(n)
Subscriber == Subscribe \/ Notify("subscriber")
Timer == Tick \/ Notify("timer")

Next == Subscriber \/ Timer \/ Unsubscribe \/ \E k \in Keys : Change(k)

Spec == Init /\ [][Next]_vars

\* Both threads go on; the timer fires again and again.
FairSpec == Spec /\ WF_vars(Subscriber) /\ WF_vars(Timer)

----------------------------------------------------------------------------
(* Properties *)

TypeOK ==
    /\ registered \subseteq Keys /\ changes \in 0..MaxChanges /\ refusals \in 0..MaxRefused
    /\ subscribed \in BOOLEAN
    /\ tables \in [Tables -> [Keys -> {None} \cup Invokers]]
    /\ current \in Tables
    /\ thread \in [Notifiers -> [pc : {"waiting", "idle", "notify", "reset", "fill", "refer",
                                        "destroy"},
                                 old : {None} \cup Tables, todo : SUBSET Keys, key : SUBSET Keys]]
    /\ invokers \in [Invokers -> [key : SUBSET Keys, state : {"none", "open", "destroyed"}]]
    /\ overlapped \in BOOLEAN /\ refused \in BOOLEAN
    /\ settled \in [known : BOOLEAN, urls : SUBSET Keys]

\* An open invoker can still be destroyed: it is in the table, or in the one that
\* a notification is about to dispose of. It holds unless two notifications ran at
\* once, when both dispose of the same table or each fills the other's, or a
\* refused connection cut one short (directories.py 42-57).
InvokersAccounted ==
    overlapped \/ refused \/ \A i \in Invokers :
        invokers[i].state = "open" => \E k \in Keys :
            tables[current][k] = i \/ \E n \in Notifiers : thread[n].old # None /\ Old(n)[k] = i

\* Once a notification has run alone to its end, callers are given an open
\* invoker for each URL it was given, and no other: what is kept is not destroyed,
\* what is destroyed is not kept.
TableFollows ==
    settled.known /\ (\A n \in Notifiers : ~Notifying(n)) =>
        /\ InTable(tables[current]) = settled.urls
        /\ overlapped \/ \A k \in settled.urls :
               invokers[tables[current][k]] = [key |-> {k}, state |-> "open"]

\* Whatever overlapped or failed before, the timer brings the table back to the
\* providers that are registered, until the application unsubscribes.
Refreshes ==
    []<>(\/ At("subscriber", "idle") /\ ~subscribed
         \/ InTable(tables[current]) = registered)

\* Readers of the table see what InvokerTable promises: an invoker enters it open
\* and is only destroyed once it has left it, as long as no notifications overlap
\* (directories.py 39-57).
Implements == INSTANCE InvokerTable WITH table <- tables[current]
ImplementsTable == Implements!TableSpec
=============================================================================
