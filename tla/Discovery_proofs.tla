-------------------------- MODULE Discovery_proofs --------------------------
(***************************************************************************)
(* How a consumer finds its providers. The directory follows what it was   *)
(* notified of, accounts for every open invoker and implements             *)
(* InvokerTable, for any providers and bounds; with ZooKeeper, a provider  *)
(* that serves is registered and no watch is lost.                         *)
(***************************************************************************)
EXTENDS Directory, Registry, FiniteSetTheorems, TLAPS

Table == tables[current]
Working(n) == thread[n].pc \in {"fill", "refer", "destroy"}
Open(i) == invokers[i].state = "open"

\* Where the threads are. A thread that is past its reset never has the current
\* dictionary as its old one, whatever the other does.
Shape ==
    /\ \A n \in Notifiers :
          /\ ~Notifying(n) => thread[n].old = None
          /\ At(n, "reset") \/ Working(n) => thread[n].old \in Tables
          /\ Working(n) => thread[n].old # current
          /\ thread[n].pc \notin {"refer", "destroy"} => thread[n].key = {}
          /\ At(n, "refer") => \E k \in Keys : thread[n].key = {k}

\* An invoker is listed under its own URL only, in every dictionary.
Keyed == \A t \in Tables, k \in Keys : tables[t][k] # None => invokers[tables[t][k]].key = {k}

\* A notification that began alone stays alone while it is the last one.
Solo ==
    ~overlapped \/ settled.known =>
        \A m, n \in Notifiers : Notifying(m) /\ Notifying(n) => m = n

\* What is in the table and what is still to come make up the URLs of a
\* notification that runs alone.
Following ==
    settled.known =>
        /\ (\A n \in Notifiers : ~Notifying(n)) => InTable(Table) = settled.urls
        /\ \A n \in Notifiers :
              /\ At(n, "reset") => thread[n].todo = settled.urls
              /\ At(n, "fill") \/ At(n, "refer") =>
                     InTable(Table) \cup thread[n].todo \cup thread[n].key = settled.urls
              /\ At(n, "destroy") => InTable(Table) = settled.urls

\* The table and the dictionary it replaces while a thread fills the one from the
\* other, and while it disposes of the rest.
Filling(n) ==
    /\ thread[n].todo \cap thread[n].key = {}
    /\ \A k \in thread[n].todo \cup thread[n].key : Table[k] = None
    /\ \A k \in Keys : Old(n)[k] # None => Table[k] = None /\ k \notin thread[n].key /\ Open(Old(n)[k])

Disposing(n) ==
    /\ thread[n].key = InTable(Old(n)) /\ thread[n].todo \subseteq thread[n].key
    /\ \A k \in thread[n].key : Table[k] = None /\ (Open(Old(n)[k]) <=> k \in thread[n].todo)

Apart ==
    ~overlapped =>
        /\ \A k \in Keys : Table[k] # None => Open(Table[k])
        /\ \A n \in Notifiers :
              /\ At(n, "reset") => thread[n].old = current
              /\ At(n, "fill") \/ At(n, "refer") => Filling(n)
              /\ At(n, "destroy") => Disposing(n)

----------------------------------------------------------------------------
(* Types *)

Places == {"waiting", "idle", "notify", "reset", "fill", "refer", "destroy"}
ThreadStates == [pc : Places, old : {None} \cup Tables, todo : SUBSET Keys, key : SUBSET Keys]
InvokerStates == [key : SUBSET Keys, state : {"none", "open", "destroyed"}]

LEMMA TableNumbers == 1 \in Tables /\ None \notin Tables /\ None \notin Invokers
<1>1. IsFiniteSet(Notifiers)
  <2>1. IsFiniteSet({"subscriber"})
    BY FS_Singleton
  <2>2. Notifiers = {"subscriber"} \cup {"timer"}
    BY DEF Notifiers
  <2> QED
    BY <2>1, <2>2, FS_AddElement
<1>2. Cardinality(Notifiers) \in Nat
  BY <1>1, FS_CardinalityType
<1> QED
  BY <1>2 DEF Tables, None, Invokers

LEMMA TypeInit == Init => TypeOK
<1> SUFFICES ASSUME Init PROVE TypeOK
  OBVIOUS
<1> USE DirectoryAssumption, TableNumbers
<1>1. tables \in [Tables -> [Keys -> {None} \cup Invokers]] /\ current \in Tables
  BY DEF Init, Empty
<1>2. thread \in [Notifiers -> ThreadStates]
  BY DEF Init, ThreadStates, Places, Idle, Waiting
<1>3. invokers \in [Invokers -> InvokerStates] /\ settled \in [known : BOOLEAN, urls : SUBSET Keys]
  BY DEF Init, InvokerStates, NoInvoker, Nothing
<1>4. changes \in 0..MaxChanges /\ refusals \in 0..MaxRefused
  BY DEF Init
<1>5. registered \subseteq Keys /\ subscribed \in BOOLEAN /\ overlapped \in BOOLEAN /\ refused \in BOOLEAN
  BY Zenon DEF Init
<1> QED
  BY <1>1, <1>2, <1>3, <1>4, <1>5 DEF TypeOK, ThreadStates, Places, InvokerStates

\* What a step may leave alone.
LEMMA SameTypes ==
    ASSUME TypeOK,
           registered' \subseteq Keys, changes' \in 0..MaxChanges, refusals' \in 0..MaxRefused,
           subscribed' \in BOOLEAN, tables' \in [Tables -> [Keys -> {None} \cup Invokers]],
           current' \in Tables, thread' \in [Notifiers -> ThreadStates],
           invokers' \in [Invokers -> InvokerStates], overlapped' \in BOOLEAN, refused' \in BOOLEAN,
           settled' \in [known : BOOLEAN, urls : SUBSET Keys]
    PROVE  TypeOK'
  BY DEF TypeOK, ThreadStates, Places, InvokerStates

LEMMA TypeParts ==
    TypeOK =>
    /\ registered \subseteq Keys /\ changes \in 0..MaxChanges /\ refusals \in 0..MaxRefused
    /\ subscribed \in BOOLEAN /\ tables \in [Tables -> [Keys -> {None} \cup Invokers]]
    /\ current \in Tables /\ thread \in [Notifiers -> ThreadStates]
    /\ invokers \in [Invokers -> InvokerStates] /\ overlapped \in BOOLEAN /\ refused \in BOOLEAN
    /\ settled \in [known : BOOLEAN, urls : SUBSET Keys]
  BY DEF TypeOK, ThreadStates, Places, InvokerStates

\* What a step makes of its thread.
Becomes(n, pc, old, todo, key) ==
    /\ thread' \in [Notifiers -> ThreadStates]
    /\ thread'[n].pc = pc /\ thread'[n].old = old /\ thread'[n].todo = todo /\ thread'[n].key = key
    /\ \A m \in Notifiers \ {n} : thread'[m] = thread[m]

LEMMA FieldTypes ==
    ASSUME TypeOK, NEW n \in Notifiers
    PROVE  /\ thread \in [Notifiers -> ThreadStates] /\ thread[n].pc \in Places
           /\ thread[n].old \in {None} \cup Tables
           /\ thread[n].todo \subseteq Keys /\ thread[n].key \subseteq Keys
<1>1. thread \in [Notifiers -> ThreadStates]
  BY TypeParts
<1> QED
  BY <1>1 DEF ThreadStates

LEMMA GotoBecomes ==
    ASSUME TypeOK, NEW n \in Notifiers, NEW pc \in Places,
           thread' = [thread EXCEPT ![n].pc = pc]
    PROVE  Becomes(n, pc, thread[n].old, thread[n].todo, thread[n].key)
<1>1. thread \in [Notifiers -> ThreadStates]
  BY TypeParts
<1> QED
  BY <1>1 DEF Becomes, ThreadStates

LEMMA TodoBecomes ==
    ASSUME TypeOK, NEW n \in Notifiers, NEW pc \in Places, NEW todo \in SUBSET Keys,
           thread' = [thread EXCEPT ![n].pc = pc, ![n].todo = todo]
    PROVE  Becomes(n, pc, thread[n].old, todo, thread[n].key)
<1>1. thread \in [Notifiers -> ThreadStates]
  BY TypeParts
<1> QED
  BY <1>1 DEF Becomes, ThreadStates

LEMMA IdleBecomes ==
    ASSUME TypeOK, NEW n \in Notifiers, NEW pc \in Places,
           thread' = [thread EXCEPT ![n] = [Idle EXCEPT !.pc = pc]]
    PROVE  Becomes(n, pc, None, {}, {})
<1>1. thread \in [Notifiers -> ThreadStates]
  BY TypeParts
<1> QED
  BY <1>1 DEF Becomes, ThreadStates, Idle

LEMMA LeaveBecomes ==
    ASSUME TypeOK, NEW n \in Notifiers, thread' = [thread EXCEPT ![n] = Idle]
    PROVE  Becomes(n, "idle", None, {}, {})
<1>1. thread \in [Notifiers -> ThreadStates]
  BY TypeParts
<1> QED
  BY <1>1 DEF Becomes, ThreadStates, Places, Idle

LEMMA ReadBecomes ==
    ASSUME TypeOK, NEW n \in Notifiers, NotifyRead(n)
    PROVE  Becomes(n, "reset", current, thread[n].todo, thread[n].key)
<1>1. thread \in [Notifiers -> ThreadStates] /\ current \in Tables
  BY TypeParts
<1>2. thread' = [thread EXCEPT ![n].pc = "reset", ![n].old = current]
  BY DEF NotifyRead
<1> QED
  BY <1>1, <1>2 DEF Becomes, ThreadStates, Places

LEMMA MoveBecomes ==
    ASSUME TypeOK, NEW n \in Notifiers, At(n, "fill"), NEW k \in thread[n].todo,
           thread' = [thread EXCEPT ![n].todo = @ \ {k}]
    PROVE  Becomes(n, "fill", thread[n].old, thread[n].todo \ {k}, thread[n].key)
<1>1. thread \in [Notifiers -> ThreadStates]
  BY TypeParts
<1> QED
  BY <1>1 DEF Becomes, ThreadStates, At

LEMMA ConnectBecomes ==
    ASSUME TypeOK, NEW n \in Notifiers, NEW k \in thread[n].todo,
           thread' = [thread EXCEPT ![n].pc = "refer", ![n].todo = @ \ {k}, ![n].key = {k}]
    PROVE  Becomes(n, "refer", thread[n].old, thread[n].todo \ {k}, {k})
<1>1. thread \in [Notifiers -> ThreadStates] /\ k \in Keys
  BY FieldTypes
<1> QED
  BY <1>1 DEF Becomes, ThreadStates, Places

LEMMA ReferBecomes ==
    ASSUME TypeOK, NEW n \in Notifiers, Refer(n)
    PROVE  Becomes(n, "fill", thread[n].old, thread[n].todo, {})
<1>1. thread \in [Notifiers -> ThreadStates]
  BY TypeParts
<1>2. thread' = [thread EXCEPT ![n].pc = "fill", ![n].key = {}]
  BY DEF Refer
<1> QED
  BY <1>1, <1>2 DEF Becomes, ThreadStates, Places

LEMMA StartBecomes ==
    ASSUME TypeOK, NEW n \in Notifiers, StartDestroy(n)
    PROVE  Becomes(n, "destroy", thread[n].old, InTable(Old(n)), InTable(Old(n)))
<1>1. thread \in [Notifiers -> ThreadStates]
  BY TypeParts
<1> DEFINE left == InTable(Old(n))
<1>2. thread' = [thread EXCEPT ![n].pc = "destroy", ![n].todo = left, ![n].key = left]
  BY DEF StartDestroy, Left
<1>3. left \in SUBSET Keys
  BY DEF InTable
<1> HIDE DEF left
<1>4. Becomes(n, "destroy", thread[n].old, left, left)
  BY <1>1, <1>2, <1>3 DEF Becomes, ThreadStates, Places
<1> QED
  BY <1>4 DEF left

LEMMA DestroyBecomes ==
    ASSUME TypeOK, NEW n \in Notifiers, At(n, "destroy"), NEW k \in thread[n].todo,
           thread' = [thread EXCEPT ![n].todo = @ \ {k}]
    PROVE  Becomes(n, "destroy", thread[n].old, thread[n].todo \ {k}, thread[n].key)
<1>1. thread \in [Notifiers -> ThreadStates]
  BY TypeParts
<1> QED
  BY <1>1 DEF Becomes, ThreadStates, At

LEMMA LeaveTypes ==
    ASSUME TypeOK, NEW n \in Notifiers, NEW lost, Leave(n, lost)
    PROVE  /\ Becomes(n, "idle", None, {}, {})
           /\ tables' \in [Tables -> [Keys -> {None} \cup Invokers]]
           /\ invokers' \in [Invokers -> InvokerStates]
<1>1. /\ tables \in [Tables -> [Keys -> {None} \cup Invokers]] /\ invokers \in [Invokers -> InvokerStates]
  BY TypeParts
<1>2. NoInvoker \in InvokerStates /\ Empty \in [Keys -> {None} \cup Invokers]
  BY DEF NoInvoker, InvokerStates, Empty
<1>3. Becomes(n, "idle", None, {}, {})
  BY LeaveBecomes DEF Leave
<1> QED
  BY <1>1, <1>2, <1>3 DEF Leave

LEMMA RaiseTypes ==
    ASSUME TypeOK, NEW n \in Notifiers, Raise(n)
    PROVE  /\ Becomes(n, "idle", None, {}, {})
           /\ tables' \in [Tables -> [Keys -> {None} \cup Invokers]]
           /\ invokers' \in [Invokers -> InvokerStates]
           /\ settled' \in [known : BOOLEAN, urls : SUBSET Keys]
  BY LeaveTypes DEF Raise, Nothing

LEMMA TypeNext == TypeOK /\ Shape /\ [Next]_vars => TypeOK'
<1> SUFFICES ASSUME TypeOK, Shape, [Next]_vars PROVE TypeOK'
  OBVIOUS
<1> USE DEF nacosVars, tableVars, historyVars
<1>0. /\ registered \subseteq Keys /\ changes \in 0..MaxChanges /\ refusals \in 0..MaxRefused
      /\ subscribed \in BOOLEAN /\ tables \in [Tables -> [Keys -> {None} \cup Invokers]]
      /\ current \in Tables /\ thread \in [Notifiers -> ThreadStates]
      /\ invokers \in [Invokers -> InvokerStates] /\ overlapped \in BOOLEAN /\ refused \in BOOLEAN
      /\ settled \in [known : BOOLEAN, urls : SUBSET Keys]
  BY TypeParts
<1>1. ASSUME NEW n \in Notifiers, NEW pc, NEW old, NEW todo, NEW key, Becomes(n, pc, old, todo, key)
      PROVE  thread' \in [Notifiers -> ThreadStates]
  BY <1>1 DEF Becomes
<1>2. ASSUME NEW k \in Keys, Change(k) PROVE TypeOK'
  <2>1. changes' \in 0..MaxChanges /\ registered' \subseteq Keys
    BY <1>0, <1>2, DirectoryAssumption DEF Change
  <2> QED
    BY <1>0, <1>2, <2>1, SameTypes DEF Change
<1>3. ASSUME NEW n \in Notifiers, Listed(n) PROVE thread' \in [Notifiers -> ThreadStates]
  BY <1>0, <1>1, <1>3, TodoBecomes DEF Listed, Places
<1>4. CASE Subscribe
  <2>1. thread' \in [Notifiers -> ThreadStates]
    <3>1. CASE Listed("subscriber")
      BY <1>3, <3>1 DEF Notifiers
    <3>2. CASE thread' = [thread EXCEPT !["subscriber"] = Idle]
      BY <1>1, <3>2, LeaveBecomes DEF Notifiers
    <3> QED
      BY <1>4, <3>1, <3>2 DEF Subscribe
  <2> QED
    BY <1>0, <1>4, <2>1, SameTypes DEF Subscribe
<1>5. CASE Tick
  <2>1. thread' \in [Notifiers -> ThreadStates]
    BY <1>3, <1>5 DEF Tick, Notifiers
  <2> QED
    BY <1>0, <1>5, <2>1, SameTypes DEF Tick
<1>6. CASE Unsubscribe
  <2>1. thread' \in [Notifiers -> ThreadStates]
    BY <1>1, <1>6, IdleBecomes DEF Unsubscribe, Notifiers, Places
  <2> QED
    BY <1>0, <1>6, <2>1, SameTypes DEF Unsubscribe
<1>7. ASSUME NEW n \in Notifiers, Notify(n) PROVE TypeOK'
  <2>1. CASE NotifyRead(n)
    <3>1. thread' \in [Notifiers -> ThreadStates] /\ thread[n].todo \subseteq Keys
      BY <1>1, <2>1, ReadBecomes, FieldTypes
    <3>2. overlapped' \in BOOLEAN
      BY <1>0, <2>1 DEF NotifyRead
    <3>3. settled' \in [known : BOOLEAN, urls : SUBSET Keys]
      BY <2>1, <3>1 DEF NotifyRead, Alone
    <3> QED
      BY <1>0, <2>1, <3>1, <3>2, <3>3, SameTypes DEF NotifyRead
  <2>2. CASE NotifyReset(n)
    <3>1. thread' \in [Notifiers -> ThreadStates]
      BY <1>1, <2>2, GotoBecomes DEF NotifyReset, Goto, Places
    <3>2. tables' \in [Tables -> [Keys -> {None} \cup Invokers]] /\ current' \in Tables
      BY <1>0, <2>2 DEF NotifyReset, Empty
    <3> QED
      BY <1>0, <2>2, <3>1, <3>2, SameTypes DEF NotifyReset
  <2>3. CASE Move(n)
    <3>1. PICK k \in thread[n].todo :
              /\ tables' = [t \in Tables |->
                               [tables[t] EXCEPT ![k] = IF t = current THEN Old(n)[k]
                                                        ELSE IF t = thread[n].old THEN Pop(@) ELSE @]]
              /\ thread' = [thread EXCEPT ![n].todo = @ \ {k}]
              /\ Old(n)[k] # None
      BY <2>3 DEF Move
    <3>2. k \in Keys /\ thread[n].old \in {None} \cup Tables
      BY FieldTypes
    <3>3. thread' \in [Notifiers -> ThreadStates]
      BY <1>1, <2>3, <3>1, MoveBecomes DEF Move
    <3>4. Old(n)[k] \in Invokers \cup {None}
      <4>1. thread[n].old \in Tables
        BY <2>3 DEF Move, Shape, Working, At
      <4> QED
        BY <1>0, <3>2, <4>1 DEF Old
    <3>5. tables' \in [Tables -> [Keys -> {None} \cup Invokers]]
      BY <1>0, <3>1, <3>2, <3>4 DEF Pop
    <3> QED
      BY <1>0, <2>3, <3>3, <3>5, SameTypes DEF Move
  <2>4. CASE Connect(n)
    <3>1. thread' \in [Notifiers -> ThreadStates]
      BY <1>1, <2>4, ConnectBecomes DEF Connect
    <3> QED
      BY <1>0, <2>4, <3>1, SameTypes DEF Connect
  <2>5. CASE Refer(n)
    <3>1. thread' \in [Notifiers -> ThreadStates]
      BY <1>1, <2>5, ReferBecomes
    <3>2. PICK i \in Invokers, k \in thread[n].key :
              /\ invokers' = [invokers EXCEPT ![i] = [key |-> {k}, state |-> "open"]]
              /\ tables' = [tables EXCEPT ![current][k] = i]
      BY <2>5 DEF Refer
    <3>3. k \in Keys
      BY FieldTypes
    <3>4. invokers' \in [Invokers -> InvokerStates]
      BY <1>0, <3>2, <3>3 DEF InvokerStates
    <3>5. tables' \in [Tables -> [Keys -> {None} \cup Invokers]]
      BY <1>0, <3>2
    <3> QED
      BY <1>0, <2>5, <3>1, <3>4, <3>5, SameTypes DEF Refer
  <2>6. CASE StartDestroy(n)
    BY <1>0, <1>1, <2>6, StartBecomes, SameTypes DEF StartDestroy
  <2>7. CASE Destroy(n)
    <3>1. thread' \in [Notifiers -> ThreadStates]
      BY <1>1, <2>7, DestroyBecomes DEF Destroy
    <3>2. invokers' \in [Invokers -> InvokerStates]
      <4>1. ASSUME NEW i PROVE [invokers EXCEPT ![i].state = "destroyed"] \in [Invokers -> InvokerStates]
        BY <1>0 DEF InvokerStates
      <4> QED
        BY <2>7, <4>1 DEF Destroy
    <3> QED
      BY <1>0, <2>7, <3>1, <3>2, SameTypes DEF Destroy
  <2>8. CASE MoveFails(n)
    BY <1>0, <1>1, <2>8, RaiseTypes, SameTypes DEF MoveFails
  <2>9. CASE ReferFails(n)
    <3>1. refusals' \in 0..MaxRefused
      BY <1>0, <2>9, DirectoryAssumption DEF ReferFails
    <3> QED
      BY <1>0, <1>1, <2>9, <3>1, RaiseTypes, SameTypes DEF ReferFails
  <2>10. CASE DestroyFails(n)
    BY <1>0, <1>1, <2>10, RaiseTypes, SameTypes DEF DestroyFails
  <2>11. CASE NotifyEnds(n)
    BY <1>0, <1>1, <2>11, LeaveTypes, SameTypes DEF NotifyEnds
  <2> QED
    BY <1>7, <2>1, <2>2, <2>3, <2>4, <2>5, <2>6, <2>7, <2>8, <2>9, <2>10, <2>11 DEF Notify
<1>8. CASE UNCHANGED vars
  BY <1>0, <1>8, SameTypes DEF vars
<1> QED
  BY <1>2, <1>4, <1>5, <1>6, <1>7, <1>8 DEF Next, Subscriber, Timer, Notifiers

----------------------------------------------------------------------------
(* Where the threads are *)

\* The threads that wait or begin.
LEMMA ShapeWaits ==
    ASSUME TypeOK, Shape, NEW n \in Notifiers, ~Notifying(n),
           NEW pc \in {"waiting", "idle", "notify"}, NEW todo, Becomes(n, pc, None, todo, {}), current' = current
    PROVE  Shape'
  BY DEF Shape, Becomes, Working, Notifying, At

LEMMA ShapeInit == Init => Shape
  BY DEF Init, Shape, Notifying, Working, At, Idle, Waiting

LEMMA ShapeNext == TypeOK /\ Shape /\ [Next]_vars => Shape'
<1> SUFFICES ASSUME TypeOK, Shape, [Next]_vars PROVE Shape'
  OBVIOUS
<1> USE DEF tableVars
<1>1. ASSUME NEW k \in Keys, Change(k) PROVE Shape'
  BY <1>1 DEF Change, Shape, Working, Notifying, At
<1>2. ASSUME NEW n \in Notifiers, Listed(n), ~Notifying(n), current' = current PROVE Shape'
  <2>1. Becomes(n, "notify", None, registered, {})
    <3>1. thread[n].old = None /\ thread[n].key = {}
      BY <1>2 DEF Shape, Notifying
    <3> QED
      BY <1>2, <3>1, TodoBecomes, TypeParts DEF Listed, Places
  <2> QED
    BY <1>2, <2>1, ShapeWaits
<1>3. CASE Subscribe
  <2>1. ~Notifying("subscriber") /\ current' = current
    BY <1>3 DEF Subscribe, Notifying, At
  <2>2. CASE Listed("subscriber")
    BY <1>2, <2>1, <2>2 DEF Notifiers
  <2>3. CASE thread' = [thread EXCEPT !["subscriber"] = Idle]
    BY <2>1, <2>3, LeaveBecomes, ShapeWaits DEF Notifiers
  <2> QED
    BY <1>3, <2>2, <2>3 DEF Subscribe
<1>4. CASE Tick
  BY <1>2, <1>4 DEF Tick, Notifying, At, Notifiers
<1>5. CASE Unsubscribe
  <2>1. Becomes("subscriber", "notify", None, {}, {})
    BY <1>5, IdleBecomes DEF Unsubscribe, Notifiers, Places
  <2> QED
    BY <1>5, <2>1, ShapeWaits DEF Unsubscribe, Notifying, At, Notifiers
<1>6. ASSUME NEW n \in Notifiers, Notify(n) PROVE Shape'
  <2>0. current \in Tables
    BY TypeParts
  <2>1. CASE NotifyRead(n)
    <3>1. Becomes(n, "reset", current, thread[n].todo, {}) /\ current' = current
      BY <2>1, ReadBecomes DEF NotifyRead, Shape, At
    <3> QED
      BY <2>0, <3>1 DEF Shape, Becomes, Working, Notifying, At
  <2>2. CASE NotifyReset(n)
    <3>1. Becomes(n, "fill", thread[n].old, thread[n].todo, {}) /\ At(n, "reset")
      BY <2>2, GotoBecomes DEF NotifyReset, Goto, Places, Shape, At
    <3>2. \A m \in Notifiers : thread[m].old # current'
      BY <2>2 DEF NotifyReset, NewTable, Unused
    <3> QED
      BY <3>1, <3>2 DEF Shape, Becomes, Working, Notifying, At
  <2>3. CASE Move(n)
    <3>1. PICK k \in thread[n].todo : Becomes(n, "fill", thread[n].old, thread[n].todo \ {k}, thread[n].key)
      BY <2>3, MoveBecomes DEF Move
    <3>2. At(n, "fill") /\ current' = current
      BY <2>3 DEF Move
    <3> QED
      BY <3>1, <3>2 DEF Shape, Becomes, Working, Notifying, At
  <2>4. CASE Connect(n)
    <3>1. PICK k \in thread[n].todo : Becomes(n, "refer", thread[n].old, thread[n].todo \ {k}, {k})
      BY <2>4, ConnectBecomes DEF Connect
    <3>2. At(n, "fill") /\ current' = current /\ k \in Keys
      BY <2>4, FieldTypes DEF Connect
    <3> QED
      BY <3>1, <3>2 DEF Shape, Becomes, Working, Notifying, At
  <2>5. CASE Refer(n)
    <3>1. Becomes(n, "fill", thread[n].old, thread[n].todo, {}) /\ At(n, "refer") /\ current' = current
      BY <2>5, ReferBecomes DEF Refer
    <3> QED
      BY <3>1 DEF Shape, Becomes, Working, Notifying, At
  <2>6. CASE StartDestroy(n)
    <3>1. PICK k : Becomes(n, "destroy", thread[n].old, k, k)
      BY <2>6, StartBecomes
    <3>2. At(n, "fill") /\ current' = current
      BY <2>6 DEF StartDestroy
    <3> QED
      BY <3>1, <3>2 DEF Shape, Becomes, Working, Notifying, At
  <2>7. CASE Destroy(n)
    <3>1. PICK k \in thread[n].todo : Becomes(n, "destroy", thread[n].old, thread[n].todo \ {k}, thread[n].key)
      BY <2>7, DestroyBecomes DEF Destroy
    <3>2. At(n, "destroy") /\ current' = current
      BY <2>7 DEF Destroy
    <3> QED
      BY <3>1, <3>2 DEF Shape, Becomes, Working, Notifying, At
  <2>8. ASSUME NEW lost, Leave(n, lost), current' = current PROVE Shape'
    <3>1. Becomes(n, "idle", None, {}, {})
      BY <2>8, LeaveTypes
    <3> QED
      BY <2>8, <3>1 DEF Shape, Becomes, Working, Notifying, At
  <2>9. CASE MoveFails(n) \/ ReferFails(n) \/ DestroyFails(n) \/ NotifyEnds(n)
    BY <2>8, <2>9 DEF MoveFails, ReferFails, DestroyFails, NotifyEnds, Raise
  <2> QED
    BY <1>6, <2>1, <2>2, <2>3, <2>4, <2>5, <2>6, <2>7, <2>9 DEF Notify
<1>7. CASE UNCHANGED vars
  BY <1>7 DEF vars, Shape, Working, Notifying, At
<1> QED
  BY <1>1, <1>3, <1>4, <1>5, <1>6, <1>7 DEF Next, Subscriber, Timer, Notifiers

\* Every reachable state of the directory is well typed, for any providers and any
\* bounds (directories.py 39-57).
THEOREM TypesHold == Spec => []TypeOK
<1>1. Init => TypeOK /\ Shape
  BY TypeInit, ShapeInit
<1>2. TypeOK /\ Shape /\ [Next]_vars => (TypeOK /\ Shape)'
  BY TypeNext, ShapeNext
<1> QED
  BY <1>1, <1>2, PTL DEF Spec

----------------------------------------------------------------------------
(* What the steps do to the dictionaries and the invokers *)

LEMMA ResetEffect ==
    ASSUME TypeOK, Shape, NEW n \in Notifiers, NotifyReset(n)
    PROVE  /\ Becomes(n, "fill", thread[n].old, thread[n].todo, {}) /\ At(n, "reset")
           /\ UNCHANGED <<invokers, historyVars>> /\ current' # current
           /\ \A k \in Keys : Table'[k] = None
           /\ \A t \in Tables : tables'[t] = tables[t] \/ \A k \in Keys : tables'[t][k] = None
           /\ \A m \in Notifiers : thread[m].old \in Tables => tables'[thread[m].old] = tables[thread[m].old]
<1>1. PICK t \in Tables : /\ t # current /\ \A m \in Notifiers : t # thread[m].old
                          /\ tables' = [tables EXCEPT ![t] = Empty] /\ current' = t
  BY DEF NotifyReset, NewTable, Unused
<1>2. Becomes(n, "fill", thread[n].old, thread[n].todo, {}) /\ At(n, "reset")
  BY GotoBecomes DEF NotifyReset, Goto, Places, Shape, At
<1>3. tables \in [Tables -> [Keys -> {None} \cup Invokers]]
  BY TypeParts
<1>4. \A k \in Keys : tables'[t][k] = None
  BY <1>1, <1>3 DEF Empty
<1> QED
  BY <1>1, <1>2, <1>3, <1>4 DEF Table, NotifyReset

LEMMA MoveEffect ==
    ASSUME TypeOK, Shape, NEW n \in Notifiers, Move(n)
    PROVE  \E k \in thread[n].todo :
              /\ Becomes(n, "fill", thread[n].old, thread[n].todo \ {k}, {}) /\ At(n, "fill")
              /\ UNCHANGED <<current, invokers, historyVars>>
              /\ k \in Keys /\ Old(n)[k] \in Invokers /\ thread[n].key = {}
              /\ Table' = [Table EXCEPT ![k] = Old(n)[k]]
              /\ tables'[thread[n].old][k] = None
              /\ \A t \in Tables, j \in Keys :
                    \/ tables'[t][j] = tables[t][j] /\ (j # k \/ t # current)
                    \/ j = k /\ tables'[t][j] \in {None, Old(n)[k]}
<1>1. PICK k \in thread[n].todo :
          /\ Old(n)[k] # None
          /\ tables' = [t \in Tables |->
                           [tables[t] EXCEPT ![k] = IF t = current THEN Old(n)[k]
                                                    ELSE IF t = thread[n].old THEN Pop(@) ELSE @]]
          /\ thread' = [thread EXCEPT ![n].todo = @ \ {k}]
  BY DEF Move
<1>2. At(n, "fill") /\ thread[n].key = {} /\ thread[n].old \in Tables /\ thread[n].old # current
  BY DEF Move, Shape, Working, At
<1>3. /\ tables \in [Tables -> [Keys -> {None} \cup Invokers]] /\ current \in Tables /\ k \in Keys
  BY TypeParts, FieldTypes
<1>4. Becomes(n, "fill", thread[n].old, thread[n].todo \ {k}, {})
  BY <1>1, <1>2, MoveBecomes
<1>5. UNCHANGED <<current, invokers, historyVars>>
  BY DEF Move
<1>6. Old(n)[k] \in Invokers
  BY <1>1, <1>2, <1>3 DEF Old
<1>7. Table' = [Table EXCEPT ![k] = Old(n)[k]]
  BY <1>1, <1>3, <1>5 DEF Table
<1>8. tables'[thread[n].old][k] = None
  BY <1>1, <1>2, <1>3 DEF Pop
<1>9. ASSUME NEW t \in Tables, NEW j \in Keys
      PROVE  \/ tables'[t][j] = tables[t][j] /\ (j # k \/ t # current)
             \/ j = k /\ tables'[t][j] \in {None, Old(n)[k]}
  <2> DEFINE o == Old(n)[k]
  <2>1. tables'[t] = [tables[t] EXCEPT ![k] = IF t = current THEN o
                                               ELSE IF t = thread[n].old THEN None ELSE @]
    BY <1>1 DEF Pop
  <2> HIDE DEF o
  <2>2. tables[t] \in [Keys -> {None} \cup Invokers]
    BY <1>3
  <2>3. CASE j # k
    BY <2>1, <2>2, <2>3
  <2>4. CASE j = k
    BY <2>1, <2>2, <2>4 DEF o
  <2> QED
    BY <2>3, <2>4
<1> QED
  BY <1>2, <1>3, <1>4, <1>5, <1>6, <1>7, <1>8, <1>9

LEMMA ReferEffect ==
    ASSUME TypeOK, Shape, Keyed, NEW n \in Notifiers, Refer(n)
    PROVE  \E k \in Keys, i \in Invokers :
              /\ Becomes(n, "fill", thread[n].old, thread[n].todo, {}) /\ At(n, "refer")
              /\ thread[n].key = {k} /\ UNCHANGED <<current, historyVars>>
              /\ Table' = [Table EXCEPT ![k] = i]
              /\ invokers' = [invokers EXCEPT ![i] = [key |-> {k}, state |-> "open"]]
              /\ \A t \in Tables, j \in Keys :
                    /\ tables[t][j] # i
                    /\ tables'[t][j] = tables[t][j] \/ (t = current /\ j = k)
              /\ \A t \in Tables : t # current => tables'[t] = tables[t]
<1>1. PICK i \in Invokers, k \in thread[n].key :
          /\ Blank(i)
          /\ invokers' = [invokers EXCEPT ![i] = [key |-> {k}, state |-> "open"]]
          /\ tables' = [tables EXCEPT ![current][k] = i]
  BY DEF Refer
<1>2. Becomes(n, "fill", thread[n].old, thread[n].todo, {}) /\ At(n, "refer") /\ UNCHANGED <<current, historyVars>>
  BY ReferBecomes DEF Refer
<1>3. thread[n].key = {k} /\ k \in Keys
  BY <1>2, FieldTypes DEF Shape
<1>4. tables \in [Tables -> [Keys -> {None} \cup Invokers]] /\ current \in Tables
  BY TypeParts
<1>5. \A t \in Tables, j \in Keys : tables[t][j] # i
  <2>1. invokers[i].key = {} /\ i # None
    BY <1>1, TableNumbers DEF Blank, NoInvoker
  <2> QED
    BY <2>1 DEF Keyed
<1>6. Table' = [Table EXCEPT ![k] = i]
  BY <1>1, <1>2, <1>4 DEF Table
<1>7. /\ \A t \in Tables, j \in Keys : tables'[t][j] = tables[t][j] \/ (t = current /\ j = k)
      /\ \A t \in Tables : t # current => tables'[t] = tables[t]
  BY <1>1, <1>4
<1>8. k \in Keys
  BY <1>3
<1> WITNESS k \in Keys, i \in Invokers
<1> QED
  BY <1>1, <1>2, <1>3, <1>5, <1>6, <1>7, Zenon

LEMMA DestroyEffect ==
    ASSUME TypeOK, Shape, NEW n \in Notifiers, Destroy(n)
    PROVE  \E k \in thread[n].todo :
              /\ Becomes(n, "destroy", thread[n].old, thread[n].todo \ {k}, thread[n].key) /\ At(n, "destroy")
              /\ UNCHANGED <<tables, current, historyVars>>
              /\ k \in Keys /\ Old(n)[k] \in Invokers \cup {None} /\ thread[n].key = InTable(Old(n))
              /\ invokers' = [invokers EXCEPT ![Old(n)[k]].state = "destroyed"]
              /\ Open(Old(n)[k])
<1>1. PICK k \in thread[n].todo :
          /\ Open(Old(n)[k])
          /\ invokers' = [invokers EXCEPT ![Old(n)[k]].state = "destroyed"]
          /\ thread' = [thread EXCEPT ![n].todo = @ \ {k}]
  BY DEF Destroy, Open
<1>2. /\ At(n, "destroy") /\ UNCHANGED <<tables, current, historyVars>> /\ thread[n].key = InTable(Old(n))
      /\ thread[n].old \in Tables
  BY DEF Destroy, Shape, Working, At
<1>3. tables \in [Tables -> [Keys -> {None} \cup Invokers]] /\ k \in Keys
  BY TypeParts, FieldTypes
<1>4. Becomes(n, "destroy", thread[n].old, thread[n].todo \ {k}, thread[n].key)
  BY <1>1, <1>2, DestroyBecomes
<1>5. Old(n)[k] \in Invokers \cup {None}
  BY <1>2, <1>3 DEF Old
<1> QED
  BY <1>1, <1>2, <1>3, <1>4, <1>5

\* A thread that leaves notify takes with it what nothing refers to.
LEMMA LeaveEffect ==
    ASSUME TypeOK, Shape, NEW n \in Notifiers, NEW lost, Leave(n, lost), current' = current
    PROVE  /\ Becomes(n, "idle", None, {}, {})
           /\ Table' = Table
           /\ \A m \in Notifiers \ {n} : thread[m].old \in Tables => tables'[thread[m].old] = tables[thread[m].old]
           /\ \A t \in Tables, k \in Keys : tables'[t][k] # None =>
                 /\ tables'[t][k] = tables[t][k] /\ tables[t][k] \in Invokers
                 /\ invokers'[tables[t][k]] = invokers[tables[t][k]]
           /\ \A i \in Invokers :
                 \/ invokers'[i] = invokers[i]
                 \/ /\ invokers'[i] = NoInvoker /\ (lost \/ invokers[i].state = "destroyed")
                    /\ \A k \in Keys : Table[k] # i
<1> DEFINE kept == {current} \cup {thread[m].old : m \in Notifiers \ {n}}
           reached(i) == \E t \in kept \ {None}, k \in Keys : tables[t][k] = i
<1>1. /\ tables' = [t \in Tables |-> IF t \in kept THEN tables[t] ELSE Empty]
      /\ invokers' = [i \in Invokers |->
                         IF ~reached(i) /\ (lost \/ invokers[i].state = "destroyed")
                         THEN NoInvoker ELSE invokers[i]]
  BY DEF Leave
<1>2. Becomes(n, "idle", None, {}, {})
  BY LeaveTypes
<1>3. tables \in [Tables -> [Keys -> {None} \cup Invokers]] /\ current \in Tables /\ current # None
  BY TypeParts, TableNumbers
<1>4. current \in kept /\ \A m \in Notifiers \ {n} : thread[m].old \in kept
  OBVIOUS
<1>5. \A t \in Tables : tables'[t] = IF t \in kept THEN tables[t] ELSE Empty
  BY <1>1
<1>6. \A i \in Invokers : \/ invokers'[i] = invokers[i]
                          \/ /\ invokers'[i] = NoInvoker /\ (lost \/ invokers[i].state = "destroyed")
                             /\ ~reached(i)
  BY <1>1
<1>7. \A t \in Tables, k \in Keys : t \in kept => reached(tables[t][k])
  BY TableNumbers
<1>8. \A i \in Invokers : ~reached(i) => \A k \in Keys : Table[k] # i
  BY <1>3, <1>4, <1>7 DEF Table
<1>9. \A i \in Invokers : reached(i) => invokers'[i] = invokers[i]
  BY <1>1
<1> HIDE DEF kept, reached
<1>10. ASSUME NEW t \in Tables, NEW k \in Keys, tables'[t][k] # None
       PROVE  /\ tables'[t][k] = tables[t][k] /\ tables[t][k] \in Invokers
              /\ invokers'[tables[t][k]] = invokers[tables[t][k]]
  <2>1. t \in kept /\ tables'[t] = tables[t]
    BY <1>5, <1>10 DEF Empty
  <2>2. tables[t][k] \in Invokers
    BY <1>3, <1>10, <2>1
  <2> QED
    BY <1>7, <1>9, <2>1, <2>2
<1>11. Table' = Table
  BY <1>3, <1>4, <1>5 DEF Table
<1> QED
  BY <1>2, <1>4, <1>5, <1>6, <1>8, <1>10, <1>11
----------------------------------------------------------------------------
(* The invariant *)

Rest == Keyed /\ Solo /\ Following /\ Apart /\ InvokersAccounted

LEMMA RestInit == Init => Rest
<1> SUFFICES ASSUME Init PROVE Rest
  OBVIOUS
<1> USE TableNumbers
<1>1. /\ \A t \in Tables, k \in Keys : tables[t][k] = None
      /\ \A n \in Notifiers : ~Notifying(n) /\ ~At(n, "reset") /\ ~At(n, "fill") /\ ~At(n, "refer")
                              /\ ~At(n, "destroy")
      /\ \A i \in Invokers : invokers[i].state = "none"
      /\ current \in Tables /\ settled.known = FALSE
  BY DEF Init, Empty, Notifying, At, Idle, Waiting, NoInvoker, Nothing
<1> QED
  BY <1>1 DEF Rest, Keyed, Solo, Following, Apart, InvokersAccounted, Table

\* A thread that is not in notify, and stays out of it.
LEMMA WaitKeeps ==
    ASSUME TypeOK, Shape, Rest, NEW n \in Notifiers, ~Notifying(n),
           NEW pc \in {"waiting", "idle", "notify"}, NEW todo, Becomes(n, pc, None, todo, {}),
           UNCHANGED <<tableVars, historyVars>>
    PROVE  Rest'
<1> USE DEF tableVars, historyVars
<1>1. /\ thread'[n].pc \in {"waiting", "idle", "notify"} /\ thread'[n].old = None /\ thread[n].old = None
      /\ thread[n].pc \in {"waiting", "idle", "notify"}
      /\ \A m \in Notifiers \ {n} : thread'[m] = thread[m]
  BY FieldTypes DEF Becomes, Shape, Notifying, Places
<1>2. \A m \in Notifiers : Notifying(m)' <=> Notifying(m)
  BY <1>1 DEF Notifying
<1>3. Keyed' /\ Solo'
  BY <1>2 DEF Rest, Keyed, Solo
<1>4. Following'
  BY <1>1 DEF Rest, Following, Notifying, At, Table
<1>5. Apart'
  BY <1>1 DEF Rest, Apart, Filling, Disposing, At, Table, Old, Open
<1>6. InvokersAccounted'
  BY <1>1 DEF Rest, InvokersAccounted, Old
<1> QED
  BY <1>3, <1>4, <1>5, <1>6 DEF Rest

LEMMA ReadKeeps ==
    ASSUME TypeOK, Shape, Rest, NEW n \in Notifiers, NotifyRead(n)
    PROVE  Rest'
<1>1. /\ Becomes(n, "reset", current, thread[n].todo, thread[n].key) /\ thread[n].pc = "notify"
      /\ UNCHANGED <<tables, current, invokers, refused>>
      /\ overlapped' = (overlapped \/ ~Alone(n))
      /\ settled'.known = Alone(n) /\ settled'.urls = thread[n].todo
      /\ thread[n].old = None /\ current # None
  BY ReadBecomes, TypeParts, TableNumbers DEF NotifyRead, At, tableVars, Shape, Notifying
<1>2. /\ thread'[n].pc = "reset" /\ thread'[n].old = current /\ thread'[n].todo = thread[n].todo
      /\ \A m \in Notifiers \ {n} : thread'[m] = thread[m]
  BY <1>1 DEF Becomes
<1>3. Alone(n) => \A m \in Notifiers \ {n} : ~Notifying(m) /\ ~(Notifying(m)')
  BY <1>2 DEF Alone, Notifying
<1>4. ~overlapped' \/ settled'.known => Alone(n)
  BY <1>1
<1>5. Keyed'
  BY <1>1 DEF Rest, Keyed
<1>6. Solo'
  BY <1>3, <1>4 DEF Solo
<1>7. Following'
  <2>1. SUFFICES ASSUME settled'.known PROVE Following'
    BY DEF Following
  <2> QED
    BY <1>1, <1>2, <1>3, <1>4, <2>1 DEF Following, Notifying, At
<1>8. Apart'
  <2>1. SUFFICES ASSUME ~overlapped' PROVE Apart'
    BY DEF Apart
  <2>2. \A k \in Keys : Table'[k] # None => Open(Table[k])' /\ Table' = Table
    BY <1>1, <2>1 DEF Rest, Apart, Open, Table
  <2> QED
    BY <1>1, <1>2, <1>3, <1>4, <2>1, <2>2 DEF Apart, Notifying, At, Table
<1>9. InvokersAccounted'
  <2> SUFFICES ASSUME ~overlapped, ~refused, NEW i \in Invokers, Open(i)
               PROVE  \E k \in Keys : \/ tables'[current'][k] = i
                                      \/ \E m \in Notifiers : thread'[m].old # None /\ (Old(m)')[k] = i
    BY <1>1 DEF InvokersAccounted, Open
  <2>1. PICK k \in Keys : \/ tables[current][k] = i
                          \/ \E m \in Notifiers : thread[m].old # None /\ Old(m)[k] = i
    BY DEF Rest, InvokersAccounted, Open
  <2> QED
    BY <1>1, <1>2, <2>1 DEF Old
<1> QED
  BY <1>5, <1>6, <1>7, <1>8, <1>9 DEF Rest

\* The thread that runs alone.
LEMMA OthersWait ==
    ASSUME Rest, NEW n \in Notifiers, Notifying(n), ~overlapped \/ settled.known
    PROVE  \A m \in Notifiers \ {n} : ~Notifying(m)
  BY DEF Rest, Solo

LEMMA ResetKeeps ==
    ASSUME TypeOK, Shape, Rest, NEW n \in Notifiers, NotifyReset(n)
    PROVE  Rest'
<1>1. /\ Becomes(n, "fill", thread[n].old, thread[n].todo, {}) /\ At(n, "reset")
      /\ UNCHANGED <<invokers, historyVars>>
      /\ \A k \in Keys : Table'[k] = None
      /\ \A t \in Tables : tables'[t] = tables[t] \/ \A k \in Keys : tables'[t][k] = None
      /\ \A m \in Notifiers : thread[m].old \in Tables => tables'[thread[m].old] = tables[thread[m].old]
  BY ResetEffect
<1>2. /\ thread'[n].pc = "fill" /\ thread'[n].old = thread[n].old /\ thread'[n].todo = thread[n].todo
      /\ thread'[n].key = {} /\ thread[n].pc = "reset" /\ Notifying(n) /\ thread[n].old \in Tables
      /\ \A m \in Notifiers \ {n} : thread'[m] = thread[m]
  BY <1>1 DEF Becomes, Notifying, At, Shape
<1>3. \A m \in Notifiers : Notifying(m)' <=> Notifying(m)
  BY <1>2 DEF Notifying
<1>4. Keyed'
  BY <1>1 DEF Rest, Keyed
<1>5. Solo'
  BY <1>1, <1>3 DEF Rest, Solo, historyVars
<1>6. Following'
  <2> SUFFICES ASSUME settled.known PROVE Following'
    BY <1>1 DEF Following, historyVars
  <2>1. \A m \in Notifiers \ {n} : ~Notifying(m)
    BY <1>2, OthersWait
  <2>2. thread[n].todo = settled.urls /\ InTable(Table') = {}
    BY <1>1, <1>2 DEF Rest, Following, At, InTable
  <2>3. InTable(Table)' = InTable(Table')
    BY DEF InTable
  <2> QED
    BY <1>1, <1>2, <2>1, <2>2, <2>3 DEF Following, Notifying, At, historyVars
<1>7. Apart'
  <2> SUFFICES ASSUME ~overlapped PROVE Apart'
    BY <1>1 DEF Apart, historyVars
  <2>1. \A m \in Notifiers \ {n} : ~Notifying(m)
    BY <1>2, OthersWait
  <2>2. (Old(n))' = Table
    <3>1. thread[n].old = current
      BY <1>1 DEF Rest, Apart
    <3> QED
      BY <1>1, <1>2, <3>1 DEF Old, Table
  <2>3. \A k \in Keys : Table[k] # None => invokers'[Table[k]].state = "open"
    BY <1>1 DEF Rest, Apart, Open
  <2>4. Filling(n)'
    <3>1. \A k \in Keys : (Old(n)')[k] # None => invokers'[(Old(n)')[k]].state = "open"
      BY <2>2, <2>3
    <3>2. thread'[n].todo \cap thread'[n].key = {} /\ thread[n].todo \subseteq Keys
      BY <1>2, FieldTypes
    <3> QED
      BY <1>1, <1>2, <3>1, <3>2 DEF Filling, Open
  <2> QED
    BY <1>1, <1>2, <2>1, <2>4 DEF Apart, Notifying, At
<1>8. InvokersAccounted'
  <2> SUFFICES ASSUME ~overlapped, ~refused, NEW i \in Invokers, Open(i)
               PROVE  \E k \in Keys : \E m \in Notifiers : thread'[m].old # None /\ (Old(m)')[k] = i
    BY <1>1 DEF InvokersAccounted, historyVars, Open
  <2>1. \A m \in Notifiers \ {n} : thread[m].old = None
    BY <1>2, OthersWait DEF Shape
  <2>2. thread[n].old = current /\ thread[n].old # None /\ (Old(n))' = Table /\ Old(n) = Table
    BY <1>1, <1>2, TableNumbers DEF Rest, Apart, At, Old, Table
  <2>3. \E k \in Keys : Table[k] = i
    BY <2>1, <2>2 DEF Rest, InvokersAccounted, Open, Table
  <2> QED
    BY <1>2, <2>2, <2>3
<1> QED
  BY <1>4, <1>5, <1>6, <1>7, <1>8 DEF Rest
LEMMA MoveKeeps ==
    ASSUME TypeOK, Shape, Rest, NEW n \in Notifiers, Move(n)
    PROVE  Rest'
<1>1. PICK k \in thread[n].todo :
          /\ Becomes(n, "fill", thread[n].old, thread[n].todo \ {k}, {}) /\ At(n, "fill")
          /\ UNCHANGED <<current, invokers, historyVars>>
          /\ k \in Keys /\ Old(n)[k] \in Invokers /\ thread[n].key = {}
          /\ Table' = [Table EXCEPT ![k] = Old(n)[k]]
          /\ tables'[thread[n].old][k] = None
          /\ \A t \in Tables, j \in Keys :
                \/ tables'[t][j] = tables[t][j] /\ (j # k \/ t # current)
                \/ j = k /\ tables'[t][j] \in {None, Old(n)[k]}
  BY MoveEffect
<1>2. /\ thread'[n].pc = "fill" /\ thread'[n].old = thread[n].old /\ thread'[n].todo = thread[n].todo \ {k}
      /\ thread'[n].key = {} /\ thread[n].pc = "fill" /\ Notifying(n) /\ thread[n].old \in Tables
      /\ \A m \in Notifiers \ {n} : thread'[m] = thread[m]
  BY <1>1 DEF Becomes, Notifying, At, Shape, Working
<1>3. \A m \in Notifiers : Notifying(m)' <=> Notifying(m)
  BY <1>2 DEF Notifying
<1>4. /\ tables \in [Tables -> [Keys -> {None} \cup Invokers]] /\ current \in Tables /\ None \notin Invokers
      /\ Table \in [Keys -> {None} \cup Invokers] /\ thread[n].todo \subseteq Keys
  BY TypeParts, TableNumbers, FieldTypes DEF Table
<1>5. /\ Table'[k] = Old(n)[k] /\ Table'[k] # None /\ \A j \in Keys \ {k} : Table'[j] = Table[j]
      /\ \A j \in Keys \ {k} : (Old(n)')[j] = Old(n)[j]
      /\ (Old(n)')[k] = None
  BY <1>1, <1>2, <1>4 DEF Old
<1>6. Keyed'
  <2>1. invokers[Old(n)[k]].key = {k}
    BY <1>1, <1>2, <1>4 DEF Rest, Keyed, Old
  <2> QED
    BY <1>1, <2>1 DEF Rest, Keyed
<1>7. Solo'
  BY <1>1, <1>3 DEF Rest, Solo, historyVars
<1>8. Following'
  <2> SUFFICES ASSUME settled.known PROVE Following'
    BY <1>1 DEF Following, historyVars
  <2>1. \A m \in Notifiers \ {n} : ~Notifying(m)
    BY <1>2, OthersWait
  <2>2. InTable(Table) \cup thread[n].todo = settled.urls
    BY <1>1, <1>2 DEF Rest, Following
  <2>3. InTable(Table') = InTable(Table) \cup {k}
    BY <1>1, <1>5 DEF InTable
  <2>4. InTable(Table') \cup (thread[n].todo \ {k}) \cup {} = settled.urls
    BY <2>2, <2>3
  <2>5. InTable(Table)' = InTable(Table')
    BY DEF InTable
  <2> QED
    BY <1>1, <1>2, <2>1, <2>4, <2>5 DEF Following, Notifying, At, historyVars
<1>9. Apart'
  <2> SUFFICES ASSUME ~overlapped PROVE Apart'
    BY <1>1 DEF Apart, historyVars
  <2>1. \A m \in Notifiers \ {n} : ~Notifying(m)
    BY <1>2, OthersWait
  <2>2. Filling(n) /\ \A j \in Keys : Table[j] # None => Open(Table[j])
    BY <1>1 DEF Rest, Apart
  <2>3. \A j \in Keys : Table'[j] # None => invokers'[Table'[j]].state = "open"
    <3>1. Open(Old(n)[k])
      BY <1>1, <1>4, <2>2 DEF Filling
    <3> QED
      BY <1>1, <1>5, <2>2, <3>1 DEF Open
  <2>4. Filling(n)'
    <3>1. \A j \in Keys : (Old(n)')[j] # None =>
              Table'[j] = None /\ invokers'[(Old(n)')[j]].state = "open"
      BY <1>1, <1>5, <2>2 DEF Filling, Open
    <3>2. \A j \in thread[n].todo \ {k} : Table'[j] = None
      BY <1>4, <1>5, <2>2 DEF Filling
    <3> QED
      BY <1>2, <3>1, <3>2 DEF Filling, Open
  <2> QED
    BY <1>2, <2>1, <2>3, <2>4 DEF Apart, Notifying, At, Open
<1>10. InvokersAccounted'
  <2> SUFFICES ASSUME ~overlapped, ~refused, NEW i \in Invokers, Open(i)
               PROVE  \E j \in Keys : \/ Table'[j] = i
                                      \/ \E m \in Notifiers : thread'[m].old # None /\ (Old(m)')[j] = i
    BY <1>1 DEF InvokersAccounted, historyVars, Open, Table
  <2>1. \A m \in Notifiers \ {n} : thread[m].old = None
    BY <1>2, OthersWait DEF Shape
  <2>2. PICK j \in Keys : Table[j] = i \/ Old(n)[j] = i
    BY <2>1 DEF Rest, InvokersAccounted, Open, Table
  <2>3. Table[k] = None
    BY <1>1, <1>2 DEF Rest, Apart, Filling
  <2>4. i # None /\ thread[n].old # None
    BY <1>2, TableNumbers
  <2>5. CASE j = k
    BY <1>5, <2>2, <2>3, <2>4, <2>5
  <2>6. CASE j # k
    BY <1>2, <1>5, <2>2, <2>4, <2>6
  <2> QED
    BY <2>5, <2>6
<1> QED
  BY <1>6, <1>7, <1>8, <1>9, <1>10 DEF Rest

LEMMA ConnectKeeps ==
    ASSUME TypeOK, Shape, Rest, NEW n \in Notifiers, Connect(n)
    PROVE  Rest'
<1>1. PICK k \in thread[n].todo : /\ Becomes(n, "refer", thread[n].old, thread[n].todo \ {k}, {k})
                                  /\ Old(n)[k] = None
  BY ConnectBecomes DEF Connect
<1>2. /\ UNCHANGED <<tables, current, invokers, historyVars>> /\ k \in Keys
      /\ thread'[n].pc = "refer" /\ thread'[n].old = thread[n].old /\ thread'[n].todo = thread[n].todo \ {k}
      /\ thread'[n].key = {k} /\ thread[n].pc = "fill" /\ Notifying(n) /\ thread[n].key = {}
      /\ \A m \in Notifiers \ {n} : thread'[m] = thread[m]
  BY <1>1, FieldTypes DEF Becomes, Notifying, At, Shape, Connect, tableVars
<1>3. /\ \A m \in Notifiers : Notifying(m)' <=> Notifying(m)
      /\ Table' = Table /\ (Old(n))' = Old(n)
  BY <1>2 DEF Notifying, Table, Old
<1>4. Keyed' /\ Solo'
  BY <1>2, <1>3 DEF Rest, Keyed, Solo, historyVars
<1>5. Following'
  <2> SUFFICES ASSUME settled.known PROVE Following'
    BY <1>2 DEF Following, historyVars
  <2>1. \A m \in Notifiers \ {n} : ~Notifying(m)
    BY <1>2, OthersWait
  <2>2. InTable(Table) \cup thread[n].todo = settled.urls
    BY <1>2 DEF Rest, Following, At
  <2>3. InTable(Table) \cup (thread[n].todo \ {k}) \cup {k} = settled.urls
    BY <2>2
  <2> QED
    BY <1>2, <1>3, <2>1, <2>3 DEF Following, Notifying, At, historyVars
<1>6. Apart'
  <2> SUFFICES ASSUME ~overlapped PROVE Apart'
    BY <1>2 DEF Apart, historyVars
  <2>1. \A m \in Notifiers \ {n} : ~Notifying(m)
    BY <1>2, OthersWait
  <2>2. Filling(n) /\ \A j \in Keys : Table[j] # None => Open(Table[j])
    BY <1>2 DEF Rest, Apart, At
  <2>3. Filling(n)'
    <3>1. /\ \A j \in (thread[n].todo \ {k}) \cup {k} : Table[j] = None
          /\ \A j \in Keys : Old(n)[j] # None => Table[j] = None /\ j # k /\ Open(Old(n)[j])
      BY <1>1, <2>2 DEF Filling
    <3> QED
      BY <1>2, <1>3, <3>1 DEF Filling, Open
  <2> QED
    BY <1>2, <1>3, <2>1, <2>2, <2>3 DEF Apart, Notifying, At, Open
<1>7. InvokersAccounted'
  BY <1>2 DEF Rest, InvokersAccounted, Old, historyVars
<1> QED
  BY <1>4, <1>5, <1>6, <1>7 DEF Rest

LEMMA ReferKeeps ==
    ASSUME TypeOK, Shape, Rest, NEW n \in Notifiers, Refer(n)
    PROVE  Rest'
<1>0. Keyed
  BY DEF Rest
<1>1. PICK k \in Keys, i \in Invokers :
          /\ Becomes(n, "fill", thread[n].old, thread[n].todo, {}) /\ At(n, "refer")
          /\ thread[n].key = {k} /\ UNCHANGED <<current, historyVars>>
          /\ Table' = [Table EXCEPT ![k] = i]
          /\ invokers' = [invokers EXCEPT ![i] = [key |-> {k}, state |-> "open"]]
          /\ \A t \in Tables, j \in Keys :
                /\ tables[t][j] # i
                /\ tables'[t][j] = tables[t][j] \/ (t = current /\ j = k)
          /\ \A t \in Tables : t # current => tables'[t] = tables[t]
  BY <1>0, ReferEffect
<1>2. /\ thread'[n].pc = "fill" /\ thread'[n].old = thread[n].old /\ thread'[n].todo = thread[n].todo
      /\ thread'[n].key = {} /\ thread[n].pc = "refer" /\ Notifying(n)
      /\ thread[n].old \in Tables /\ thread[n].old # current
      /\ \A m \in Notifiers \ {n} : thread'[m] = thread[m]
  BY <1>1 DEF Becomes, Notifying, At, Shape, Working
<1>3. \A m \in Notifiers : Notifying(m)' <=> Notifying(m)
  BY <1>2 DEF Notifying
<1>4. /\ tables \in [Tables -> [Keys -> {None} \cup Invokers]] /\ current \in Tables /\ None \notin Invokers
      /\ Table \in [Keys -> {None} \cup Invokers] /\ thread[n].todo \subseteq Keys
      /\ invokers \in [Invokers -> InvokerStates]
  BY TypeParts, TableNumbers, FieldTypes DEF Table
<1>5. /\ Table'[k] = i /\ \A j \in Keys \ {k} : Table'[j] = Table[j] /\ Table[j] # i
      /\ Table'[k] = tables'[current][k] /\ (Old(n))' = Old(n) /\ \A j \in Keys : Old(n)[j] # i
      /\ invokers'[i] = [key |-> {k}, state |-> "open"]
      /\ \A j \in Invokers \ {i} : invokers'[j] = invokers[j]
  BY <1>1, <1>2, <1>4 DEF Old, Table
<1>6. Keyed'
  <2> SUFFICES ASSUME NEW t \in Tables, NEW j \in Keys, tables'[t][j] # None
               PROVE  invokers'[tables'[t][j]].key = {j}
    BY DEF Keyed
  <2>1. CASE t = current /\ j = k
    BY <1>5, <2>1
  <2>2. CASE tables'[t][j] = tables[t][j]
    <3>1. tables[t][j] \in Invokers \ {i}
      BY <1>1, <1>4, <2>2
    <3> QED
      BY <1>0, <1>5, <2>2, <3>1 DEF Keyed
  <2> QED
    BY <1>1, <2>1, <2>2
<1>7. Solo'
  BY <1>1, <1>3 DEF Rest, Solo, historyVars
<1>8. Following'
  <2> SUFFICES ASSUME settled.known PROVE Following'
    BY <1>1 DEF Following, historyVars
  <2>1. \A m \in Notifiers \ {n} : ~Notifying(m)
    BY <1>2, OthersWait
  <2>2. InTable(Table) \cup thread[n].todo \cup {k} = settled.urls
    BY <1>1 DEF Rest, Following
  <2>3. InTable(Table') = InTable(Table) \cup {k}
    BY <1>4, <1>5 DEF InTable
  <2>4. InTable(Table') \cup thread[n].todo \cup {} = settled.urls
    BY <2>2, <2>3
  <2>5. InTable(Table)' = InTable(Table')
    BY DEF InTable
  <2>6. settled' = settled
    BY <1>1 DEF historyVars
  <2>7. ~(\A m \in Notifiers : ~Notifying(m)')
    BY <1>2, <1>3
  <2>8. \A m \in Notifiers :
           /\ thread'[m].pc # "reset" /\ thread'[m].pc # "refer" /\ thread'[m].pc # "destroy"
           /\ thread'[m].pc = "fill" => m = n
    BY <1>2, <2>1 DEF Notifying
  <2>9. InTable(Table') \cup thread'[n].todo \cup thread'[n].key = settled.urls
    BY <1>2, <2>4
  <2> QED
    BY <2>5, <2>6, <2>7, <2>8, <2>9 DEF Following, At
<1>9. Apart'
  <2> SUFFICES ASSUME ~overlapped PROVE Apart'
    BY <1>1 DEF Apart, historyVars
  <2>1. \A m \in Notifiers \ {n} : ~Notifying(m)
    BY <1>2, OthersWait
  <2>2. Filling(n) /\ \A j \in Keys : Table[j] # None => Open(Table[j])
    BY <1>1 DEF Rest, Apart
  <2>3. \A j \in Keys : Table'[j] # None => invokers'[Table'[j]].state = "open"
    BY <1>4, <1>5, <2>2 DEF Open
  <2>4. Filling(n)'
    <3>1. \A j \in Keys : Old(n)[j] # None =>
              Table'[j] = None /\ invokers'[Old(n)[j]].state = "open"
      <4>1. \A j \in Keys : Old(n)[j] \in Invokers \cup {None}
        BY <1>2, <1>4 DEF Old
      <4>2. \A j \in Keys : Old(n)[j] # None => Table[j] = None /\ j # k /\ Open(Old(n)[j])
        BY <1>1, <2>2 DEF Filling
      <4> QED
        BY <1>5, <4>1, <4>2 DEF Open
    <3>2. \A j \in thread[n].todo : Table'[j] = None
      BY <1>1, <1>4, <1>5, <2>2 DEF Filling
    <3> QED
      BY <1>2, <1>5, <3>1, <3>2 DEF Filling, Open
  <2> QED
    BY <1>2, <2>1, <2>3, <2>4 DEF Apart, Notifying, At, Open
<1>10. InvokersAccounted'
  <2> SUFFICES ASSUME ~overlapped, ~refused, NEW o \in Invokers, invokers'[o].state = "open"
               PROVE  \E j \in Keys : \/ Table'[j] = o
                                      \/ \E m \in Notifiers : thread'[m].old # None /\ (Old(m)')[j] = o
    BY <1>1 DEF InvokersAccounted, historyVars, Table
  <2>1. CASE o = i
    BY <1>5, <2>1
  <2>2. CASE o # i
    <3>1. \A m \in Notifiers \ {n} : thread[m].old = None
      BY <1>2, OthersWait DEF Shape
    <3>2. Open(o)
      BY <1>5, <2>2 DEF Open
    <3>3. PICK j \in Keys : Table[j] = o \/ Old(n)[j] = o
      BY <3>1, <3>2 DEF Rest, InvokersAccounted, Open, Table
    <3>4. Table[k] = None /\ o # None /\ thread[n].old # None
      BY <1>1, <1>2, TableNumbers DEF Rest, Apart, Filling
    <3> QED
      BY <1>2, <1>5, <3>3, <3>4
  <2> QED
    BY <2>1, <2>2
<1> QED
  BY <1>6, <1>7, <1>8, <1>9, <1>10 DEF Rest
LEMMA StartKeeps ==
    ASSUME TypeOK, Shape, Rest, NEW n \in Notifiers, StartDestroy(n)
    PROVE  Rest'
<1>1. /\ UNCHANGED <<tables, current, invokers, historyVars>>
      /\ thread'[n].pc = "destroy" /\ thread'[n].old = thread[n].old
      /\ thread'[n].todo = InTable(Old(n)) /\ thread'[n].key = InTable(Old(n))
      /\ thread[n].pc = "fill" /\ thread[n].todo = {} /\ Notifying(n) /\ thread[n].key = {}
      /\ \A m \in Notifiers \ {n} : thread'[m] = thread[m]
  BY StartBecomes DEF Becomes, Notifying, At, Shape, StartDestroy, tableVars
<1>2. /\ \A m \in Notifiers : Notifying(m)' <=> Notifying(m)
      /\ Table' = Table /\ (Old(n))' = Old(n)
  BY <1>1 DEF Notifying, Table, Old
<1>3. Keyed' /\ Solo'
  BY <1>1, <1>2 DEF Rest, Keyed, Solo, historyVars
<1>4. Following'
  <2> SUFFICES ASSUME settled.known PROVE Following'
    BY <1>1 DEF Following, historyVars
  <2>1. \A m \in Notifiers \ {n} : ~Notifying(m)
    BY <1>1, OthersWait
  <2>2. InTable(Table) = settled.urls
    BY <1>1 DEF Rest, Following, At
  <2> QED
    BY <1>1, <1>2, <2>1, <2>2 DEF Following, Notifying, At, historyVars
<1>5. Apart'
  <2> SUFFICES ASSUME ~overlapped PROVE Apart'
    BY <1>1 DEF Apart, historyVars
  <2>1. \A m \in Notifiers \ {n} : ~Notifying(m)
    BY <1>1, OthersWait
  <2>2. Filling(n) /\ \A j \in Keys : Table[j] # None => Open(Table[j])
    BY <1>1 DEF Rest, Apart, At
  <2>3. Disposing(n)'
    <3>1. \A j \in InTable(Old(n)) : Table[j] = None /\ Open(Old(n)[j])
      BY <2>2 DEF Filling, InTable
    <3>2. InTable(Old(n))' = InTable(Old(n))
      BY <1>2 DEF InTable
    <3> QED
      BY <1>1, <1>2, <3>1, <3>2 DEF Disposing, Open
  <2> QED
    BY <1>1, <1>2, <2>1, <2>2, <2>3 DEF Apart, Notifying, At, Open
<1>6. InvokersAccounted'
  BY <1>1 DEF Rest, InvokersAccounted, Old, historyVars
<1> QED
  BY <1>3, <1>4, <1>5, <1>6 DEF Rest

LEMMA DestroyKeeps ==
    ASSUME TypeOK, Shape, Rest, NEW n \in Notifiers, Destroy(n)
    PROVE  Rest'
<1>1. PICK k \in thread[n].todo :
          /\ Becomes(n, "destroy", thread[n].old, thread[n].todo \ {k}, thread[n].key) /\ At(n, "destroy")
          /\ UNCHANGED <<tables, current, historyVars>>
          /\ k \in Keys /\ Old(n)[k] \in Invokers \cup {None} /\ thread[n].key = InTable(Old(n))
          /\ invokers' = [invokers EXCEPT ![Old(n)[k]].state = "destroyed"]
          /\ Open(Old(n)[k])
  BY DestroyEffect
<1>2. /\ thread'[n].pc = "destroy" /\ thread'[n].old = thread[n].old /\ thread'[n].todo = thread[n].todo \ {k}
      /\ thread'[n].key = thread[n].key /\ thread[n].pc = "destroy" /\ Notifying(n)
      /\ thread[n].old \in Tables /\ thread[n].old # current
      /\ \A m \in Notifiers \ {n} : thread'[m] = thread[m]
  BY <1>1 DEF Becomes, Notifying, At, Shape, Working
<1>3. /\ \A m \in Notifiers : Notifying(m)' <=> Notifying(m)
      /\ Table' = Table /\ (Old(n))' = Old(n)
  BY <1>1, <1>2 DEF Notifying, Table, Old
<1>4. /\ tables \in [Tables -> [Keys -> {None} \cup Invokers]] /\ current \in Tables /\ None \notin Invokers
      /\ invokers \in [Invokers -> InvokerStates]
  BY TypeParts, TableNumbers
<1>5. \A j \in Invokers : /\ invokers'[j].key = invokers[j].key
                          /\ j = Old(n)[k] => invokers'[j].state = "destroyed"
                          /\ j # Old(n)[k] => invokers'[j] = invokers[j]
  BY <1>1, <1>4 DEF InvokerStates
<1>6. Keyed'
  <2> SUFFICES ASSUME NEW t \in Tables, NEW j \in Keys, tables[t][j] # None
               PROVE  invokers'[tables[t][j]].key = {j}
    BY <1>1 DEF Keyed
  <2>1. tables[t][j] \in Invokers /\ invokers[tables[t][j]].key = {j}
    BY <1>4 DEF Rest, Keyed
  <2> QED
    BY <1>5, <2>1
<1>7. Solo'
  BY <1>1, <1>3 DEF Rest, Solo, historyVars
<1>8. Following'
  <2> SUFFICES ASSUME settled.known PROVE Following'
    BY <1>1 DEF Following, historyVars
  <2>1. \A m \in Notifiers \ {n} : ~Notifying(m)
    BY <1>2, OthersWait
  <2>2. InTable(Table) = settled.urls
    BY <1>1 DEF Rest, Following
  <2> QED
    BY <1>1, <1>2, <1>3, <2>1, <2>2 DEF Following, Notifying, At, historyVars
<1>9. Apart'
  <2> SUFFICES ASSUME ~overlapped PROVE Apart'
    BY <1>1 DEF Apart, historyVars
  <2>1. \A m \in Notifiers \ {n} : ~Notifying(m)
    BY <1>2, OthersWait
  <2>2. Disposing(n) /\ \A j \in Keys : Table[j] # None => Open(Table[j])
    <3>1. Apart
      BY DEF Rest
    <3> QED
      BY <1>1, <3>1, ZenonT(60) DEF Apart
  <2>3. /\ k \in thread[n].key /\ Table[k] = None /\ Old(n)[k] \in Invokers /\ invokers[Old(n)[k]].key = {k}
        /\ \A j \in Keys : Old(n)[j] \in Invokers \cup {None}
        /\ \A j \in Keys : Old(n)[j] # None => invokers[Old(n)[j]].key = {j}
        /\ \A j \in Keys : Table[j] \in Invokers \cup {None}
        /\ \A j \in Keys : Table[j] # None => invokers[Table[j]].key = {j}
    <3>1. k \in thread[n].key /\ Table[k] = None /\ Old(n)[k] # None
      BY <1>1, <2>2 DEF Disposing, InTable
    <3>2. \A t \in Tables, j \in Keys : /\ tables[t][j] \in Invokers \cup {None}
                                        /\ tables[t][j] # None => invokers[tables[t][j]].key = {j}
      BY <1>4 DEF Rest, Keyed
    <3> QED
      BY <1>1, <1>2, <1>4, <3>1, <3>2 DEF Old, Table
  <2>4. \A j \in Keys : Table[j] # None => invokers'[Table[j]].state = "open"
    <3> SUFFICES ASSUME NEW j \in Keys, Table[j] # None PROVE invokers'[Table[j]].state = "open"
      OBVIOUS
    <3>1. j # k /\ Table[j] \in Invokers
      BY <2>3
    <3>2. Table[j] # Old(n)[k]
      BY <2>3, <3>1
    <3> QED
      BY <1>5, <2>2, <3>1, <3>2 DEF Open
  <2>5. \A j \in thread[n].key : /\ Table[j] = None
                                 /\ invokers'[Old(n)[j]].state = "open" <=> j \in thread[n].todo \ {k}
    <3> SUFFICES ASSUME NEW j \in thread[n].key
                 PROVE  invokers'[Old(n)[j]].state = "open" <=> j \in thread[n].todo \ {k}
      BY <2>2 DEF Disposing
    <3>1. j \in Keys /\ Old(n)[j] \in Invokers /\ (Open(Old(n)[j]) <=> j \in thread[n].todo)
      BY <2>2, <2>3 DEF Disposing, InTable
    <3>2. CASE j = k
      BY <1>5, <3>1, <3>2
    <3>3. CASE j # k
      <4>1. invokers[Old(n)[j]].key = {j} /\ invokers[Old(n)[k]].key = {k}
        BY <2>3, <3>1 DEF Invokers, None
      <4>2. Old(n)[j] # Old(n)[k]
        BY <3>3, <4>1
      <4> QED
        BY <1>5, <3>1, <3>3, <4>2 DEF Open
    <3> QED
      BY <3>2, <3>3
  <2>6. Disposing(n)'
    <3>1. InTable(Old(n))' = InTable(Old(n))
      BY <1>3, SMTT(30) DEF InTable
    <3> QED
      BY <1>1, <1>2, <1>3, <2>2, <2>5, <3>1 DEF Disposing, Open
  <2> QED
    BY <1>2, <1>3, <2>1, <2>4, <2>6 DEF Apart, Notifying, At, Open
<1>10. InvokersAccounted'
  <2>1. \A j \in Invokers : invokers'[j].state = "open" => invokers[j].state = "open"
    BY <1>5
  <2> QED
    BY <1>1, <1>2, <2>1 DEF Rest, InvokersAccounted, Old, historyVars
<1> QED
  BY <1>6, <1>7, <1>8, <1>9, <1>10 DEF Rest

\* A thread leaves notify, at its end or with an exception.
LEMMA LeaveKeeps ==
    ASSUME TypeOK, Shape, Rest, NEW n \in Notifiers, NEW lost, Leave(n, lost), Notifying(n),
           UNCHANGED <<current, overlapped>>,
           \/ settled' = Nothing
           \/ settled' = settled /\ (settled.known => InTable(Table) = settled.urls),
           \/ overlapped \/ refused'
           \/ /\ ~lost /\ refused' = refused
              /\ \A k \in Keys : Old(n)[k] # None => ~Open(Old(n)[k])
    PROVE  Rest'
<1>1. /\ Becomes(n, "idle", None, {}, {})
      /\ Table' = Table
      /\ \A m \in Notifiers \ {n} : thread[m].old \in Tables => tables'[thread[m].old] = tables[thread[m].old]
      /\ \A t \in Tables, k \in Keys : tables'[t][k] # None =>
            /\ tables'[t][k] = tables[t][k] /\ tables[t][k] \in Invokers
            /\ invokers'[tables[t][k]] = invokers[tables[t][k]]
      /\ \A i \in Invokers :
            \/ invokers'[i] = invokers[i]
            \/ /\ invokers'[i] = NoInvoker /\ (lost \/ invokers[i].state = "destroyed")
               /\ \A k \in Keys : Table[k] # i
  BY LeaveEffect
<1>2. /\ thread'[n].pc = "idle" /\ thread'[n].old = None
      /\ \A m \in Notifiers \ {n} : thread'[m] = thread[m]
      /\ current \in Tables
  BY <1>1, TypeParts DEF Becomes
<1>3. \A m \in Notifiers : Notifying(m)' => Notifying(m) /\ m # n
  BY <1>2 DEF Notifying
<1>4. settled'.known => settled.known /\ settled' = settled
  BY DEF Nothing
<1>5. Keyed'
  BY <1>1 DEF Rest, Keyed
<1>6. Solo'
  BY <1>3, <1>4 DEF Rest, Solo
<1>7. Following'
  <2> SUFFICES ASSUME settled'.known PROVE Following'
    BY DEF Following
  <2>1. InTable(Table) = settled.urls /\ settled' = settled /\ settled.known
    BY <1>4 DEF Nothing
  <2>2. \A m \in Notifiers : ~(Notifying(m)')
    BY <1>3, <2>1, OthersWait
  <2>3. InTable(Table)' = InTable(Table)
    BY <1>1 DEF InTable
  <2> QED
    BY <2>1, <2>2, <2>3 DEF Following, Notifying, At
<1>8. Apart'
  <2> SUFFICES ASSUME ~overlapped PROVE Apart'
    BY DEF Apart
  <2>1. \A k \in Keys : Table[k] # None => invokers'[Table[k]].state = "open"
    BY <1>1, <1>2 DEF Rest, Apart, Open, Table
  <2>2. \A m \in Notifiers : ~(Notifying(m)')
    BY <1>3, OthersWait
  <2> QED
    BY <1>1, <2>1, <2>2 DEF Apart, Notifying, At, Open
<1>9. InvokersAccounted'
  <2> SUFFICES ASSUME ~overlapped, ~refused', NEW i \in Invokers, invokers'[i].state = "open"
               PROVE  \E k \in Keys : Table'[k] = i
    BY DEF InvokersAccounted, Table
  <2>1. /\ ~lost /\ ~refused
        /\ \A k \in Keys : Old(n)[k] # None => ~Open(Old(n)[k])
    OBVIOUS
  <2>2. invokers'[i] = invokers[i]
    BY <1>1 DEF NoInvoker
  <2>3. \A m \in Notifiers \ {n} : thread[m].old = None
    BY <2>1, OthersWait DEF Shape
  <2>4. PICK k \in Keys : Table[k] = i \/ Old(n)[k] = i
    BY <2>2, <2>3 DEF Rest, InvokersAccounted, Table
  <2>5. i # None
    BY TableNumbers
  <2> QED
    BY <1>1, <2>1, <2>2, <2>4, <2>5 DEF Open
<1> QED
  BY <1>5, <1>6, <1>7, <1>8, <1>9 DEF Rest
LEMMA NotifyKeeps ==
    ASSUME TypeOK, Shape, Rest, NEW n \in Notifiers, Notify(n)
    PROVE  Rest'
<1>1. CASE MoveFails(n)
  <2>1. PICK m \in Notifiers \ {n} : Notifying(m)
    BY <1>1 DEF MoveFails, Notifying, At
  <2>2. Notifying(n)
    BY <1>1 DEF MoveFails, Notifying, At
  <2>3. overlapped
    BY <2>1, <2>2, OthersWait, TypeParts
  <2> QED
    BY <1>1, <2>2, <2>3, LeaveKeeps DEF MoveFails, Raise
<1>2. CASE ReferFails(n)
  <2>1. Notifying(n)
    BY <1>2 DEF ReferFails, Notifying, At
  <2> QED
    BY <1>2, <2>1, LeaveKeeps DEF ReferFails, Raise
<1>3. CASE DestroyFails(n)
  <2>1. Notifying(n) /\ At(n, "destroy")
    BY <1>3 DEF DestroyFails, Notifying, At
  <2>2. overlapped
    <3> SUFFICES ASSUME ~overlapped PROVE FALSE
      OBVIOUS
    <3>1. Disposing(n)
      BY <2>1 DEF Rest, Apart
    <3>2. PICK k \in thread[n].todo \cap InTable(Old(n)) : invokers[Old(n)[k]].state = "destroyed"
      BY <1>3, <3>1 DEF DestroyFails, Disposing
    <3> QED
      BY <3>1, <3>2 DEF Disposing, Open
  <2> QED
    BY <1>3, <2>1, <2>2, LeaveKeeps DEF DestroyFails, Raise
<1>4. CASE NotifyEnds(n)
  <2>1. /\ Notifying(n) /\ thread[n].todo = {} /\ Leave(n, overlapped \/ refused)
        /\ At(n, "destroy") \/ (At(n, "fill") /\ InTable(Old(n)) = {})
        /\ UNCHANGED <<current, overlapped, refused, settled>>
    BY <1>4 DEF NotifyEnds, Notifying, At, historyVars
  <2>2. settled.known => InTable(Table) = settled.urls
    <3>1. CASE At(n, "destroy")
      BY <3>1 DEF Rest, Following
    <3>2. CASE At(n, "fill")
      <4>1. thread[n].key = {} /\ thread[n].todo = {}
        BY <2>1, <3>2 DEF Shape, At
      <4> QED
        BY <3>2, <4>1 DEF Rest, Following
    <3> QED
      BY <2>1, <3>1, <3>2
  <2>3. ~overlapped => \A k \in Keys : Old(n)[k] # None => ~Open(Old(n)[k])
    <3>1. CASE At(n, "destroy")
      BY <2>1, <3>1 DEF Rest, Apart, Disposing, InTable
    <3>2. CASE InTable(Old(n)) = {}
      BY <3>2 DEF InTable
    <3> QED
      BY <2>1, <3>1, <3>2
  <2>4. overlapped \in BOOLEAN /\ refused \in BOOLEAN
    BY TypeParts
  <2>5. CASE overlapped \/ refused
    BY <2>1, <2>2, <2>5, LeaveKeeps
  <2>6. CASE ~overlapped /\ ~refused
    BY <2>1, <2>2, <2>3, <2>6, LeaveKeeps
  <2> QED
    BY <2>5, <2>6
<1> QED
  BY <1>1, <1>2, <1>3, <1>4, ReadKeeps, ResetKeeps, MoveKeeps, ConnectKeeps, ReferKeeps, StartKeeps,
     DestroyKeeps DEF Notify

LEMMA RestNext == TypeOK /\ Shape /\ Rest /\ [Next]_vars => Rest'
<1> SUFFICES ASSUME TypeOK, Shape, Rest, [Next]_vars PROVE Rest'
  OBVIOUS
<1>1. ASSUME UNCHANGED <<tableVars, thread, historyVars>> PROVE Rest'
  BY <1>1 DEF tableVars, historyVars, Rest, Keyed, Solo, Following, Apart, InvokersAccounted, Filling,
     Disposing, Notifying, At, Table, Old, Open
<1>2. ASSUME NEW n \in Notifiers, Listed(n), ~Notifying(n), UNCHANGED <<tableVars, historyVars>> PROVE Rest'
  <2>1. Becomes(n, "notify", None, registered, {})
    <3>1. thread[n].old = None /\ thread[n].key = {}
      BY <1>2 DEF Shape, Notifying
    <3> QED
      BY <1>2, <3>1, TodoBecomes, TypeParts DEF Listed, Places
  <2> QED
    BY <1>2, <2>1, WaitKeeps
<1>3. CASE Subscribe
  <2>1. ~Notifying("subscriber") /\ UNCHANGED <<tableVars, historyVars>>
    BY <1>3 DEF Subscribe, Notifying, At
  <2>2. CASE Listed("subscriber")
    BY <1>2, <2>1, <2>2 DEF Notifiers
  <2>3. CASE thread' = [thread EXCEPT !["subscriber"] = Idle]
    BY <2>1, <2>3, LeaveBecomes, WaitKeeps DEF Notifiers
  <2> QED
    BY <1>3, <2>2, <2>3 DEF Subscribe
<1>4. CASE Tick
  BY <1>2, <1>4 DEF Tick, Notifying, At, Notifiers
<1>5. CASE Unsubscribe
  <2>1. Becomes("subscriber", "notify", None, {}, {})
    BY <1>5, IdleBecomes DEF Unsubscribe, Notifiers, Places
  <2> QED
    BY <1>5, <2>1, WaitKeeps DEF Unsubscribe, Notifying, At, Notifiers
<1>6. ASSUME NEW n \in Notifiers, Notify(n) PROVE Rest'
  BY <1>6, NotifyKeeps
<1>7. CASE \E k \in Keys : Change(k)
  BY <1>1, <1>7 DEF Change
<1>8. CASE UNCHANGED vars
  BY <1>1, <1>8 DEF vars
<1> QED
  BY <1>3, <1>4, <1>5, <1>6, <1>7, <1>8 DEF Next, Subscriber, Timer, Notifiers

DirectoryInv == TypeOK /\ Shape /\ Rest

LEMMA Inductive == Spec => []DirectoryInv
<1>1. Init => DirectoryInv
  BY TypeInit, ShapeInit, RestInit DEF DirectoryInv
<1>2. DirectoryInv /\ [Next]_vars => DirectoryInv'
  BY TypeNext, ShapeNext, RestNext DEF DirectoryInv
<1> QED
  BY <1>1, <1>2, PTL DEF Spec

\* Open invokers can be destroyed, for any providers and bounds, unless notifications
\* overlapped or one was cut short (directories.py 42-57).
THEOREM AllAccounted == Spec => []InvokersAccounted
  BY Inductive, PTL DEF DirectoryInv, Rest

\* After a notification that ran alone the table is what it was given, with an open
\* invoker for each URL (directories.py 39-57).
THEOREM TableIsFollowed == Spec => []TableFollows
<1>1. DirectoryInv => TableFollows
  <2> SUFFICES ASSUME DirectoryInv, settled.known, \A n \in Notifiers : ~Notifying(n)
               PROVE  /\ InTable(Table) = settled.urls
                      /\ overlapped \/ \A k \in settled.urls : invokers[Table[k]] = [key |-> {k}, state |-> "open"]
    BY DEF TableFollows, Table
  <2>1. InTable(Table) = settled.urls
    BY DEF DirectoryInv, Rest, Following
  <2>2. ASSUME ~overlapped, NEW k \in settled.urls
        PROVE  invokers[Table[k]] = [key |-> {k}, state |-> "open"]
    <3>1. k \in Keys /\ Table[k] # None
      BY <2>1 DEF InTable
    <3>2. invokers[Table[k]].key = {k} /\ invokers[Table[k]].state = "open"
      BY <2>2, <3>1, TypeParts DEF DirectoryInv, Rest, Keyed, Apart, Table, Open
    <3>3. invokers[Table[k]] \in InvokerStates
      BY <3>1, TypeParts DEF DirectoryInv, Table
    <3> QED
      BY <3>2, <3>3 DEF InvokerStates
  <2> QED
    BY <2>1, <2>2
<1> QED
  BY Inductive, <1>1, PTL
----------------------------------------------------------------------------
(* Every step is a step of InvokerTable, or changes nothing that its readers see *)

Step == [Implements!TableNext]_(Implements!tableVars)

LEMMA SeeNothing ==
    ASSUME Table' = Table, UNCHANGED <<invokers, overlapped>>
    PROVE  Step
  BY DEF Step, Implements!tableVars, Table

LEMMA ReadImplements ==
    ASSUME TypeOK, NEW n \in Notifiers, NotifyRead(n)
    PROVE  Step
<1>1. Table' = Table /\ invokers' = invokers /\ (overlapped' = overlapped \/ overlapped' = TRUE)
  <2>1. Table' = Table /\ invokers' = invokers /\ overlapped' = (overlapped \/ ~Alone(n))
    BY DEF NotifyRead, tableVars, Table
  <2>2. overlapped \in BOOLEAN
    BY TypeParts
  <2> QED
    BY <2>1, <2>2
<1>2. CASE overlapped' = TRUE
  BY <1>1, <1>2 DEF Step, Table, Implements!TableNext, Implements!Overlap
<1>3. CASE overlapped' = overlapped
  BY <1>1, <1>3, SeeNothing
<1> QED
  BY <1>1, <1>2, <1>3

LEMMA ResetImplements ==
    ASSUME TypeOK, Shape, NEW n \in Notifiers, NotifyReset(n)
    PROVE  Step
<1>1. PICK t \in Tables : tables' = [tables EXCEPT ![t] = Empty] /\ current' = t
  BY DEF NotifyReset
<1>2. tables'[current'] = Implements!Empty /\ UNCHANGED <<invokers, overlapped>>
  BY <1>1, TypeParts DEF NotifyReset, historyVars, Empty, Implements!Empty, None, Implements!None
<1> QED
  BY <1>2 DEF Step, Implements!TableNext, Implements!Clear

LEMMA MoveImplements ==
    ASSUME TypeOK, Shape, Rest, NEW n \in Notifiers, Move(n)
    PROVE  Step
<1>1. PICK k \in thread[n].todo :
          /\ At(n, "fill") /\ UNCHANGED <<current, invokers, historyVars>>
          /\ k \in Keys /\ Old(n)[k] \in Invokers
          /\ Table' = [Table EXCEPT ![k] = Old(n)[k]]
  BY MoveEffect
<1> DEFINE i == Old(n)[k]
<1>2. i # None /\ thread[n].old \in Tables
  BY <1>1, TableNumbers DEF Shape, Working, At
<1>3. invokers[i].key = {k}
  BY <1>1, <1>2 DEF Rest, Keyed, Old
<1>4. overlapped \/ (invokers[i].state = "open" /\ Table[k] = None)
  BY <1>1, <1>2 DEF Rest, Apart, Filling, Open
<1>5. invokers[i].state = "open" => invokers[i] = [key |-> {k}, state |-> "open"]
  <2>1. invokers[i] \in InvokerStates
    BY <1>1, TypeParts
  <2> QED
    BY <1>3, <2>1 DEF InvokerStates
<1>6. Implements!Keep(k, i)
  BY <1>1, <1>3, <1>4, <1>5 DEF Implements!Keep, Table, None, Implements!None, historyVars
<1> QED
  BY <1>1, <1>6 DEF Step, Implements!TableNext, Invokers, Implements!Invokers

LEMMA ReferImplements ==
    ASSUME TypeOK, Shape, Rest, NEW n \in Notifiers, Refer(n)
    PROVE  Step
<1>1. Keyed
  BY DEF Rest
<1>2. PICK k \in Keys, i \in Invokers :
          /\ At(n, "refer") /\ thread[n].key = {k} /\ UNCHANGED <<current, historyVars>>
          /\ Table' = [Table EXCEPT ![k] = i]
          /\ invokers' = [invokers EXCEPT ![i] = [key |-> {k}, state |-> "open"]]
          /\ \A t \in Tables, j \in Keys : tables[t][j] # i
  BY <1>1, ReferEffect
<1>3. \A j \in Keys : Table[j] # i
  BY <1>2, TypeParts DEF Table
<1>4. overlapped \/ Table[k] = None
  BY <1>2 DEF Rest, Apart, Filling
<1>5. Implements!Connect(k, i)
  BY <1>2, <1>3, <1>4 DEF Implements!Connect, Implements!Listed, Table, None, Implements!None, historyVars
<1> QED
  BY <1>2, <1>5 DEF Step, Implements!TableNext, Invokers, Implements!Invokers

LEMMA DestroyImplements ==
    ASSUME TypeOK, Shape, Rest, NEW n \in Notifiers, Destroy(n)
    PROVE  Step
<1>1. PICK k \in thread[n].todo :
          /\ At(n, "destroy") /\ UNCHANGED <<tables, current, historyVars>>
          /\ k \in Keys /\ Old(n)[k] \in Invokers \cup {None}
          /\ invokers' = [invokers EXCEPT ![Old(n)[k]].state = "destroyed"]
          /\ Open(Old(n)[k])
  BY DestroyEffect
<1> DEFINE i == Old(n)[k]
<1>2. thread[n].old \in Tables /\ current \in Tables /\ invokers \in [Invokers -> InvokerStates]
  BY <1>1, TypeParts DEF Shape, Working, At
<1>3. CASE i \in Invokers
  <2>1. invokers[i].key = {k} /\ i # None
    BY <1>1, <1>2, <1>3, TableNumbers DEF Rest, Keyed, Old
  <2>2. ~overlapped => \A j \in Keys : Table[j] # i
    <3> SUFFICES ASSUME ~overlapped, NEW j \in Keys, Table[j] = i PROVE FALSE
      OBVIOUS
    <3>1. invokers[i].key = {j}
      BY <1>2, <2>1 DEF Rest, Keyed, Table
    <3>2. j = k
      BY <2>1, <3>1
    <3>3. k \in thread[n].key /\ Table[k] = None
      BY <1>1 DEF Rest, Apart, Disposing
    <3> QED
      BY <2>1, <3>2, <3>3
  <2>3. Implements!Destroy(i)
    BY <1>1, <2>2 DEF Implements!Destroy, Implements!Listed, Table, Open, historyVars
  <2> QED
    BY <1>3, <2>3 DEF Step, Implements!TableNext, Invokers, Implements!Invokers
<1>4. CASE i \notin Invokers
  <2>1. invokers' = invokers /\ Table' = Table /\ overlapped' = overlapped
    BY <1>1, <1>2, <1>4 DEF Table, historyVars
  <2> QED
    BY <2>1, SeeNothing
<1> QED
  BY <1>3, <1>4

LEMMA LeaveImplements ==
    ASSUME TypeOK, Shape, NEW n \in Notifiers, NEW lost, Leave(n, lost), UNCHANGED <<current, overlapped>>
    PROVE  Step
<1>1. /\ Table' = Table
      /\ \A i \in Invokers :
            \/ invokers'[i] = invokers[i]
            \/ invokers'[i] = NoInvoker /\ \A k \in Keys : Table[k] # i
      /\ invokers' \in [Invokers -> InvokerStates]
  BY LeaveEffect, LeaveTypes
<1> DEFINE gone == {i \in Invokers : invokers'[i] = NoInvoker /\ \A k \in Keys : Table[k] # i}
<1>2. /\ gone \in SUBSET Invokers /\ \A i \in gone : \A k \in Keys : Table[k] # i
      /\ invokers' = [i \in Invokers |-> IF i \in gone THEN NoInvoker ELSE invokers[i]]
  BY <1>1
<1> HIDE DEF gone
<1>3. Implements!Forget(gone)
  BY <1>1, <1>2 DEF Implements!Forget, Implements!Listed, Table, NoInvoker, Implements!NoInvoker, Invokers,
     Implements!Invokers
<1> QED
  BY <1>2, <1>3 DEF Step, Implements!TableNext, Invokers, Implements!Invokers

LEMMA NextImplements == DirectoryInv /\ [Next]_vars => Step
<1> SUFFICES ASSUME TypeOK, Shape, Rest, [Next]_vars PROVE Step
  BY DEF DirectoryInv
<1>1. ASSUME UNCHANGED <<tableVars, historyVars>> PROVE Step
  BY <1>1, SeeNothing DEF tableVars, historyVars, Table
<1>2. ASSUME NEW n \in Notifiers, Notify(n) PROVE Step
  <2>1. CASE Connect(n) \/ StartDestroy(n)
    BY <1>1, <2>1 DEF Connect, StartDestroy
  <2>2. CASE MoveFails(n) \/ ReferFails(n) \/ DestroyFails(n) \/ NotifyEnds(n)
    BY <2>2, LeaveImplements DEF MoveFails, ReferFails, DestroyFails, NotifyEnds, Raise, historyVars
  <2> QED
    BY <1>2, <2>1, <2>2, ReadImplements, ResetImplements, MoveImplements, ReferImplements, DestroyImplements
       DEF Notify
<1>3. CASE Subscribe \/ Tick \/ Unsubscribe \/ \E k \in Keys : Change(k)
  BY <1>1, <1>3 DEF Subscribe, Tick, Unsubscribe, Change
<1>4. CASE UNCHANGED vars
  BY <1>1, <1>4 DEF vars
<1> QED
  BY <1>2, <1>3, <1>4 DEF Next, Subscriber, Timer, Notifiers

\* The readers of a directory see the table InvokerTable describes, for any providers
\* and bounds: no invoker is destroyed while it is in the table, as long as no
\* notifications overlap (directories.py 39-57).
THEOREM TableIsImplemented == Spec => ImplementsTable
<1>1. Init => Implements!TableInit
  BY TypeInit, TypeParts DEF Init, Implements!TableInit, Implements!Empty, Empty, None, Implements!None, NoInvoker,
     Implements!NoInvoker, Invokers, Implements!Invokers
<1>2. DirectoryInv /\ [Next]_vars => [Implements!TableNext]_(Implements!tableVars)
  BY NextImplements DEF Step
<1> QED
  BY Inductive, <1>1, <1>2, PTL DEF Spec, ImplementsTable, Implements!TableSpec

----------------------------------------------------------------------------
(* ZooKeeper: types *)

Running == [busy : BOOLEAN, urls : SUBSET Providers]
Prior == [known : BOOLEAN, urls : SUBSET Providers]

LEMMA RunningType ==
    \A b \in BOOLEAN, u \in SUBSET Providers : [busy |-> b, urls |-> u] \in Running
  BY DEF Running

LEMMA PriorType ==
    \A b \in BOOLEAN, u \in SUBSET Providers : [known |-> b, urls |-> u] \in Prior
  BY DEF Prior

LEMMA SetNodeTypes ==
    ASSUME RegistryTypes, NEW p \in Providers, NEW owner \in {"none", "own", "left"}, SetNode(p, owner)
    PROVE  /\ node' \in [Providers -> {"none", "own", "left"}]
           /\ armed' \in BOOLEAN /\ event' \in BOOLEAN
<1>1. node' \in [Providers -> {"none", "own", "left"}]
  BY DEF SetNode, RegistryTypes
<1>2. CASE armed /\ ~(node[p] = "none" <=> owner = "none")
  BY <1>1, <1>2, Zenon DEF SetNode
<1>3. CASE ~(armed /\ ~(node[p] = "none" <=> owner = "none"))
  BY <1>1, <1>3, Zenon DEF SetNode, RegistryTypes
<1> QED
  BY <1>2, <1>3

\* Every step keeps the variables well typed.
LEMMA RegistryNextTypes == RegistryTypes /\ [RegistryNext]_registryVars => RegistryTypes'
<1> SUFFICES ASSUME RegistryTypes, [RegistryNext]_registryVars PROVE RegistryTypes'
  OBVIOUS
<1> USE RegistryAssumption DEF RegistryTypes
<1>1. ASSUME NEW p \in Providers, Start(p) \/ Update(p) PROVE RegistryTypes'
  BY <1>1 DEF Start, Update, Gone, zooVars, consumerVars, watchVars
<1>2. ASSUME NEW p \in Providers, Create(p) PROVE RegistryTypes'
  BY <1>2, SetNodeTypes DEF Create
<1>3. ASSUME NEW p \in Providers, Bind(p) PROVE RegistryTypes'
  BY <1>3 DEF Bind, Fault, zooVars, consumerVars, watchVars
<1>4. ASSUME NEW p \in Providers, Crash(p) PROVE RegistryTypes'
  BY <1>4 DEF Crash, Fault, consumerVars, watchVars
<1>5. ASSUME NEW p \in Providers, Expire(p) PROVE RegistryTypes'
  BY <1>5, SetNodeTypes DEF Expire, providerVars
<1>6. ASSUME NEW p \in Providers, LoseSession(p) PROVE RegistryTypes'
  BY <1>6, SetNodeTypes DEF LoseSession, Fault
<1>7. CASE StartClient \/ Resume
  BY <1>7 DEF StartClient, Resume, zooVars, providerVars, watchVars
<1>8. CASE Fetch
  <2>1. Children \in SUBSET Providers
    BY DEF Children
  <2>2. CASE parent
    <3>1. prior' = [known |-> TRUE, urls |-> Children] /\ armed' = TRUE /\ established' = TRUE
      BY <1>8, <2>2 DEF Fetch
    <3>2. prior' \in Prior
      BY <2>1, <3>1, PriorType
    <3>3. running' = [busy |-> prior # prior', urls |-> Children]
      BY <1>8, <2>2 DEF Fetch
    <3>4. running' \in Running
      BY <2>1, <3>3, RunningType
    <3> QED
      BY <1>8, <2>2, <3>1, <3>2, <3>4, Zenon DEF Fetch, Running, Prior, zooVars, providerVars
  <2>3. CASE ~parent
    BY <1>8, <2>3, Zenon DEF Fetch, zooVars, providerVars
  <2> QED
    BY <2>2, <2>3
<1>9. CASE Notified \/ Refused
  <2>1. Still \in [busy : BOOLEAN, urls : SUBSET Providers]
    BY RunningType DEF Still, Running
  <2>2. listed' \subseteq Providers
    <3>1. running.urls \subseteq Providers
      OBVIOUS
    <3> QED
      BY <1>9, <3>1 DEF Notified, Refused, Given
  <2>3. consumer' \in {"new", "subscribing", "ready", "failed"}
    BY <1>9 DEF Notified, Refused
  <2> QED
    BY <1>9, <2>1, <2>2, <2>3, Zenon DEF Notified, Refused, zooVars, providerVars
<1>10. CASE Suspend
  <2>1. faults' \in 0..MaxFaults
    BY <1>10 DEF Suspend, Fault
  <2> QED
    BY <1>10, <2>1, Zenon DEF Suspend, Lapses, zooVars, providerVars
<1>11. CASE UNCHANGED registryVars
  BY <1>11 DEF registryVars, zooVars, providerVars, consumerVars, watchVars
<1> QED
  BY <1>1, <1>2, <1>3, <1>4, <1>5, <1>6, <1>7, <1>8, <1>9, <1>10, <1>11 DEF RegistryNext, Export, Watch

LEMMA RegistryInitTypes == RegistryInit => RegistryTypes
<1> SUFFICES ASSUME RegistryInit PROVE RegistryTypes
  OBVIOUS
<1>1. Unknown \in Prior /\ Still \in Running
  BY PriorType, RunningType DEF Unknown, Still
<1>2. faults \in 0..MaxFaults /\ node \in [Providers -> {"none", "own", "left"}]
  BY RegistryAssumption DEF RegistryInit
<1>3. process \in [Providers -> {"down", "create", "set", "bind", "serving", "unbound"}]
  BY DEF RegistryInit
<1> QED
  BY <1>1, <1>2, <1>3, Zenon DEF RegistryInit, RegistryTypes, Prior, Running

\* The variables are well typed.
THEOREM RegistryTypesHold == RegistrySpec => []RegistryTypes
<1> QED
  BY RegistryInitTypes, RegistryNextTypes, PTL DEF RegistrySpec

----------------------------------------------------------------------------
(* ZooKeeper: the providers *)

\* From its registration on, a process that neither took over a node nor lost its
\* session is the owner of its node.
Owned ==
    \A p \in Providers :
        process[p] \in {"bind", "serving", "unbound"} /\ p \notin adopted \cup expired
            => node[p] = "own"

LEMMA NextOwned == RegistryTypes /\ Owned /\ [RegistryNext]_registryVars => Owned'
<1> SUFFICES ASSUME RegistryTypes, Owned, [RegistryNext]_registryVars, NEW q \in Providers,
                    process'[q] \in {"bind", "serving", "unbound"},
                    q \notin adopted' \cup expired'
             PROVE  node'[q] = "own"
  BY DEF Owned
<1> USE DEF RegistryTypes, Owned
<1>1. ASSUME NEW p \in Providers, Start(p) \/ Update(p) PROVE node'[q] = "own"
  BY <1>1 DEF Start, Update, Gone, zooVars
<1>2. ASSUME NEW p \in Providers, Create(p) PROVE node'[q] = "own"
  BY <1>2 DEF Create, SetNode
<1>3. ASSUME NEW p \in Providers, Bind(p) PROVE node'[q] = "own"
  BY <1>3 DEF Bind, zooVars
<1>4. ASSUME NEW p \in Providers, Crash(p) PROVE node'[q] = "own"
  BY <1>4 DEF Crash
<1>5. ASSUME NEW p \in Providers, Expire(p) PROVE node'[q] = "own"
  BY <1>5 DEF Expire, SetNode, providerVars
<1>6. ASSUME NEW p \in Providers, LoseSession(p) PROVE node'[q] = "own"
  BY <1>6 DEF LoseSession, SetNode
<1>7. CASE StartClient \/ Watch \/ Suspend \/ UNCHANGED registryVars
  BY <1>7 DEF StartClient, Watch, Fetch, Notified, Refused, Suspend, Resume, registryVars, zooVars, providerVars
<1> QED
  BY <1>1, <1>2, <1>3, <1>4, <1>5, <1>6, <1>7 DEF RegistryNext, Export

\* A provider that serves has the node it created, unless its process took over the
\* node of an earlier one or its session expired.
THEOREM Registered == RegistrySpec => []ServingIsRegistered
<1>1. RegistryInit => Owned
  BY DEF RegistryInit, Owned
<1>2. Owned => ServingIsRegistered
  BY DEF Owned, ServingIsRegistered, Serving
<1> QED
  BY <1>1, <1>2, RegistryTypesHold, NextOwned, PTL DEF RegistrySpec

----------------------------------------------------------------------------
(* ZooKeeper: the watch *)

\* An established watch is armed for the children it knows, or has fired; and its path
\* exists, so that the next fetch arms it again.
Watching == established => parent /\ (event \/ (armed /\ prior.urls = Children))

\* What a change of a node does to the watch.
LEMMA SetNodeWatches ==
    ASSUME RegistryTypes, Watching, NEW p \in Providers, NEW owner \in {"none", "own", "left"},
           SetNode(p, owner), established' = established, parent => parent', prior' = prior
    PROVE  Watching'
<1>1. CASE armed /\ ~(node[p] = "none" <=> owner = "none")
  BY <1>1 DEF SetNode, Watching
<1>2. CASE (node[p] = "none") <=> (owner = "none")
  <2>1. Children' = Children
    BY <1>2 DEF SetNode, Children, RegistryTypes
  <2> QED
    BY <1>2, <2>1 DEF SetNode, Watching
<1>3. CASE ~armed
  BY <1>3 DEF SetNode, Watching
<1> QED
  BY <1>1, <1>2, <1>3

LEMMA NextWatching == RegistryTypes /\ Watching /\ [RegistryNext]_registryVars => Watching'
<1> SUFFICES ASSUME RegistryTypes, Watching, [RegistryNext]_registryVars PROVE Watching'
  OBVIOUS
<1>1. ASSUME NEW p \in Providers, Start(p) \/ Update(p) \/ Bind(p) PROVE Watching'
  BY <1>1 DEF Watching, Start, Update, Bind, Children, zooVars, consumerVars, watchVars
<1>2. ASSUME NEW p \in Providers, Create(p) PROVE Watching'
  BY <1>2, SetNodeWatches DEF Create
<1>3. ASSUME NEW p \in Providers, Crash(p) PROVE Watching'
  <2>1. Children' = Children
    BY <1>3 DEF Crash, Children, RegistryTypes
  <2> QED
    BY <1>3, <2>1 DEF Watching, Crash, consumerVars, watchVars
<1>4. ASSUME NEW p \in Providers, Expire(p) PROVE Watching'
  BY <1>4, SetNodeWatches DEF Expire
<1>5. ASSUME NEW p \in Providers, LoseSession(p) PROVE Watching'
  BY <1>5, SetNodeWatches DEF LoseSession
<1>6. CASE StartClient \/ Resume
  BY <1>6 DEF Watching, StartClient, Resume, Children, zooVars, watchVars
<1>7. CASE Fetch
  <2>1. Children' = Children
    BY <1>7 DEF Fetch, Children, zooVars
  <2>2. CASE parent
    <3>1. armed' = TRUE /\ prior'.urls = Children /\ parent'
      BY <1>7, <2>2 DEF Fetch, zooVars
    <3> QED
      BY <2>1, <3>1 DEF Watching
  <2>3. CASE ~parent
    BY <1>7, <2>3, Zenon DEF Fetch, Watching
  <2> QED
    BY <2>2, <2>3
<1>8. CASE Notified \/ Refused
  BY <1>8 DEF Watching, Notified, Refused, Children, zooVars
<1>9. CASE Suspend
  BY <1>9 DEF Watching, Suspend, Lapses
<1>10. CASE UNCHANGED registryVars
  BY <1>10 DEF Watching, Children, registryVars, zooVars, consumerVars, watchVars
<1> QED
  BY <1>1, <1>2, <1>3, <1>4, <1>5, <1>6, <1>7, <1>8, <1>9, <1>10 DEF RegistryNext, Export, Watch

\* A consumer that is connected and whose watch found the path of the service knows the
\* providers that are registered, or is about to be told.
THEOREM NoWatchLost == RegistrySpec => []NothingMissed
<1>1. RegistryInit => Watching
  BY DEF RegistryInit, Watching
<1>2. Watching => NothingMissed
  BY DEF Watching, NothingMissed
<1> QED
  BY <1>1, <1>2, RegistryTypesHold, NextWatching, PTL DEF RegistrySpec
=============================================================================
