-------------------------- MODULE Lawgenesis_proofs --------------------------
(***************************************************************************)
(* The logger has a handler of its last configuration, whatever the number *)
(* of the threads that configure it, and its uploaders lose no record. A   *)
(* Lawgenesis service is built as its configurations say, whatever the     *)
(* other facades of the process do, and what its cache gives is an answer. *)
(***************************************************************************)
EXTENDS Logging, Service, SequenceTheorems, TLAPS

(***************************************************************************)
(* The logger's configuration                                              *)
(***************************************************************************)

Configurations == Settings \cup {Initial}

ConfigTypeOK ==
    /\ config \in Configurations
    /\ lock \in Admins \cup {Nobody}
    /\ admin \in [Admins -> {"idle", "assigned", "cleared", "done"}]
    /\ taken \in [Admins -> Configurations]
    /\ handler \in Handlers \cup {NoHandler}
    /\ url \in [Handlers -> Configurations]

\* The lock is held by the thread between the two steps of a refresh.
LockHeld == \A a \in Admins : admin[a] = "cleared" <=> lock = a

\* Meanwhile there is no handler.
NoneWhileLocked == lock # Nobody => handler = NoHandler

UpToDate ==
    IF lock = Nobody
    THEN /\ handler # NoHandler <=> Loki(config)
         /\ handler # NoHandler => url[handler] = config
    ELSE taken[lock] = config

\* A configuration that was assigned and not looked at yet excuses both the handler
\* and the configuration that was taken.
Latest == (\A a \in Admins : admin[a] # "assigned") => UpToDate

ConfigInv == ConfigTypeOK /\ LockHeld /\ NoneWhileLocked /\ Latest

LEMMA ConfigInit == Init => ConfigInv
<1> SUFFICES ASSUME Init PROVE ConfigInv
  OBVIOUS
<1> USE LoggingAssumption DEF Init
<1>1. ConfigTypeOK
  BY DEF ConfigTypeOK, Handlers, Configurations
<1>2. LockHeld /\ NoneWhileLocked
  BY DEF LockHeld, NoneWhileLocked, Nobody
<1>3. Initial \in Handlers /\ Initial # NoHandler
  BY DEF Handlers
<1>4. Latest
  BY <1>3 DEF Latest, UpToDate, Loki
<1> QED
  BY <1>1, <1>2, <1>4 DEF ConfigInv

LEMMA SetConfigKeeps ==
    ASSUME ConfigInv, NEW a \in Admins, NEW c \in Settings, SetConfig(a, c)
    PROVE  ConfigInv'
<1> USE LoggingAssumption DEF ConfigInv
<1>1. ConfigTypeOK'
  BY DEF SetConfig, AdminStep, ConfigTypeOK, Configurations, uploaderVars, threadVars
<1>2. admin'[a] = "assigned" /\ admin[a] = "idle"
  BY DEF SetConfig, AdminStep, ConfigTypeOK
<1>3. Latest'
  BY <1>2 DEF Latest
<1>4. LockHeld' /\ NoneWhileLocked'
  BY <1>2 DEF SetConfig, AdminStep, ConfigTypeOK, LockHeld, NoneWhileLocked
<1> QED
  BY <1>1, <1>3, <1>4

LEMMA ClearHandlersKeeps ==
    ASSUME ConfigInv, NEW a \in Admins, ClearHandlers(a)
    PROVE  ConfigInv'
<1> USE LoggingAssumption DEF ConfigInv
<1>1. ConfigTypeOK'
  BY DEF ClearHandlers, AdminStep, ConfigTypeOK, Configurations, uploaderVars, threadVars
<1>2. admin' = [admin EXCEPT ![a] = "cleared"] /\ lock = Nobody /\ lock' = a /\ handler' = NoHandler
      /\ taken'[a] = config /\ config' = config /\ a # Nobody
  BY DEF ClearHandlers, AdminStep, LockIsFree, ConfigTypeOK, Nobody
<1>3. Latest'
  BY <1>2 DEF Latest, UpToDate
<1>4. LockHeld' /\ NoneWhileLocked'
  BY <1>2 DEF ConfigTypeOK, LockHeld, NoneWhileLocked, Nobody
<1> QED
  BY <1>1, <1>3, <1>4

LEMMA AddHandlerKeeps ==
    ASSUME ConfigInv, NEW a \in Admins, AddHandler(a)
    PROVE  ConfigInv'
<1> USE LoggingAssumption DEF ConfigInv
<1>1. /\ admin[a] = "cleared" /\ admin' = [admin EXCEPT ![a] = "done"]
      /\ lock' = Nobody /\ config' = config /\ taken' = taken /\ lock = a /\ a # Nobody
  BY DEF AddHandler, AdminStep, LockHeld, Nobody
<1>2. CASE Loki(taken[a])
  <2>1. handler' = a /\ url' = [url EXCEPT ![a] = config]
    BY <1>2 DEF AddHandler
  <2>2. ConfigTypeOK'
    BY <1>1, <2>1 DEF ConfigTypeOK, Handlers
  <2>3. LockHeld' /\ NoneWhileLocked'
    BY <1>1 DEF LockHeld, NoneWhileLocked, ConfigTypeOK, Nobody
  <2>4. ASSUME \A b \in Admins : admin'[b] # "assigned" PROVE UpToDate'
    <3>1. \A b \in Admins : admin[b] # "assigned"
      BY <1>1, <2>4 DEF ConfigTypeOK
    <3>2. taken[a] = config
      BY <1>1, <3>1 DEF Latest, UpToDate
    <3>3. url'[a] = config /\ a # NoHandler
      BY <2>1 DEF ConfigTypeOK, Handlers
    <3> QED
      BY <1>1, <1>2, <2>1, <3>2, <3>3 DEF UpToDate, Loki
  <2> QED
    BY <2>2, <2>3, <2>4 DEF Latest
<1>3. CASE ~Loki(taken[a])
  <2>1. handler' = NoHandler /\ url' = url
    BY <1>1, <1>3 DEF AddHandler, NoneWhileLocked
  <2>2. ConfigTypeOK'
    BY <1>1, <2>1 DEF ConfigTypeOK
  <2>3. LockHeld' /\ NoneWhileLocked'
    BY <1>1 DEF LockHeld, NoneWhileLocked, ConfigTypeOK, Nobody
  <2>4. ASSUME \A b \in Admins : admin'[b] # "assigned" PROVE UpToDate'
    <3>1. \A b \in Admins : admin[b] # "assigned"
      BY <1>1, <2>4 DEF ConfigTypeOK
    <3>2. taken[a] = config
      BY <1>1, <3>1 DEF Latest, UpToDate
    <3> QED
      BY <1>1, <1>3, <2>1, <3>2 DEF UpToDate, Loki
  <2> QED
    BY <2>2, <2>3, <2>4 DEF Latest
<1> QED
  BY <1>2, <1>3

\* The other threads do not touch the configuration.
LEMMA OthersKeep ==
    ASSUME ConfigInv, UNCHANGED <<configVars, url>>
    PROVE  ConfigInv'
  BY DEF configVars, ConfigInv, ConfigTypeOK, LockHeld, NoneWhileLocked, Latest, UpToDate, Loki, Configurations,
     Handlers, Nobody

LEMMA ConfigNext == ConfigInv /\ [Next]_vars => ConfigInv'
<1> SUFFICES ASSUME ConfigInv, [Next]_vars PROVE ConfigInv'
  OBVIOUS
<1>1. ASSUME NEW a \in Admins, Configuring(a) PROVE ConfigInv'
  BY <1>1, SetConfigKeeps, ClearHandlersKeeps, AddHandlerKeeps DEF Configuring
<1>2. ASSUME NEW t \in Threads, Find(t) \/ Put(t) PROVE ConfigInv'
  BY <1>2, OthersKeep DEF Find, Put, uploaderVars
<1>3. ASSUME NEW h \in Handlers, Uploading(h) PROVE ConfigInv'
  BY <1>3, OthersKeep DEF Uploading, CheckStop, GetRecord, GetTimesOut, Posted
<1>4. ASSUME NEW h \in Handlers, Stopping(h) PROVE ConfigInv'
  BY <1>4, OthersKeep DEF Stopping, Stop, Joined, Drain
<1>5. CASE UNCHANGED vars
  BY <1>5, OthersKeep DEF vars, uploaderVars
<1> QED
  BY <1>1, <1>2, <1>3, <1>4, <1>5 DEF Next

\* Whatever threads configure the logger and in whatever order their steps come, its
\* handler is of the last configuration when they are done (loggers.py 125-178).
THEOREM ConfigFollowed == Spec => []FollowsConfig
<1>1. ConfigInv => FollowsConfig
  BY DEF ConfigInv, ConfigTypeOK, FollowsConfig, LockHeld, Latest, UpToDate
<1> QED
  BY ConfigInit, ConfigNext, <1>1, PTL DEF Spec

----------------------------------------------------------------------------
(* Ordered sequences *)

Sorted(s) == \A i, j \in DOMAIN s : i < j => s[i] < s[j]

LEMMA SortedAppend ==
    ASSUME NEW s \in Seq(Nat), NEW n \in Nat, ToSet(s) \subseteq 1..n, Sorted(s)
    PROVE  /\ Sorted(Append(s, n + 1))
           /\ ToSet(Append(s, n + 1)) = ToSet(s) \cup {n + 1}
<1> DEFINE t == Append(s, n + 1)
<1>1. t \in Seq(Nat) /\ Len(t) = Len(s) + 1 /\ t[Len(s) + 1] = n + 1 /\ \A i \in 1..Len(s) : t[i] = s[i]
  BY AppendProperties
<1>2. DOMAIN s = 1..Len(s) /\ DOMAIN t = 1..Len(s) + 1 /\ Len(s) \in Nat
  BY <1>1
<1> HIDE DEF t
<1>3. \A i \in 1..Len(s) : s[i] \in 1..n
  BY <1>2 DEF ToSet
<1>4. Sorted(t)
  <2>1. \A i, j \in 1..Len(s) : i < j => s[i] < s[j]
    BY <1>2 DEF Sorted
  <2>2. ASSUME NEW i \in 1..Len(s) + 1, NEW j \in 1..Len(s) + 1, i < j PROVE t[i] < t[j]
    <3>1. CASE j = Len(s) + 1
      BY <3>1, <1>1, <1>2, <1>3, <2>2, SMTT(60)
    <3>2. CASE j # Len(s) + 1
      <4>1. i \in 1..Len(s) /\ j \in 1..Len(s)
        BY <3>2, <1>2, <2>2
      <4> QED
        BY <4>1, <1>1, <2>1, <2>2
    <3> QED
      BY <3>1, <3>2
  <2> QED
    BY <1>2, <2>2 DEF Sorted
<1>5. ToSet(t) = ToSet(s) \cup {n + 1}
  <2>1. ToSet(t) = {t[i] : i \in 1..Len(s) + 1} /\ ToSet(s) = {s[i] : i \in 1..Len(s)}
    BY <1>2 DEF ToSet
  <2>2. \A i \in 1..Len(s) + 1 : i \in 1..Len(s) \/ i = Len(s) + 1
    BY <1>2
  <2>3. Len(s) + 1 \in 1..Len(s) + 1 /\ \A i \in 1..Len(s) : i \in 1..Len(s) + 1
    BY <1>2
  <2> QED
    BY <1>1, <2>1, <2>2, <2>3
<1> QED
  BY <1>4, <1>5 DEF t

LEMMA ConcatFacts ==
    ASSUME NEW s \in Seq(Nat), NEW t \in Seq(Nat)
    PROVE  /\ s \o t \in Seq(Nat) /\ Len(s \o t) = Len(s) + Len(t)
           /\ \A i \in 1..Len(s \o t) : (s \o t)[i] = IF i <= Len(s) THEN s[i] ELSE t[i - Len(s)]
  BY ConcatProperties

\* The middle of an ordered sequence is taken out.
LEMMA SortedCut ==
    ASSUME NEW a \in Seq(Nat), NEW b \in Seq(Nat), NEW c \in Seq(Nat),
           NEW s, s = (a \o b) \o c, NEW t, t = a \o c, Sorted(s)
    PROVE  Sorted(t) /\ ToSet(s) = ToSet(t) \cup ToSet(b) /\ ToSet(b) \cap ToSet(t) = {}
<1> DEFINE ab == a \o b
<1>1. /\ ab \in Seq(Nat) /\ Len(ab) = Len(a) + Len(b)
      /\ \A i \in 1..Len(ab) : ab[i] = IF i <= Len(a) THEN a[i] ELSE b[i - Len(a)]
  BY ConcatFacts
<1> HIDE DEF ab
<1>2. /\ s \in Seq(Nat) /\ Len(s) = Len(ab) + Len(c)
      /\ \A i \in 1..Len(s) : s[i] = IF i <= Len(ab) THEN ab[i] ELSE c[i - Len(ab)]
  <2>1. s = ab \o c
    BY DEF ab
  <2> QED
    BY <1>1, <2>1, ConcatFacts
<1>3. /\ t \in Seq(Nat) /\ Len(t) = Len(a) + Len(c)
      /\ \A i \in 1..Len(t) : t[i] = IF i <= Len(a) THEN a[i] ELSE c[i - Len(a)]
  BY ConcatFacts
<1>4. Len(a) \in Nat /\ Len(b) \in Nat /\ Len(c) \in Nat
  OBVIOUS
<1>5. DOMAIN s = 1..Len(s) /\ DOMAIN t = 1..Len(t) /\ DOMAIN b = 1..Len(b)
  BY <1>2, <1>3
<1>6. \A i, j \in 1..Len(s) : i < j => s[i] < s[j]
  BY <1>5 DEF Sorted
<1> DEFINE up(i) == IF i <= Len(a) THEN i ELSE i + Len(b)
<1>7. \A i \in 1..Len(t) : up(i) \in 1..Len(s) /\ t[i] = s[up(i)]
  <2> TAKE i \in 1..Len(t)
  <2>1. CASE i <= Len(a)
    <3>1. i \in 1..Len(s) /\ i \in 1..Len(ab) /\ up(i) = i
      BY <2>1, <1>1, <1>2, <1>3, <1>4, SMTT(30)
    <3> QED
      BY <2>1, <3>1, <1>1, <1>2, <1>3, <1>4
  <2>2. CASE ~(i <= Len(a))
    <3>1. up(i) = i + Len(b) /\ up(i) \in 1..Len(s) /\ ~(up(i) <= Len(ab))
      BY <2>2, <1>1, <1>2, <1>3, <1>4
    <3>2. up(i) - Len(ab) = i - Len(a)
      BY <3>1, <1>1, <1>3, <1>4
    <3>3. t[i] = c[i - Len(a)] /\ s[up(i)] = c[up(i) - Len(ab)]
      BY <2>2, <3>1, <1>2, <1>3
    <3> QED
      BY <3>1, <3>2, <3>3
  <2> QED
    BY <2>1, <2>2
<1>8. \A i \in 1..Len(b) : i + Len(a) \in 1..Len(s) /\ b[i] = s[i + Len(a)]
  BY <1>1, <1>2, <1>4
<1>9. \A i, j \in 1..Len(t) : i < j => up(i) < up(j)
  BY <1>3, <1>4
<1>10. \A i \in 1..Len(t), j \in 1..Len(b) : up(i) # j + Len(a)
  BY <1>3, <1>4
<1>11. \A i \in 1..Len(s) : (\E j \in 1..Len(t) : i = up(j)) \/ (\E j \in 1..Len(b) : i = j + Len(a))
  <2> TAKE i \in 1..Len(s)
  <2>1. CASE i <= Len(a)
    BY <2>1, <1>3, <1>4
  <2>2. CASE i > Len(a) /\ i <= Len(a) + Len(b)
    <3>1. i - Len(a) \in 1..Len(b) /\ i = (i - Len(a)) + Len(a)
      BY <2>2, <1>4
    <3> QED
      BY <3>1
  <2>3. CASE i > Len(a) + Len(b)
    <3>1. i - Len(b) \in 1..Len(t) /\ up(i - Len(b)) = i
      BY <2>3, <1>1, <1>2, <1>3, <1>4
    <3> QED
      BY <3>1
  <2> QED
    BY <2>1, <2>2, <2>3, <1>1, <1>2, <1>4
<1>12. \A i \in 1..Len(s), j \in 1..Len(s) : i # j => s[i] # s[j]
  <2> SUFFICES ASSUME NEW i \in 1..Len(s), NEW j \in 1..Len(s), i # j PROVE s[i] # s[j]
    OBVIOUS
  <2>1. s[i] \in Nat /\ s[j] \in Nat
    BY <1>2, <1>5, ElementOfSeq
  <2>2. i < j \/ j < i
    BY <1>2
  <2>3. s[i] < s[j] \/ s[j] < s[i]
    BY <1>6, <2>2
  <2>4. \A x, y \in Nat : x < y \/ y < x => x # y
    OBVIOUS
  <2> QED
    BY <2>1, <2>3, <2>4, Zenon
<1> HIDE DEF up
<1>13. Sorted(t)
  <2>1. ASSUME NEW i \in 1..Len(t), NEW j \in 1..Len(t), i < j PROVE t[i] < t[j]
    <3>1. up(i) \in 1..Len(s) /\ up(j) \in 1..Len(s) /\ up(i) < up(j)
      BY <2>1, <1>7, <1>9
    <3> QED
      BY <3>1, <1>6, <1>7, Zenon
  <2> QED
    BY <2>1, <1>5 DEF Sorted
<1>14. ToSet(s) = ToSet(t) \cup ToSet(b)
  <2>0. /\ ToSet(s) = {s[i] : i \in 1..Len(s)} /\ ToSet(t) = {t[i] : i \in 1..Len(t)}
        /\ ToSet(b) = {b[i] : i \in 1..Len(b)}
    BY <1>5 DEF ToSet
  <2>1. ASSUME NEW i \in 1..Len(s) PROVE s[i] \in ToSet(t) \cup ToSet(b)
    <3>1. CASE \E j \in 1..Len(t) : i = up(j)
      BY <3>1, <2>0, <1>7
    <3>2. CASE \E j \in 1..Len(b) : i = j + Len(a)
      BY <3>2, <2>0, <1>8
    <3> QED
      BY <3>1, <3>2, <1>11
  <2>2. \A x \in ToSet(t) : x \in ToSet(s)
    BY <2>0, <1>7, ZenonT(60)
  <2>3. \A x \in ToSet(b) : x \in ToSet(s)
    BY <2>0, <1>8
  <2> QED
    <3>1. ToSet(s) \subseteq ToSet(t) \cup ToSet(b)
      BY <2>0, <2>1, Zenon
    <3> QED
      BY <2>2, <2>3, <3>1, Zenon
<1>15. ToSet(b) \cap ToSet(t) = {}
  <2>1. \A i \in 1..Len(t), j \in 1..Len(b) : t[i] # b[j]
    <3> TAKE i \in 1..Len(t), j \in 1..Len(b)
    <3>1. up(i) \in 1..Len(s) /\ j + Len(a) \in 1..Len(s) /\ up(i) # j + Len(a)
      BY <1>7, <1>8, <1>10
    <3> QED
      BY <3>1, <1>7, <1>8, <1>12, ZenonT(60)
  <2> QED
    BY <1>5, <2>1 DEF ToSet
<1> QED
  BY <1>13, <1>14, <1>15

LEMMA NatAssociative ==
    \A s, t, u \in Seq(Nat) : (s \o t) \o u = s \o (t \o u)
<1> SUFFICES ASSUME NEW s \in Seq(Nat), NEW t \in Seq(Nat), NEW u \in Seq(Nat)
             PROVE  (s \o t) \o u = s \o (t \o u)
  OBVIOUS
<1> DEFINE l == (s \o t) \o u
           r == s \o (t \o u)
<1>1. /\ s \o t \in Seq(Nat) /\ t \o u \in Seq(Nat)
      /\ Len(s) \in Nat /\ Len(t) \in Nat /\ Len(u) \in Nat
  BY ConcatProperties
<1>2. l \in Seq(Nat) /\ r \in Seq(Nat)
  BY <1>1, ConcatProperties
<1>3. Len(l) = Len(s) + Len(t) + Len(u) /\ Len(r) = Len(s) + Len(t) + Len(u)
  BY <1>1, ConcatProperties
<1>4. ASSUME NEW i \in 1..Len(l) PROVE l[i] = r[i]
  BY <1>1, <1>3, <1>4, ConcatProperties
<1> QED
  BY <1>2, <1>3, <1>4, SeqEqual

LEMMA AppendMoves ==
    ASSUME NEW s \in Seq(Nat), NEW t \in Seq(Nat), NEW x \in Nat
    PROVE  s \o Append(t, x) = Append(s \o t, x)
<1>1. <<x>> \in Seq(Nat) /\ s \o t \in Seq(Nat)
  OBVIOUS
<1>2. Append(t, x) = t \o <<x>> /\ Append(s \o t, x) = (s \o t) \o <<x>>
  BY <1>1, AppendIsConcat
<1>3. s \o (t \o <<x>>) = (s \o t) \o <<x>>
  BY <1>1, NatAssociative, Zenon
<1> QED
  BY <1>2, <1>3

LEMMA HeadMoves ==
    ASSUME NEW s \in Seq(Nat), NEW q \in Seq(Nat), q # <<>>
    PROVE  /\ Head(q) \in Nat /\ Tail(q) \in Seq(Nat)
           /\ Append(s, Head(q)) \o Tail(q) = s \o q
           /\ s \o q = (s \o <<Head(q)>>) \o Tail(q)
<1>1. Head(q) \in Nat /\ Tail(q) \in Seq(Nat) /\ <<Head(q)>> \in Seq(Nat)
  BY HeadTailProperties
<1>2. q = <<Head(q)>> \o Tail(q)
  BY HeadTailAppend, HeadTailProperties
<1>3. s \o (<<Head(q)>> \o Tail(q)) = (s \o <<Head(q)>>) \o Tail(q)
  BY <1>1, NatAssociative, Zenon
<1>4. Append(s, Head(q)) = s \o <<Head(q)>>
  BY <1>1, AppendIsConcat
<1> QED
  BY <1>1, <1>2, <1>3, <1>4

----------------------------------------------------------------------------
(* Where the records are: T[h] is what went through a handler, D was dropped and E
   discarded, of n records *)

InPlace(T, n, D, E) ==
    /\ \A h \in Handlers : Sorted(T[h]) /\ ToSet(T[h]) \subseteq 1..n
    /\ \A r \in 1..n : r \in D \cup E \/ \E h \in Handlers : r \in ToSet(T[h])
    /\ D \cup E \subseteq 1..n /\ D \cap E = {}
    /\ \A h \in Handlers : ToSet(T[h]) \cap (D \cup E) = {}
    /\ \A g, h \in Handlers : g # h => ToSet(T[g]) \cap ToSet(T[h]) = {}

\* A record is put into a queue.
LEMMA PutInPlace ==
    ASSUME NEW T, NEW T2, NEW n \in Nat, NEW D, NEW E, InPlace(T, n, D, E),
           NEW h \in Handlers, T[h] \in Seq(Nat), T2[h] = Append(T[h], n + 1),
           \A g \in Handlers \ {h} : T2[g] = T[g]
    PROVE  InPlace(T2, n + 1, D, E)
<1>1. Sorted(T2[h]) /\ ToSet(T2[h]) = ToSet(T[h]) \cup {n + 1}
  BY SortedAppend DEF InPlace
<1>2. /\ \A g \in Handlers \ {h} : Sorted(T2[g]) /\ ToSet(T2[g]) = ToSet(T[g])
      /\ \A g \in Handlers : ToSet(T[g]) \subseteq 1..n
  BY DEF InPlace
<1>3. 1..(n + 1) = 1..n \cup {n + 1} /\ n + 1 \notin 1..n
  OBVIOUS
<1>4. \A r \in 1..(n + 1) : r \in D \cup E \/ \E g \in Handlers : r \in ToSet(T2[g])
  <2> TAKE r \in 1..(n + 1)
  <2>1. CASE r = n + 1
    BY <2>1, <1>1
  <2>2. CASE r \in 1..n
    BY <2>2, <1>1, <1>2 DEF InPlace
  <2> QED
    BY <2>1, <2>2, <1>3
<1>5. \A g \in Handlers : Sorted(T2[g]) /\ ToSet(T2[g]) \subseteq 1..(n + 1)
  BY <1>1, <1>2, <1>3
<1>6. \A g \in Handlers : ToSet(T2[g]) \cap (D \cup E) = {}
  <2> TAKE g \in Handlers
  <2>1. D \cup E \subseteq 1..n /\ ToSet(T[g]) \cap (D \cup E) = {}
    BY DEF InPlace
  <2>2. ToSet(T2[g]) \subseteq ToSet(T[g]) \cup {n + 1}
    BY <1>1, <1>2
  <2> QED
    BY <2>1, <2>2, <1>3
<1>7. ASSUME NEW f \in Handlers, NEW g \in Handlers, f # g PROVE ToSet(T2[f]) \cap ToSet(T2[g]) = {}
  <2>1. ToSet(T[f]) \cap ToSet(T[g]) = {} /\ ToSet(T[f]) \subseteq 1..n /\ ToSet(T[g]) \subseteq 1..n
    BY <1>2, <1>7 DEF InPlace
  <2>2. f # h \/ g # h
    BY <1>7
  <2> QED
    BY <2>1, <2>2, <1>1, <1>2, <1>3
<1>8. D \cup E \subseteq 1..(n + 1) /\ D \cap E = {}
  BY <1>3 DEF InPlace
<1> QED
  BY <1>4, <1>5, <1>6, <1>7, <1>8 DEF InPlace

\* Records are dropped or discarded.
LEMMA CutInPlace ==
    ASSUME NEW T, NEW T2, NEW n \in Nat, NEW D, NEW E, InPlace(T, n, D, E),
           NEW h \in Handlers, NEW a \in Seq(Nat), NEW b \in Seq(Nat), NEW c \in Seq(Nat),
           T[h] = (a \o b) \o c, T2[h] = a \o c,
           \A g \in Handlers \ {h} : T2[g] = T[g]
    PROVE  InPlace(T2, n, D \cup ToSet(b), E) /\ InPlace(T2, n, D, E \cup ToSet(b))
<1>1. /\ Sorted(T2[h]) /\ ToSet(T[h]) = ToSet(T2[h]) \cup ToSet(b)
      /\ ToSet(b) \cap ToSet(T2[h]) = {}
  <2>1. Sorted(T[h])
    BY DEF InPlace
  <2>2. \A s, t : s = (a \o b) \o c /\ t = a \o c /\ Sorted(s) =>
            Sorted(t) /\ ToSet(s) = ToSet(t) \cup ToSet(b) /\ ToSet(b) \cap ToSet(t) = {}
    BY SortedCut
  <2> QED
    BY <2>1, <2>2, Zenon
<1>2. \A g \in Handlers \ {h} : Sorted(T2[g]) /\ ToSet(T2[g]) = ToSet(T[g])
  BY DEF InPlace
<1>3. \A g \in Handlers : ToSet(T2[g]) \subseteq ToSet(T[g])
  BY <1>1, <1>2
<1>4. /\ \A g \in Handlers : Sorted(T2[g]) /\ ToSet(T2[g]) \subseteq 1..n
      /\ \A f, g \in Handlers : f # g => ToSet(T2[f]) \cap ToSet(T2[g]) = {}
  BY <1>1, <1>2, <1>3 DEF InPlace
<1>5. ASSUME NEW r \in 1..n
      PROVE  r \in D \cup E \cup ToSet(b) \/ \E g \in Handlers : r \in ToSet(T2[g])
  <2>1. CASE r \in D \cup E
    BY <2>1
  <2>2. ASSUME NEW g \in Handlers, r \in ToSet(T[g])
        PROVE  r \in D \cup E \cup ToSet(b) \/ \E f \in Handlers : r \in ToSet(T2[f])
    BY <2>2, <1>1, <1>2
  <2> QED
    BY <2>1, <2>2 DEF InPlace
<1>6. \A g \in Handlers : ToSet(T2[g]) \cap (D \cup E \cup ToSet(b)) = {}
  <2> TAKE g \in Handlers
  <2>1. ToSet(T2[g]) \cap (D \cup E) = {}
    BY <1>3 DEF InPlace
  <2>2. ToSet(T2[g]) \cap ToSet(b) = {}
    <3>1. CASE g = h
      BY <3>1, <1>1
    <3>2. CASE g # h
      BY <3>2, <1>1, <1>2 DEF InPlace
    <3> QED
      BY <3>1, <3>2
  <2> QED
    BY <2>1, <2>2
<1>7. ToSet(b) \subseteq 1..n /\ ToSet(b) \cap (D \cup E) = {}
  BY <1>1 DEF InPlace
<1>8. D \cup E \subseteq 1..n /\ D \cap E = {}
  BY DEF InPlace
<1>9. InPlace(T2, n, D \cup ToSet(b), E)
  BY <1>4, <1>5, <1>6, <1>7, <1>8 DEF InPlace
<1>10. InPlace(T2, n, D, E \cup ToSet(b))
  BY <1>4, <1>5, <1>6, <1>7, <1>8 DEF InPlace
<1> QED
  BY <1>9, <1>10

LEMMA SameInPlace ==
    ASSUME NEW T, NEW T2, NEW n, NEW D, NEW E, InPlace(T, n, D, E), \A g \in Handlers : T2[g] = T[g]
    PROVE  InPlace(T2, n, D, E)
  BY Zenon DEF InPlace

----------------------------------------------------------------------------
(* The uploaders *)

QueueTypeOK ==
    /\ logged \in Nat
    /\ emitting \in [Threads -> Handlers \cup {NoHandler}]
    /\ queue \in [Handlers -> Seq(Nat)] /\ batch \in [Handlers -> Seq(Nat)]
    /\ posting \in [Handlers -> Seq(Nat)] /\ sent \in [Handlers -> Seq(Nat)]
    /\ uploader \in [Handlers -> {"none", "checking", "waiting", "posting", "flushing", "closed"}]

\* A copy of the batch exists while it is posted, and a handler that is not made yet has
\* no thread: this is why upload_logs overwrites nothing.
OnePost ==
    /\ \A h \in Handlers : posting[h] # <<>> => uploader[h] \in {"posting", "flushing"}
    /\ \A a \in Admins : admin[a] # "done" => uploader[a] = "none"

Paths == [h \in Handlers |-> Through(h)]

RecordsInv ==
    /\ ConfigTypeOK /\ QueueTypeOK /\ OnePost
    /\ InPlace(Paths, logged, dropped, discarded)

LEMMA PathShape ==
    ASSUME NEW h \in Handlers
    PROVE  /\ Paths[h] = sent[h] \o ((posting[h] \o batch[h]) \o queue[h])
           /\ Paths'[h] = sent'[h] \o ((posting'[h] \o batch'[h]) \o queue'[h])
<1>1. Paths[h] = sent[h] \o ((posting[h] \o batch[h]) \o queue[h])
  BY DEF Paths, Through, Held
<1>2. Paths'[h] = sent'[h] \o ((posting'[h] \o batch'[h]) \o queue'[h])
  BY DEF Paths, Through, Held
<1> QED
  BY <1>1, <1>2

LEMMA PathTypes ==
    ASSUME QueueTypeOK, NEW h \in Handlers
    PROVE  /\ queue[h] \in Seq(Nat) /\ batch[h] \in Seq(Nat)
           /\ posting[h] \in Seq(Nat) /\ sent[h] \in Seq(Nat)
           /\ posting[h] \o batch[h] \in Seq(Nat)
           /\ (posting[h] \o batch[h]) \o queue[h] \in Seq(Nat)
           /\ Paths[h] \in Seq(Nat)
<1>1. queue[h] \in Seq(Nat) /\ batch[h] \in Seq(Nat) /\ posting[h] \in Seq(Nat) /\ sent[h] \in Seq(Nat)
  BY DEF QueueTypeOK
<1>2. posting[h] \o batch[h] \in Seq(Nat)
  BY <1>1
<1>3. (posting[h] \o batch[h]) \o queue[h] \in Seq(Nat)
  BY <1>1, <1>2
<1>4. Paths[h] \in Seq(Nat)
  <2>1. sent[h] \o ((posting[h] \o batch[h]) \o queue[h]) \in Seq(Nat)
    BY <1>1, <1>3
  <2> QED
    BY <2>1, PathShape, Zenon
<1> QED
  BY <1>1, <1>2, <1>3, <1>4

\* What a step leaves alone keeps its path.
LEMMA PathKept ==
    ASSUME NEW h \in Handlers, queue'[h] = queue[h], batch'[h] = batch[h], posting'[h] = posting[h],
           sent'[h] = sent[h]
    PROVE  Paths'[h] = Paths[h]
  BY PathShape

LEMMA RecordsInit == Init => RecordsInv
<1> SUFFICES ASSUME Init PROVE RecordsInv
  OBVIOUS
<1>1. ConfigTypeOK
  BY ConfigInit DEF ConfigInv
<1>2. QueueTypeOK
  BY DEF Init, QueueTypeOK, Handlers
<1>3. OnePost
  BY LoggingAssumption DEF Init, OnePost, Handlers
<1>4. ASSUME NEW h \in Handlers PROVE Paths[h] = <<>>
  <2>1. <<>> \in Seq(Nat)
    OBVIOUS
  <2>2. queue[h] = <<>> /\ batch[h] = <<>> /\ posting[h] = <<>> /\ sent[h] = <<>>
    BY DEF Init
  <2> QED
    <3>1. <<>> \o <<>> = <<>>
      BY <2>1, ConcatEmptySeq
    <3>2. Paths[h] = sent[h] \o ((posting[h] \o batch[h]) \o queue[h])
      BY PathShape
    <3>3. Paths[h] = <<>> \o ((<<>> \o <<>>) \o <<>>)
      BY <2>2, <3>2, Zenon
    <3> QED
      BY <3>1, <3>3, Zenon
<1>5. \A h \in Handlers : Sorted(Paths[h]) /\ ToSet(Paths[h]) = {}
  BY <1>4 DEF Sorted, ToSet
<1>6. logged = 0 /\ dropped = {} /\ discarded = {}
  BY DEF Init
<1>7. 1..0 = {}
  OBVIOUS
<1>8. InPlace(Paths, logged, dropped, discarded)
  BY <1>5, <1>6, <1>7 DEF InPlace
<1> QED
  BY <1>1, <1>2, <1>3, <1>8 DEF RecordsInv

\* Steps that move no record.
LEMMA StillInPlace ==
    ASSUME RecordsInv, UNCHANGED <<logged, dropped, discarded>>, \A h \in Handlers : Paths'[h] = Paths[h]
    PROVE  InPlace(Paths, logged, dropped, discarded)'
  BY SameInPlace DEF RecordsInv

LEMMA ConfiguringKeepsRecords ==
    ASSUME RecordsInv, ConfigTypeOK', NEW a \in Admins, Configuring(a)
    PROVE  RecordsInv'
<1> USE LoggingAssumption DEF RecordsInv
<1>1. UNCHANGED <<threadVars, queueVars>>
  BY DEF Configuring, SetConfig, ClearHandlers, AddHandler, uploaderVars
<1>2. InPlace(Paths, logged, dropped, discarded)'
  BY <1>1, StillInPlace, PathKept DEF queueVars, threadVars
<1>3. ASSUME NEW c \in Settings, SetConfig(a, c) PROVE QueueTypeOK' /\ OnePost'
  BY <1>1, <1>3 DEF SetConfig, AdminStep, uploaderVars, queueVars, threadVars, QueueTypeOK, OnePost, ConfigTypeOK
<1>4. CASE ClearHandlers(a)
  <2>1. admin[a] = "assigned" /\ admin' = [admin EXCEPT ![a] = "cleared"] /\ uploader' = uploader
    BY <1>4 DEF ClearHandlers, AdminStep, uploaderVars
  <2>2. QueueTypeOK'
    BY <1>1, <2>1 DEF QueueTypeOK, queueVars, threadVars
  <2>3. \A b \in Admins : admin'[b] # "done" => admin[b] # "done"
    BY <2>1 DEF ConfigTypeOK
  <2>4. OnePost'
    BY <1>1, <2>1, <2>3 DEF OnePost, queueVars
  <2> QED
    BY <1>2, <2>2, <2>4
<1>5. CASE AddHandler(a)
  <2>1. /\ admin[a] = "cleared" /\ admin' = [admin EXCEPT ![a] = "done"] /\ a \in Handlers
        /\ uploader' = [uploader EXCEPT ![a] = "checking"] \/ uploader' = uploader
    BY <1>5 DEF AddHandler, AdminStep, Handlers
  <2>2. uploader[a] = "none" /\ posting[a] = <<>>
    BY <2>1 DEF OnePost
  <2>3. QueueTypeOK'
    BY <1>1, <2>1 DEF QueueTypeOK, queueVars, threadVars
  <2>4. \A b \in Admins : admin'[b] # "done" => b # a /\ admin[b] # "done"
    BY <2>1 DEF ConfigTypeOK
  <2>5. \A b \in Handlers \ {a} : uploader'[b] = uploader[b]
    BY <2>1 DEF QueueTypeOK
  <2>6. Admins \subseteq Handlers /\ posting' = posting
    BY <1>1 DEF Handlers, queueVars
  <2> QED
    BY <1>2, <2>2, <2>3, <2>4, <2>5, <2>6 DEF OnePost
<1> QED
  BY <1>2, <1>3, <1>4, <1>5 DEF Configuring

LEMMA LoggingKeepsRecords ==
    ASSUME RecordsInv, ConfigTypeOK', NEW t \in Threads, Find(t) \/ Put(t)
    PROVE  RecordsInv'
<1> USE DEF RecordsInv
<1>1. CASE Find(t)
  <2>1. QueueTypeOK' /\ OnePost'
    BY <1>1 DEF Find, configVars, uploaderVars, queueVars, QueueTypeOK, OnePost, ConfigTypeOK
  <2> QED
    BY <1>1, <2>1, StillInPlace, PathKept DEF Find, uploaderVars, queueVars
<1>2. CASE Put(t)
  <2> DEFINE h == emitting[t]
  <2>1. h \in Handlers
    BY <1>2 DEF Put, QueueTypeOK
  <2>2. /\ queue' = [queue EXCEPT ![h] = Append(@, logged + 1)] /\ logged' = logged + 1
        /\ emitting' = [emitting EXCEPT ![t] = NoHandler]
        /\ UNCHANGED <<configVars, uploader, batch, posting, sent, dropped, discarded>>
    BY <1>2 DEF Put
  <2> HIDE DEF h
  <2>3. queue'[h] = Append(queue[h], logged + 1) /\ \A g \in Handlers \ {h} : queue'[g] = queue[g]
    BY <2>1, <2>2 DEF QueueTypeOK
  <2>4. QueueTypeOK'
    <3>1. logged + 1 \in Nat /\ queue[h] \in Seq(Nat)
      BY <2>1 DEF QueueTypeOK
    <3>2. Append(queue[h], logged + 1) \in Seq(Nat)
      BY <3>1
    <3> QED
      BY <2>1, <2>2, <3>1, <3>2 DEF QueueTypeOK
  <2>5. OnePost'
    BY <2>2 DEF OnePost, configVars
  <2>6. Paths'[h] = Append(Paths[h], logged + 1)
    <3> DEFINE pb == posting[h] \o batch[h]
    <3>1. /\ queue[h] \in Seq(Nat) /\ sent[h] \in Seq(Nat) /\ logged + 1 \in Nat
          /\ pb \in Seq(Nat) /\ pb \o queue[h] \in Seq(Nat)
      BY <2>1, PathTypes DEF QueueTypeOK
    <3>2. Paths[h] = sent[h] \o (pb \o queue[h])
      BY <2>1, PathShape
    <3>3. Paths'[h] = sent[h] \o (pb \o Append(queue[h], logged + 1))
      BY <2>1, <2>2, <2>3, PathShape
    <3> HIDE DEF pb
    <3>4. pb \o Append(queue[h], logged + 1) = Append(pb \o queue[h], logged + 1)
      BY <3>1, AppendMoves
    <3>5. sent[h] \o Append(pb \o queue[h], logged + 1) = Append(sent[h] \o (pb \o queue[h]), logged + 1)
      BY <3>1, AppendMoves
    <3> QED
      BY <3>2, <3>3, <3>4, <3>5, Zenon
  <2>7. \A g \in Handlers \ {h} : Paths'[g] = Paths[g]
    BY <2>2, <2>3, PathKept
  <2>8. Paths[h] \in Seq(Nat) /\ logged \in Nat
    BY <2>1, PathTypes DEF QueueTypeOK
  <2>9. InPlace(Paths', logged + 1, dropped, discarded)
    BY <2>1, <2>6, <2>7, <2>8, PutInPlace
  <2> QED
    BY <2>2, <2>4, <2>5, <2>9
<1> QED
  BY <1>1, <1>2

\* An uploader that is not posting has no copy.
LEMMA NothingPosted ==
    ASSUME RecordsInv, NEW h \in Handlers, uploader[h] \in {"none", "checking", "waiting", "closed"}
    PROVE  posting[h] = <<>>
  BY DEF RecordsInv, OnePost

\* A batch that is copied and cleared stays where it is on its way.
LEMMA UploadKeepsPath ==
    ASSUME NEW s \in Seq(Nat), NEW b \in Seq(Nat), NEW q \in Seq(Nat)
    PROVE  s \o ((<<>> \o b) \o q) = s \o ((b \o <<>>) \o q)
  BY ConcatEmptySeq

\* So does a record that goes from the queue to the batch.
LEMMA GetKeepsPath ==
    ASSUME NEW s \in Seq(Nat), NEW b \in Seq(Nat), NEW q \in Seq(Nat), q # <<>>
    PROVE  /\ s \o ((<<>> \o b) \o q) = s \o ((<<>> \o Append(b, Head(q))) \o Tail(q))
           /\ s \o ((<<>> \o b) \o q) = s \o ((Append(b, Head(q)) \o <<>>) \o Tail(q))
<1>1. Head(q) \in Nat /\ Append(b, Head(q)) \o Tail(q) = b \o q
  BY HeadMoves
<1>2. Append(b, Head(q)) \in Seq(Nat)
  BY <1>1
<1>3. /\ <<>> \o b = b /\ <<>> \o Append(b, Head(q)) = Append(b, Head(q))
      /\ Append(b, Head(q)) \o <<>> = Append(b, Head(q))
  BY <1>2, ConcatEmptySeq
<1> QED
  BY <1>1, <1>3, Zenon

\* What a step of one handler's thread does to a family of sequences.
OnlyAt(f, g, h, v) == g = [f EXCEPT ![h] = v]

LEMMA OneHandler ==
    ASSUME RecordsInv, NEW h \in Handlers,
           NEW p \in Seq(Nat), NEW b \in Seq(Nat), NEW q \in Seq(Nat), NEW s \in Seq(Nat),
           OnlyAt(posting, posting', h, p), OnlyAt(batch, batch', h, b), OnlyAt(queue, queue', h, q),
           OnlyAt(sent, sent', h, s)
    PROVE  /\ Paths'[h] = s \o ((p \o b) \o q) /\ \A g \in Handlers \ {h} : Paths'[g] = Paths[g]
           /\ {posting', batch', queue', sent'} \subseteq [Handlers -> Seq(Nat)]
           /\ posting'[h] = p /\ \A g \in Handlers \ {h} : posting'[g] = posting[g]
<1>1. /\ posting' = [posting EXCEPT ![h] = p] /\ batch' = [batch EXCEPT ![h] = b]
      /\ queue' = [queue EXCEPT ![h] = q] /\ sent' = [sent EXCEPT ![h] = s]
      /\ {posting, batch, queue, sent} \subseteq [Handlers -> Seq(Nat)]
  BY DEF OnlyAt, RecordsInv, QueueTypeOK
<1>2. /\ posting'[h] = p /\ batch'[h] = b /\ queue'[h] = q /\ sent'[h] = s
      /\ {posting', batch', queue', sent'} \subseteq [Handlers -> Seq(Nat)]
  BY <1>1
<1>3. \A g \in Handlers \ {h} : /\ queue'[g] = queue[g] /\ batch'[g] = batch[g]
                                /\ posting'[g] = posting[g] /\ sent'[g] = sent[g]
  BY <1>1
<1>4. Paths'[h] = s \o ((p \o b) \o q)
  BY <1>2, PathShape
<1> QED
  BY <1>2, <1>3, <1>4, PathKept

\* A step of the thread of a handler that was made, along the path or out of it.
LEMMA ThreadStep ==
    ASSUME RecordsInv, ConfigTypeOK', NEW h \in Handlers, uploader[h] # "none",
           UNCHANGED <<admin, emitting, logged>>,
           NEW u \in {"checking", "waiting", "posting", "flushing", "closed"},
           uploader' = [uploader EXCEPT ![h] = u],
           NEW p \in Seq(Nat), NEW b \in Seq(Nat), NEW q \in Seq(Nat), NEW s \in Seq(Nat),
           OnlyAt(posting, posting', h, p), OnlyAt(batch, batch', h, b), OnlyAt(queue, queue', h, q),
           OnlyAt(sent, sent', h, s),
           p # <<>> => u \in {"posting", "flushing"},
           \/ s \o ((p \o b) \o q) = Paths[h] /\ UNCHANGED <<dropped, discarded>>
           \/ InPlace(Paths, logged, dropped, discarded)'
    PROVE  RecordsInv'
<1>0. /\ Paths'[h] = s \o ((p \o b) \o q) /\ \A g \in Handlers \ {h} : Paths'[g] = Paths[g]
      /\ {posting', batch', queue', sent'} \subseteq [Handlers -> Seq(Nat)]
      /\ posting'[h] = p /\ \A g \in Handlers \ {h} : posting'[g] = posting[g]
  BY OneHandler, Zenon
<1>1. QueueTypeOK'
  BY <1>0 DEF RecordsInv, QueueTypeOK
<1>2. OnePost'
  <2>1. \A g \in Handlers : posting'[g] # <<>> => uploader'[g] \in {"posting", "flushing"}
    <3> TAKE g \in Handlers
    <3>1. CASE g = h
      BY <3>1, <1>0 DEF RecordsInv, QueueTypeOK
    <3>2. CASE g # h
      <4>1. posting'[g] = posting[g] /\ uploader'[g] = uploader[g]
        BY <3>2, <1>0 DEF RecordsInv, QueueTypeOK
      <4> QED
        BY <4>1 DEF RecordsInv, OnePost
    <3> QED
      BY <3>1, <3>2
  <2>2. \A a \in Admins : admin'[a] # "done" => uploader'[a] = "none"
    <3> TAKE a \in Admins
    <3>1. admin[a] # "done" => uploader[a] = "none"
      BY DEF RecordsInv, OnePost
    <3>2. a \in Handlers /\ uploader[h] # "none"
      BY DEF Handlers
    <3> QED
      BY <3>1, <3>2 DEF RecordsInv, QueueTypeOK
  <2> QED
    BY <2>1, <2>2 DEF OnePost
<1>3. InPlace(Paths, logged, dropped, discarded)'
  <2>1. CASE s \o ((p \o b) \o q) = Paths[h] /\ UNCHANGED <<dropped, discarded>>
    <3>1. \A g \in Handlers : Paths'[g] = Paths[g]
      BY <2>1, <1>0
    <3> QED
      BY <2>1, <3>1, StillInPlace
  <2> QED
    BY <2>1
<1> QED
  BY <1>1, <1>2, <1>3 DEF RecordsInv

\* A function that is not changed.
LEMMA SameAt ==
    ASSUME QueueTypeOK, NEW h \in Handlers
    PROVE  /\ OnlyAt(queue, queue, h, queue[h]) /\ OnlyAt(sent, sent, h, sent[h])
           /\ OnlyAt(batch, batch, h, batch[h]) /\ OnlyAt(posting, posting, h, posting[h])
  BY DEF OnlyAt, QueueTypeOK

LEMMA CheckStopKeepsRecords ==
    ASSUME RecordsInv, ConfigTypeOK', NEW h \in Handlers, CheckStop(h)
    PROVE  RecordsInv'
<1>1. /\ uploader[h] = "checking" /\ UNCHANGED <<queue, sent, admin, emitting, logged, dropped, discarded>>
      /\ QueueTypeOK
  BY DEF CheckStop, UploaderStep, configVars, threadVars, RecordsInv
<1>2. posting[h] = <<>>
  BY <1>1, NothingPosted
<1>3. /\ queue[h] \in Seq(Nat) /\ batch[h] \in Seq(Nat) /\ sent[h] \in Seq(Nat) /\ <<>> \in Seq(Nat)
      /\ Paths[h] = sent[h] \o ((<<>> \o batch[h]) \o queue[h])
  BY <1>1, <1>2, PathShape, PathTypes
<1>4. /\ OnlyAt(queue, queue', h, queue[h]) /\ OnlyAt(sent, sent', h, sent[h])
      /\ posting' = posting => OnlyAt(posting, posting', h, <<>>)
      /\ batch' = batch => OnlyAt(batch, batch', h, batch[h])
  BY <1>1, <1>2, SameAt
<1>5. CASE UNCHANGED <<posting, batch>>
  <2>1. PICK u \in {"waiting", "closed", "flushing"} : uploader' = [uploader EXCEPT ![h] = u]
    BY DEF CheckStop, UploaderStep
  <2>2. u # "flushing" \/ batch[h] # <<>>
    BY <1>1, <2>1 DEF CheckStop, UploaderStep, QueueTypeOK
  <2> QED
    BY <1>1, <1>3, <1>4, <1>5, <2>1, ThreadStep
<1>6. CASE uploader' = [uploader EXCEPT ![h] = "flushing"] /\ Upload(h, batch[h])
  <2>1. OnlyAt(posting, posting', h, batch[h]) /\ OnlyAt(batch, batch', h, <<>>)
    BY <1>6 DEF Upload, Cleared, OnlyAt
  <2>2. sent[h] \o ((batch[h] \o <<>>) \o queue[h]) = Paths[h]
    BY <1>3, UploadKeepsPath
  <2> QED
    BY <1>1, <1>3, <1>4, <1>6, <2>1, <2>2, ThreadStep
<1> QED
  BY <1>5, <1>6 DEF CheckStop, UploaderStep

LEMMA GetTimesOutKeepsRecords ==
    ASSUME RecordsInv, ConfigTypeOK', NEW h \in Handlers, GetTimesOut(h)
    PROVE  RecordsInv'
<1>1. /\ uploader[h] = "waiting" /\ UNCHANGED <<queue, sent, admin, emitting, logged, dropped, discarded>>
      /\ QueueTypeOK
  BY DEF GetTimesOut, UploaderStep, configVars, threadVars, RecordsInv
<1>2. posting[h] = <<>>
  BY <1>1, NothingPosted
<1>3. /\ queue[h] \in Seq(Nat) /\ batch[h] \in Seq(Nat) /\ sent[h] \in Seq(Nat) /\ <<>> \in Seq(Nat)
      /\ Paths[h] = sent[h] \o ((<<>> \o batch[h]) \o queue[h])
  BY <1>1, <1>2, PathShape, PathTypes
<1>4. /\ OnlyAt(queue, queue', h, queue[h]) /\ OnlyAt(sent, sent', h, sent[h])
      /\ posting' = posting => OnlyAt(posting, posting', h, <<>>)
      /\ batch' = batch => OnlyAt(batch, batch', h, batch[h])
  BY <1>1, <1>2, SameAt
<1>5. CASE uploader' = [uploader EXCEPT ![h] = "checking"] /\ UNCHANGED <<posting, batch>>
  BY <1>1, <1>3, <1>4, <1>5, ThreadStep
<1>6. CASE uploader' = [uploader EXCEPT ![h] = "posting"] /\ Upload(h, batch[h])
  <2>1. OnlyAt(posting, posting', h, batch[h]) /\ OnlyAt(batch, batch', h, <<>>)
    BY <1>6 DEF Upload, Cleared, OnlyAt
  <2>2. sent[h] \o ((batch[h] \o <<>>) \o queue[h]) = Paths[h]
    BY <1>3, UploadKeepsPath
  <2> QED
    BY <1>1, <1>3, <1>4, <1>6, <2>1, <2>2, ThreadStep
<1> QED
  BY <1>5, <1>6 DEF GetTimesOut, UploaderStep

LEMMA GetRecordKeepsRecords ==
    ASSUME RecordsInv, ConfigTypeOK', NEW h \in Handlers, GetRecord(h)
    PROVE  RecordsInv'
<1> DEFINE records == Append(batch[h], Head(queue[h]))
<1>1. /\ uploader[h] = "waiting" /\ UNCHANGED <<sent, admin, emitting, logged, dropped, discarded>>
      /\ queue[h] # <<>> /\ queue' = [queue EXCEPT ![h] = Tail(@)] /\ QueueTypeOK
  BY DEF GetRecord, UploaderStep, configVars, threadVars, RecordsInv
<1>2. posting[h] = <<>>
  BY <1>1, NothingPosted
<1>3. /\ queue[h] \in Seq(Nat) /\ batch[h] \in Seq(Nat) /\ sent[h] \in Seq(Nat) /\ <<>> \in Seq(Nat)
      /\ Paths[h] = sent[h] \o ((<<>> \o batch[h]) \o queue[h])
  BY <1>1, <1>2, PathShape, PathTypes
<1>4. Head(queue[h]) \in Nat /\ Tail(queue[h]) \in Seq(Nat) /\ records \in Seq(Nat)
  BY <1>1, <1>3, HeadMoves
<1>5. /\ sent[h] \o ((<<>> \o records) \o Tail(queue[h])) = Paths[h]
      /\ sent[h] \o ((records \o <<>>) \o Tail(queue[h])) = Paths[h]
  BY <1>1, <1>3, GetKeepsPath
<1>6. /\ OnlyAt(queue, queue', h, Tail(queue[h])) /\ OnlyAt(sent, sent', h, sent[h])
      /\ posting' = posting => OnlyAt(posting, posting', h, <<>>)
  BY <1>1, <1>2, SameAt DEF OnlyAt
<1>7. CASE uploader' = [uploader EXCEPT ![h] = "posting"] /\ Upload(h, records)
  <2>1. OnlyAt(posting, posting', h, records) /\ OnlyAt(batch, batch', h, <<>>)
    BY <1>7 DEF Upload, Cleared, OnlyAt
  <2> HIDE DEF records
  <2> QED
    BY <1>1, <1>3, <1>4, <1>5, <1>6, <1>7, <2>1, ThreadStep
<1>8. CASE /\ uploader' = [uploader EXCEPT ![h] = "checking"]
           /\ batch' = [batch EXCEPT ![h] = records] /\ posting' = posting
  <2>1. OnlyAt(batch, batch', h, records)
    BY <1>8 DEF OnlyAt
  <2> HIDE DEF records
  <2> QED
    BY <1>1, <1>3, <1>4, <1>5, <1>6, <1>8, <2>1, ThreadStep
<1> QED
  BY <1>7, <1>8 DEF GetRecord, UploaderStep

LEMMA PostedKeepsRecords ==
    ASSUME RecordsInv, ConfigTypeOK', NEW h \in Handlers, Posted(h)
    PROVE  RecordsInv'
<1>1. /\ uploader[h] \in {"posting", "flushing"}
      /\ UNCHANGED <<queue, batch, admin, emitting, logged, discarded>>
      /\ posting' = [posting EXCEPT ![h] = <<>>] /\ QueueTypeOK
  BY DEF Posted, UploaderStep, configVars, threadVars, RecordsInv
<1>2. PICK u \in {"checking", "closed"} : uploader' = [uploader EXCEPT ![h] = u]
  BY DEF Posted, UploaderStep
<1>3. /\ queue[h] \in Seq(Nat) /\ batch[h] \in Seq(Nat) /\ sent[h] \in Seq(Nat) /\ <<>> \in Seq(Nat)
      /\ posting[h] \in Seq(Nat) /\ Paths[h] = sent[h] \o ((posting[h] \o batch[h]) \o queue[h])
  <2>1. <<>> \in Seq(Nat)
    OBVIOUS
  <2>2. Paths[h] = sent[h] \o ((posting[h] \o batch[h]) \o queue[h])
    BY PathShape
  <2> QED
    BY <1>1, <2>1, <2>2, PathTypes, Zenon
<1>4. /\ OnlyAt(queue, queue', h, queue[h]) /\ OnlyAt(batch, batch', h, batch[h])
      /\ OnlyAt(posting, posting', h, <<>>)
      /\ sent' = sent => OnlyAt(sent, sent', h, sent[h])
  BY <1>1, SameAt DEF OnlyAt
<1>5. /\ (sent[h] \o posting[h]) \o ((<<>> \o batch[h]) \o queue[h])
                = sent[h] \o ((posting[h] \o batch[h]) \o queue[h])
      /\ sent[h] \o ((posting[h] \o batch[h]) \o queue[h])
                = (sent[h] \o posting[h]) \o (batch[h] \o queue[h])
      /\ sent[h] \o ((<<>> \o batch[h]) \o queue[h]) = sent[h] \o (batch[h] \o queue[h])
  <2> DEFINE s == sent[h]
             p == posting[h]
             b == batch[h]
             q == queue[h]
  <2>1. s \in Seq(Nat) /\ p \in Seq(Nat) /\ b \in Seq(Nat) /\ q \in Seq(Nat)
    BY <1>3
  <2> HIDE DEF s, p, b, q
  <2>2. <<>> \o b = b
    BY <2>1, ConcatEmptySeq
  <2>3. PICK r \in Seq(Nat) : r = b \o q
    <3>1. b \o q \in Seq(Nat)
      BY <2>1, ConcatFacts
    <3> QED
      BY <3>1, Zenon
  <2>4. (p \o b) \o q = p \o (b \o q)
    BY <2>1, NatAssociative, ZenonT(60)
  <2>5. (s \o p) \o r = s \o (p \o r)
    BY <2>1, <2>3, NatAssociative, ZenonT(60)
  <2>6. /\ (s \o p) \o ((<<>> \o b) \o q) = s \o ((p \o b) \o q)
        /\ s \o ((p \o b) \o q) = (s \o p) \o (b \o q)
        /\ s \o ((<<>> \o b) \o q) = s \o (b \o q)
    BY <2>2, <2>3, <2>4, <2>5, Zenon
  <2> QED
    BY <2>6 DEF s, p, b, q
<1>6. CASE sent' = [sent EXCEPT ![h] = @ \o posting[h]] /\ dropped' = dropped
  <2>1. OnlyAt(sent, sent', h, sent[h] \o posting[h]) /\ sent[h] \o posting[h] \in Seq(Nat)
    BY <1>3, <1>6, ConcatFacts DEF OnlyAt
  <2>2. (sent[h] \o posting[h]) \o ((<<>> \o batch[h]) \o queue[h]) = Paths[h]
    BY <1>3, <1>5, Zenon
  <2> QED
    BY <1>1, <1>2, <1>3, <1>4, <1>6, <2>1, <2>2, ThreadStep
<1>7. CASE dropped' = dropped \cup ToSet(posting[h]) /\ sent' = sent
  <2>1. /\ Paths'[h] = sent[h] \o ((<<>> \o batch[h]) \o queue[h])
        /\ \A g \in Handlers \ {h} : Paths'[g] = Paths[g]
    BY <1>3, <1>4, <1>7, OneHandler, Zenon
  <2>2. /\ Paths[h] = (sent[h] \o posting[h]) \o (batch[h] \o queue[h])
        /\ Paths'[h] = sent[h] \o (batch[h] \o queue[h])
    BY <1>3, <2>1, <1>5, Zenon
  <2>3. batch[h] \o queue[h] \in Seq(Nat) /\ logged \in Nat
    BY <1>1, <1>3, ConcatFacts DEF QueueTypeOK
  <2>4. InPlace(Paths', logged, dropped \cup ToSet(posting[h]), discarded)
    BY <1>3, <2>1, <2>2, <2>3, CutInPlace DEF RecordsInv
  <2>5. InPlace(Paths, logged, dropped, discarded)'
    BY <1>1, <1>7, <2>4
  <2> QED
    BY <1>1, <1>2, <1>3, <1>4, <1>7, <2>5, ThreadStep
<1> QED
  BY <1>6, <1>7 DEF Posted

\* The oldest record of the queue is taken out of the path.
LEMMA DrainShape ==
    ASSUME NEW s \in Seq(Nat), NEW m \in Seq(Nat), NEW q \in Seq(Nat), q # <<>>
    PROVE  /\ s \o (m \o q) = ((s \o m) \o <<Head(q)>>) \o Tail(q)
           /\ s \o (m \o Tail(q)) = (s \o m) \o Tail(q)
           /\ s \o m \in Seq(Nat) /\ <<Head(q)>> \in Seq(Nat) /\ Tail(q) \in Seq(Nat)
           /\ ToSet(<<Head(q)>>) = {Head(q)}
<1>1. Head(q) \in Nat /\ Tail(q) \in Seq(Nat)
  BY HeadMoves
<1>2. s \o m \in Seq(Nat)
  BY ConcatFacts
<1>3. (s \o m) \o q = ((s \o m) \o <<Head(q)>>) \o Tail(q)
  BY <1>2, HeadMoves
<1>4. s \o (m \o q) = (s \o m) \o q /\ s \o (m \o Tail(q)) = (s \o m) \o Tail(q)
  BY <1>1, NatAssociative, ZenonT(60)
<1>5. <<Head(q)>> \in Seq(Nat) /\ ToSet(<<Head(q)>>) = {Head(q)}
  BY <1>1 DEF ToSet
<1> QED
  BY <1>1, <1>2, <1>3, <1>4, <1>5, Zenon

LEMMA DrainKeepsRecords ==
    ASSUME RecordsInv, ConfigTypeOK', NEW h \in Handlers, Drain(h), queue[h] # <<>>
    PROVE  RecordsInv'
<1>1. /\ UNCHANGED <<batch, posting, sent, uploader, admin, emitting, logged, dropped>>
      /\ discarded' = discarded \cup {Head(queue[h])}
      /\ queue' = [queue EXCEPT ![h] = Tail(@)] /\ QueueTypeOK
  BY DEF Drain, configVars, threadVars, RecordsInv
<1>2. /\ queue[h] \in Seq(Nat) /\ sent[h] \in Seq(Nat) /\ posting[h] \in Seq(Nat)
      /\ batch[h] \in Seq(Nat) /\ posting[h] \o batch[h] \in Seq(Nat)
  BY <1>1, PathTypes, Zenon
<1>3. Paths[h] = sent[h] \o ((posting[h] \o batch[h]) \o queue[h])
  BY PathShape
<1>4. /\ OnlyAt(queue, queue', h, Tail(queue[h])) /\ OnlyAt(batch, batch', h, batch[h])
      /\ OnlyAt(posting, posting', h, posting[h]) /\ OnlyAt(sent, sent', h, sent[h])
      /\ Tail(queue[h]) \in Seq(Nat)
  BY <1>1, <1>2, SameAt, HeadMoves DEF OnlyAt
<1>5. /\ Paths'[h] = sent[h] \o ((posting[h] \o batch[h]) \o Tail(queue[h]))
      /\ \A g \in Handlers \ {h} : Paths'[g] = Paths[g]
      /\ {posting', batch', queue', sent'} \subseteq [Handlers -> Seq(Nat)]
  <2> DEFINE q == Tail(queue[h])
             p == posting[h]
             b == batch[h]
             s == sent[h]
  <2>1. /\ p \in Seq(Nat) /\ b \in Seq(Nat) /\ q \in Seq(Nat) /\ s \in Seq(Nat)
        /\ OnlyAt(posting, posting', h, p) /\ OnlyAt(batch, batch', h, b)
        /\ OnlyAt(queue, queue', h, q) /\ OnlyAt(sent, sent', h, s)
    BY <1>2, <1>4
  <2> HIDE DEF q, p, b, s
  <2>2. /\ Paths'[h] = s \o ((p \o b) \o q) /\ \A g \in Handlers \ {h} : Paths'[g] = Paths[g]
        /\ {posting', batch', queue', sent'} \subseteq [Handlers -> Seq(Nat)]
        /\ posting'[h] = p /\ \A g \in Handlers \ {h} : posting'[g] = posting[g]
    BY <2>1, OneHandler, Zenon
  <2> QED
    BY <2>2 DEF q, p, b, s
<1> DEFINE m == posting[h] \o batch[h]
           a == sent[h] \o m
           x == <<Head(queue[h])>>
           c == Tail(queue[h])
<1>6. /\ Paths[h] = (a \o x) \o c /\ Paths'[h] = a \o c
      /\ a \in Seq(Nat) /\ x \in Seq(Nat) /\ c \in Seq(Nat) /\ ToSet(x) = {Head(queue[h])}
  <2>1. m \in Seq(Nat)
    BY <1>2
  <2> HIDE DEF m
  <2>2. /\ sent[h] \o (m \o queue[h]) = (a \o x) \o c /\ sent[h] \o (m \o c) = a \o c
        /\ a \in Seq(Nat) /\ x \in Seq(Nat) /\ c \in Seq(Nat) /\ ToSet(x) = {Head(queue[h])}
    <3> DEFINE s == sent[h]
               q == queue[h]
    <3>1. q # <<>> /\ q \in Seq(Nat) /\ s \in Seq(Nat)
      BY <1>2
    <3> HIDE DEF s, q
    <3>2. /\ s \o (m \o q) = ((s \o m) \o <<Head(q)>>) \o Tail(q)
          /\ s \o (m \o Tail(q)) = (s \o m) \o Tail(q)
          /\ s \o m \in Seq(Nat) /\ <<Head(q)>> \in Seq(Nat) /\ Tail(q) \in Seq(Nat)
          /\ ToSet(<<Head(q)>>) = {Head(q)}
      BY <2>1, <3>1, DrainShape
    <3> QED
      BY <3>2 DEF s, q, a, x, c
  <2>3. Paths[h] = sent[h] \o (m \o queue[h]) /\ Paths'[h] = sent[h] \o (m \o c)
    BY <1>3, <1>5 DEF m
  <2> QED
    BY <2>2, <2>3, Zenon
<1> HIDE DEF a, x, c
<1>7. InPlace(Paths', logged, dropped, discarded \cup ToSet(x))
  <2>1. InPlace(Paths, logged, dropped, discarded) /\ logged \in Nat
    BY <1>1 DEF RecordsInv, QueueTypeOK
  <2> QED
    BY <1>5, <1>6, <2>1, CutInPlace, Zenon
<1>8. InPlace(Paths, logged, dropped, discarded)'
  BY <1>1, <1>6, <1>7
<1>9. QueueTypeOK' /\ OnePost'
  BY <1>1, <1>5 DEF RecordsInv, QueueTypeOK, OnePost
<1> QED
  BY <1>8, <1>9 DEF RecordsInv

LEMMA StoppingKeepsRecords ==
    ASSUME RecordsInv, ConfigTypeOK', NEW h \in Handlers, Stopping(h)
    PROVE  RecordsInv'
<1>1. CASE UNCHANGED <<configVars, threadVars, uploader, queueVars>>
  <2>1. QueueTypeOK' /\ OnePost'
    BY <1>1 DEF RecordsInv, configVars, threadVars, queueVars, QueueTypeOK, OnePost
  <2>2. InPlace(Paths, logged, dropped, discarded)'
    BY <1>1, StillInPlace, PathKept DEF threadVars, queueVars
  <2> QED
    BY <2>1, <2>2 DEF RecordsInv
<1>2. CASE Drain(h) /\ queue[h] # <<>>
  BY <1>2, DrainKeepsRecords
<1>3. CASE Drain(h) /\ queue[h] = <<>>
  BY <1>1, <1>3 DEF Drain, queueVars
<1> QED
  BY <1>1, <1>2, <1>3 DEF Stopping, Stop, Joined

LoggingInv == ConfigInv /\ RecordsInv

LEMMA LoggingNext == LoggingInv /\ [Next]_vars => LoggingInv'
<1> SUFFICES ASSUME LoggingInv, [Next]_vars PROVE LoggingInv'
  OBVIOUS
<1>1. ConfigInv' /\ ConfigTypeOK' /\ RecordsInv
  BY ConfigNext DEF LoggingInv, ConfigInv
<1>2. ASSUME NEW a \in Admins, Configuring(a) PROVE RecordsInv'
  BY <1>1, <1>2, ConfiguringKeepsRecords
<1>3. ASSUME NEW t \in Threads, Find(t) \/ Put(t) PROVE RecordsInv'
  BY <1>1, <1>3, LoggingKeepsRecords
<1>4. ASSUME NEW h \in Handlers, Uploading(h) PROVE RecordsInv'
  BY <1>1, <1>4, CheckStopKeepsRecords, GetRecordKeepsRecords, GetTimesOutKeepsRecords,
     PostedKeepsRecords DEF Uploading
<1>5. ASSUME NEW h \in Handlers, Stopping(h) PROVE RecordsInv'
  BY <1>1, <1>5, StoppingKeepsRecords
<1>6. ASSUME UNCHANGED vars PROVE RecordsInv'
  <2>1. QueueTypeOK' /\ OnePost'
    BY <1>1, <1>6 DEF RecordsInv, vars, configVars, threadVars, uploaderVars, queueVars, QueueTypeOK, OnePost
  <2>2. InPlace(Paths, logged, dropped, discarded)'
    <3>1. UNCHANGED <<queue, batch, posting, sent, logged, dropped, discarded>>
      BY <1>6 DEF vars, threadVars, uploaderVars, queueVars
    <3>2. \A h \in Handlers : Paths'[h] = Paths[h]
      BY <3>1, PathKept
    <3> QED
      BY <1>1, <3>1, <3>2, StillInPlace
  <2> QED
    BY <1>1, <2>1, <2>2 DEF RecordsInv
<1>7. RecordsInv'
  BY <1>2, <1>3, <1>4, <1>5, <1>6 DEF Next
<1> QED
  BY <1>1, <1>7 DEF LoggingInv

LEMMA RecordsAreKept == LoggingInv => KeptInOrder
<1> SUFFICES ASSUME LoggingInv PROVE KeptInOrder
  OBVIOUS
<1>1. InPlace(Paths, logged, dropped, discarded)
  BY DEF LoggingInv, RecordsInv
<1>2. \A h \in Handlers : Paths[h] = Through(h)
  BY DEF Paths
<1>3. \A h \in Handlers : \A i, j \in DOMAIN Through(h) : i < j => Through(h)[i] < Through(h)[j]
  BY <1>1, <1>2 DEF InPlace, Sorted
<1>4. \A g, h \in Handlers : g # h => ToSet(Through(g)) \cap ToSet(Through(h)) = {}
  BY <1>1, <1>2 DEF InPlace
<1> DEFINE kept == UNION {ToSet(Through(h)) : h \in Handlers}
           gone == dropped \cup discarded
<1>5. \A r : r \in kept <=> \E h \in Handlers : r \in ToSet(Through(h))
  OBVIOUS
<1>6. /\ \A h \in Handlers : ToSet(Through(h)) \subseteq 1..logged /\ ToSet(Through(h)) \cap gone = {}
      /\ \A r \in 1..logged : r \in gone \/ \E h \in Handlers : r \in ToSet(Through(h))
      /\ gone \subseteq 1..logged /\ dropped \cap discarded = {}
  BY <1>1, <1>2 DEF InPlace
<1> HIDE DEF kept, gone
<1>7. kept \cup gone = 1..logged /\ kept \cap gone = {}
  BY <1>5, <1>6
<1> QED
  BY <1>3, <1>4, <1>6, <1>7 DEF KeptInOrder, kept, gone

\* A record that reached a queue is in one place and leaves the handler in the order the
\* records were logged, for any number of threads, configurations and handlers, and
\* whatever the size of a batch (loki.py 127-208, 234-249).
THEOREM RecordsKept == Spec => []KeptInOrder
<1>1. Init => LoggingInv
  BY ConfigInit, RecordsInit DEF LoggingInv
<1> QED
  BY <1>1, LoggingNext, RecordsAreKept, PTL DEF Spec

(***************************************************************************)
(* The calls of a method                                                   *)
(***************************************************************************)

Replies == [kind : {"none", "refused", "limited", "hit", "failed", "ok"}, from : Calls \cup {NoAnswer}]
PCs == {"absent", "new", "limit", "lookup", "execute", "store", "done"}

CallTypes ==
    /\ call \in [Calls -> Requests \cup {NoCall}]
    /\ pc \in [Calls -> PCs] /\ reply \in [Calls -> Replies]
    /\ count \in [Users -> Nat] /\ cache \in [Keys -> Calls \cup {NoAnswer}]

\* A call that went well and had the cache key k.
Answers(c, k) == c \in Calls /\ reply[c].kind = "ok" /\ call[c].key = k

\* A call that has arrived keeps its key; one that has a reply has ended; what is
\* stored under a key, and what a hit was given, is the answer of a call with that key.
Arrived == \A c \in Calls : pc[c] \notin {"absent", "new"} => call[c] \in Requests
Ended == \A c \in Calls : reply[c].kind # "none" => pc[c] = "done"
Stored == \A k \in Keys : cache[k] # NoAnswer => Answers(cache[k], k)
Hit == \A c \in Calls : reply[c].kind = "hit" => Answers(reply[c].from, call[c].key) /\ call[c].is_cache

CallInv == CallTypes /\ Arrived /\ Ended /\ Stored /\ Hit

LEMMA CallInit == ServiceInit => CallInv
<1> SUFFICES ASSUME ServiceInit PROVE CallInv
  OBVIOUS
<1>1. PICK s \in Scenarios : pc = [c \in Calls |-> IF c \in s.calls THEN "new" ELSE "absent"]
  BY DEF ServiceInit
<1>2. /\ call = [c \in Calls |-> NoCall] /\ reply = [c \in Calls |-> NoReply]
      /\ count = [u \in Users |-> 0] /\ cache = [k \in Keys |-> NoAnswer]
  BY DEF ServiceInit
<1>3. 0 \in Nat
  OBVIOUS
<1>4. NoReply.kind = "none" /\ NoReply \in Replies
  BY DEF NoReply, Replies
<1>5. CallTypes
  BY <1>1, <1>2, <1>3, <1>4 DEF CallTypes, PCs
<1> QED
  BY <1>1, <1>2, <1>4, <1>5 DEF CallInv, Arrived, Ended, Stored, Hit

\* A step of a call that has not ended, which leaves the others and the cache alone.
LEMMA OneCall ==
    ASSUME CallInv, CallTypes', NEW c \in Calls, pc[c] # "done", NEW to, to # "absent", to # "new",
           NEW r, reply' = [reply EXCEPT ![c] = r], r.kind # "none" => to = "done",
           pc' = [pc EXCEPT ![c] = to], call[c] \in Requests, UNCHANGED call,
           r.kind = "hit" => Answers(r.from, call[c].key) /\ call[c].is_cache,
           cache' = cache \/ (r.kind = "ok" /\ cache' = [cache EXCEPT ![call[c].key] = c])
    PROVE  CallInv'
<1>1. reply[c].kind = "none"
  BY DEF CallInv, Ended
<1>2. /\ reply'[c] = r /\ \A d \in Calls \ {c} : reply'[d] = reply[d]
      /\ pc'[c] = to /\ \A d \in Calls \ {c} : pc'[d] = pc[d]
  BY DEF CallInv, CallTypes
<1>3. ASSUME NEW d, NEW k, Answers(d, k) PROVE Answers(d, k)'
  BY <1>1, <1>2, <1>3 DEF Answers
<1>4. Arrived' /\ Ended'
  BY <1>2 DEF CallInv, Arrived, Ended
<1>5. Hit'
  BY <1>2, <1>3 DEF CallInv, Hit
<1>6. Stored'
  <2>1. CASE cache' = cache
    BY <1>3, <2>1 DEF CallInv, Stored
  <2>2. CASE r.kind = "ok" /\ cache' = [cache EXCEPT ![call[c].key] = c]
    <3>1. Answers(c, call[c].key)'
      BY <1>2, <2>2 DEF Answers
    <3> QED
      BY <1>3, <2>2, <3>1 DEF CallInv, Stored, CallTypes
  <2> QED
    BY <2>1, <2>2
<1> QED
  BY <1>4, <1>5, <1>6 DEF CallInv

LEMMA WrapperTypes ==
    ASSUME CallInv, NEW c \in Calls, Wrapper(c)
    PROVE  CallTypes'
<1>1. CallTypes
  BY DEF CallInv
<1>2. ASSUME NEW from, NEW to \in PCs, Continue(c, from, to)
      PROVE  pc' \in [Calls -> PCs] /\ reply' \in [Calls -> Replies]
  BY <1>1, <1>2 DEF Continue, Step, CallTypes, PCs, Replies
<1>3. ASSUME NEW from, NEW kind \in {"refused", "limited", "hit", "failed", "ok"},
             NEW source \in Calls \cup {NoAnswer}, Return(c, from, kind, source)
      PROVE  pc' \in [Calls -> PCs] /\ reply' \in [Calls -> Replies]
  BY <1>1, <1>3 DEF Return, Step, CallTypes, PCs, Replies
<1>4. ASSUME pc' \in [Calls -> PCs], reply' \in [Calls -> Replies],
             call' \in [Calls -> Requests \cup {NoCall}], count' \in [Users -> Nat],
             cache' \in [Keys -> Calls \cup {NoAnswer}]
      PROVE  CallTypes'
  BY <1>4 DEF CallTypes, PCs, Replies
<1>5. pc[c] = "limit" \/ pc[c] = "store" => call[c] \in Requests /\ call[c].user \in Users /\ call[c].key \in Keys
  BY DEF CallInv, Arrived, Requests
<1>6. CASE Arrive(c)
  <2>1. call' \in [Calls -> Requests \cup {NoCall}] /\ UNCHANGED <<count, cache>>
    BY <1>1, <1>6 DEF Arrive, CallTypes
  <2> QED
    BY <1>1, <1>2, <1>3, <1>4, <1>6, <2>1 DEF Arrive, CallTypes, PCs
<1>7. CASE Limit(c)
  <2>1. count' \in [Users -> Nat] /\ UNCHANGED <<call, cache>>
    <3>1. ASSUME count' = [count EXCEPT ![call[c].user] = @ + 1]
          PROVE count' \in [Users -> Nat]
      <4>1. call[c].user \in Users /\ count[call[c].user] \in Nat
        BY <1>1, <1>5, <1>7 DEF Limit, CallTypes
      <4>2. count[call[c].user] + 1 \in Nat
        BY <4>1
      <4> QED
        BY <1>1, <3>1, <4>2 DEF CallTypes
    <3> QED
      BY <1>1, <1>7, <3>1 DEF Limit, CallTypes
  <2> QED
    BY <1>1, <1>2, <1>3, <1>4, <1>7, <2>1 DEF Limit, CallTypes, PCs
<1>8. CASE Lookup(c)
  <2>1. Hits(c) => cache[call[c].key] \in Calls \cup {NoAnswer}
    <3>1. call[c] \in Requests
      BY <1>8 DEF Lookup, CallInv, Arrived
    <3> QED
      BY <1>1, <3>1 DEF CallTypes, Requests
  <2> QED
    BY <1>1, <1>2, <1>3, <1>4, <1>8, <2>1 DEF Lookup, CallTypes, PCs
<1>9. CASE Execute(c)
  BY <1>1, <1>2, <1>3, <1>4, <1>9 DEF Execute, CallTypes, PCs
<1>10. CASE Store(c)
  <2>1. cache' \in [Keys -> Calls \cup {NoAnswer}] /\ UNCHANGED <<call, count>>
    BY <1>1, <1>5, <1>10 DEF Store, CallTypes, StoreRaises
  <2> QED
    BY <1>1, <1>2, <1>3, <1>4, <1>10, <2>1 DEF Store, CallTypes, PCs
<1> QED
  BY <1>6, <1>7, <1>8, <1>9, <1>10 DEF Wrapper

LEMMA ArriveKeeps ==
    ASSUME CallInv, CallTypes', NEW c \in Calls, Arrive(c)
    PROVE  CallInv'
<1>1. PICK r \in Requests : call' = [call EXCEPT ![c] = r]
  BY DEF Arrive
<1>2. pc[c] = "new" /\ UNCHANGED cache
  BY DEF Arrive, Continue, Return, Step
<1>3. reply[c].kind = "none"
  BY <1>2 DEF CallInv, Ended
<1>4. /\ call'[c] \in Requests /\ \A d \in Calls \ {c} : call'[d] = call[d] /\ reply'[d] = reply[d] /\ pc'[d] = pc[d]
      /\ reply'[c].kind \in {"none", "refused"} /\ (reply'[c].kind # "none" => pc'[c] = "done")
  BY <1>1, <1>3 DEF Arrive, Continue, Return, Step, CallInv, CallTypes
<1>5. ASSUME NEW d, NEW k, Answers(d, k) PROVE Answers(d, k)'
  BY <1>3, <1>4, <1>5 DEF Answers
<1>6. Arrived' /\ Ended'
  BY <1>4 DEF CallInv, Arrived, Ended
<1>7. Hit'
  BY <1>4, <1>5 DEF CallInv, Hit
<1>8. Stored'
  BY <1>2, <1>5 DEF CallInv, Stored
<1> QED
  BY <1>6, <1>7, <1>8 DEF CallInv

LEMMA WrapperKeeps ==
    ASSUME CallInv, NEW c \in Calls, Wrapper(c)
    PROVE  CallInv'
<1>1. CallTypes /\ CallTypes'
  BY WrapperTypes DEF CallInv
<1>2. CASE Arrive(c)
  BY <1>1, <1>2, ArriveKeeps
<1>3. pc[c] \in {"limit", "lookup", "execute", "store"} => call[c] \in Requests /\ pc[c] # "done"
  BY DEF CallInv, Arrived
<1>4. ASSUME NEW from \in {"limit", "lookup", "execute", "store"}, NEW to \in {"lookup", "execute", "store"},
             Continue(c, from, to), UNCHANGED <<call, cache>>
      PROVE  CallInv'
  <2>1. /\ reply' = [reply EXCEPT ![c] = reply[c]] /\ pc' = [pc EXCEPT ![c] = to]
        /\ pc[c] = from
    BY <1>1, <1>4 DEF Continue, Step, CallTypes
  <2>2. reply[c].kind = "none"
    BY <2>1 DEF CallInv, Ended
  <2> DEFINE r == reply[c]
  <2>3. /\ reply' = [reply EXCEPT ![c] = r] /\ r.kind = "none"
    BY <2>1, <2>2
  <2> HIDE DEF r
  <2> QED
    BY <1>1, <1>3, <1>4, <2>1, <2>3, OneCall
<1>5. ASSUME NEW from \in {"limit", "lookup", "execute", "store"}, NEW kind \in {"limited", "hit", "failed", "ok"}, NEW source,
             Return(c, from, kind, source), UNCHANGED call,
             kind = "hit" => Answers(source, call[c].key) /\ call[c].is_cache,
             cache' = cache \/ (kind = "ok" /\ cache' = [cache EXCEPT ![call[c].key] = c])
      PROVE  CallInv'
  <2> DEFINE r == [kind |-> kind, from |-> source]
  <2>1. /\ reply' = [reply EXCEPT ![c] = r] /\ pc' = [pc EXCEPT ![c] = "done"]
        /\ pc[c] = from
    BY <1>5 DEF Return, Step
  <2>2. r.kind = kind /\ r.from = source
    OBVIOUS
  <2> HIDE DEF r
  <2> QED
    BY <1>1, <1>3, <1>5, <2>1, <2>2, OneCall
<1>6. CASE Limit(c)
  BY <1>4, <1>5, <1>6 DEF Limit
<1>7. CASE Lookup(c)
  <2>1. UNCHANGED <<call, cache>>
    BY <1>7 DEF Lookup
  <2>2. CASE Hits(c) /\ Return(c, "lookup", "hit", cache[call[c].key])
    <3>1. call[c].key \in Keys
      BY <1>3, <1>7 DEF Lookup, Requests
    <3>2. Answers(cache[call[c].key], call[c].key) /\ call[c].is_cache
      BY <2>2, <3>1 DEF Hits, CallInv, Stored
    <3> QED
      BY <1>5, <2>1, <2>2, <3>2
  <2>3. CASE Continue(c, "lookup", "execute")
    BY <1>4, <2>1, <2>3
  <2> QED
    BY <1>7, <2>2, <2>3 DEF Lookup
<1>8. CASE Execute(c)
  BY <1>4, <1>5, <1>8 DEF Execute
<1>9. CASE Store(c)
  BY <1>5, <1>9 DEF Store, StoreRaises
<1> QED
  BY <1>2, <1>6, <1>7, <1>8, <1>9 DEF Wrapper

LEMMA CallNext == CallInv /\ [ServiceNext]_serviceVars => CallInv'
<1> SUFFICES ASSUME CallInv, [ServiceNext]_serviceVars PROVE CallInv'
  OBVIOUS
<1>1. ASSUME UNCHANGED callVars PROVE CallInv'
  BY <1>1 DEF callVars, CallInv, CallTypes, Arrived, Ended, Stored, Hit, Answers
<1>2. CASE Reloading \/ Booting \/ \E f \in Facades : Building(f)
  BY <1>1, <1>2 DEF Reloading, Booting, Building, Wait, Decorate, ReadHost, ReadCenter
<1>3. CASE \E c \in Calls : Wrapper(c)
  BY <1>3, WrapperKeeps
<1>4. ASSUME NEW k \in Keys, Expire(k) PROVE CallInv'
  <2>1. CallTypes'
    BY <1>4 DEF Expire, CallInv, CallTypes
  <2>2. UNCHANGED <<call, pc, reply>> /\ \A x \in Keys : cache'[x] # NoAnswer => cache'[x] = cache[x]
    BY <1>4 DEF Expire, CallInv, CallTypes
  <2> QED
    BY <2>1, <2>2 DEF CallInv, Arrived, Ended, Stored, Hit, Answers
<1>5. ASSUME NEW u \in Users, NextWindow(u) PROVE CallInv'
  <2>1. CallTypes'
    <3>1. 0 \in Nat
      OBVIOUS
    <3> QED
      BY <1>5, <3>1 DEF NextWindow, CallInv, CallTypes
  <2>2. UNCHANGED <<call, pc, reply, cache>>
    BY <1>5 DEF NextWindow
  <2> QED
    BY <2>1, <2>2 DEF CallInv, Arrived, Ended, Stored, Hit, Answers
<1>6. CASE UNCHANGED serviceVars
  BY <1>1, <1>6 DEF serviceVars
<1> QED
  BY <1>2, <1>3, <1>4, <1>5, <1>6 DEF ServiceNext

LEMMA HitsAreAnswers == CallInv => HitIsAnAnswer
BY DEF CallInv, Hit, Answers, HitIsAnAnswer

\* A call that is answered from the cache is given the answer of a call that went well
\* and had the same key, for any number of calls, users and keys
\* (lawgenesis_server.py 284-310).
THEOREM HitIsAnAnswerCorrect == ServiceSpec => []HitIsAnAnswer
BY CallInit, CallNext, HitsAreAnswers, PTL DEF ServiceSpec

(***************************************************************************)
(* The facades of the process                                              *)
(***************************************************************************)

FacadeTypes ==
    /\ at \in [Facades -> UnderWay \cup {"absent", "new", "built", "failed", "referred", "export",
                                        "exported"}]
    /\ registry \in Facades \cup {NoRegistry} /\ read \in [Facades -> Facades \cup {NoRegistry}]
    /\ protocol \in [Facades -> {"none", "tri", "registry"}]
    /\ disturbed \in [Facades -> BOOLEAN]
    /\ DOMAIN plan = Facades /\ DOMAIN object = Facades /\ DOMAIN target = Facades
    /\ DOMAIN value = Facades

LEMMA FacadeTypesInit == ASSUME NEW active, FacadeInit(active) PROVE FacadeTypes
<1>1. DOMAIN plan = Facades
  BY FacadeAssumption DEF FacadeInit
<1> QED
  BY <1>1 DEF FacadeInit, FacadeTypes

LEMMA CheckDefaultTypes ==
    ASSUME FacadeTypes, NEW f \in Facades, CheckDefault(f)
    PROVE  FacadeTypes'
<1> USE DEF FacadeTypes, Moves, UnderWay
<1>1. CASE TestApplication(f)
  BY <1>1 DEF TestApplication, dubboVars, useVars
<1>2. CASE FillApplication(f)
  BY <1>2 DEF FillApplication, Disturbs, useVars
<1>3. CASE TestRegistry(f)
  BY <1>3 DEF TestRegistry, dubboVars, useVars
<1>4. CASE TestVersion(f)
  BY <1>4 DEF TestVersion, dubboVars, useVars
<1>5. CASE TestApplicationVersion(f)
  <2>1. at' \in [Facades -> UnderWay \cup {"failed"} \cup {at[g] : g \in Facades}]
    BY <1>5 DEF TestApplicationVersion
  <2>2. UNCHANGED <<plan, dubboVars, read, value, useVars, disturbed>>
    BY <1>5 DEF TestApplicationVersion
  <2> QED
    BY <2>1, <2>2 DEF dubboVars, useVars
<1>6. CASE ReadVersion(f)
  BY <1>6 DEF ReadVersion, dubboVars, useVars
<1>7. CASE ReadObject(f)
  BY <1>7 DEF ReadObject, dubboVars, useVars
<1>8. CASE StoreVersion(f)
  BY <1>8 DEF StoreVersion, useVars
<1> QED
  BY <1>1, <1>2, <1>3, <1>4, <1>5, <1>6, <1>7, <1>8 DEF CheckDefault

LEMMA FacadingTypes ==
    ASSUME FacadeTypes, NEW f \in Facades, Facading(f)
    PROVE  FacadeTypes'
<1>0. CASE CheckDefault(f)
  BY <1>0, CheckDefaultTypes
<1> USE DEF FacadeTypes, Moves, UnderWay
<1>1. CASE Reuse(f)
  BY <1>1 DEF Reuse, dubboVars, useVars
<1>2. CASE SetApplication(f)
  BY <1>2 DEF SetApplication, Disturbs, useVars
<1>3. CASE SetRegistry(f)
  BY <1>3 DEF SetRegistry, Disturbs, useVars
<1>4. CASE ReadRegistry(f)
  BY <1>4 DEF ReadRegistry, dubboVars, useVars
<1>5. CASE Choose(f)
  BY <1>5 DEF Choose, dubboVars
<1>6. CASE Build(f)
  BY <1>6 DEF Build, dubboVars
<1>7. CASE Refer(f)
  BY <1>7 DEF Refer, dubboVars
<1>8. CASE Start(f)
  BY <1>8 DEF Start, Register, dubboVars
<1>9. CASE Export(f)
  BY <1>9 DEF Export, dubboVars
<1> QED
  BY <1>0, <1>1, <1>2, <1>3, <1>4, <1>5, <1>6, <1>7, <1>8, <1>9 DEF Facading

\* A thread moves its own facade and nothing else of another's, whose plan stays; what is
\* registered or bound stays so.
Same(g) == plan'[g] = plan[g] /\ at'[g] = at[g] /\ read'[g] = read[g] /\ value'[g] = value[g]
           /\ protocol'[g] = protocol[g] /\ target'[g] = target[g]

\* The steps that assign to Dubbo or to a registry configuration.
Assigns(f) == SetApplication(f) \/ SetRegistry(f) \/ FillApplication(f) \/ StoreVersion(f)

LEMMA FacadingFrame ==
    ASSUME FacadeTypes, NEW f \in Facades, Facading(f)
    PROVE  /\ plan' = plan /\ names \subseteq names' /\ bound \subseteq bound'
           /\ \A g \in Facades \ {f} : Same(g)
           /\ \A g \in Facades : disturbed[g] => disturbed'[g]
           /\ disturbed'[f] = disturbed[f]
           /\ Assigns(f) \/ UNCHANGED <<dubboVars, disturbed>>
           /\ Start(f) \/ UNCHANGED names
           /\ Export(f) \/ UNCHANGED bound
           /\ Choose(f) \/ UNCHANGED protocol
           /\ Build(f) \/ UNCHANGED target
<1> USE DEF FacadeTypes, Moves, Same, serverVars, useVars, Assigns
<1>1. CASE Reuse(f)
  BY <1>1 DEF Reuse
<1>2. CASE SetApplication(f)
  BY <1>2 DEF SetApplication, Disturbs
<1>3. CASE SetRegistry(f)
  BY <1>3 DEF SetRegistry, Disturbs
<1>4. CASE CheckDefault(f)
  <2>1. CASE TestApplication(f)
    BY <2>1 DEF TestApplication
  <2>2. CASE FillApplication(f)
    BY <2>2 DEF FillApplication, Disturbs
  <2>3. CASE TestRegistry(f)
    BY <2>3 DEF TestRegistry
  <2>4. CASE TestVersion(f)
    BY <2>4 DEF TestVersion
  <2>5. CASE TestApplicationVersion(f)
    <3>1. /\ \A g \in Facades \ {f} : at'[g] = at[g]
          /\ UNCHANGED <<plan, dubboVars, read, value, useVars, disturbed>>
      BY <2>5 DEF TestApplicationVersion
    <3> QED
      BY <3>1
  <2>6. CASE ReadVersion(f)
    BY <2>6 DEF ReadVersion
  <2>7. CASE ReadObject(f)
    BY <2>7 DEF ReadObject
  <2>8. CASE StoreVersion(f)
    BY <2>8 DEF StoreVersion
  <2> QED
    BY <1>4, <2>1, <2>2, <2>3, <2>4, <2>5, <2>6, <2>7, <2>8 DEF CheckDefault
<1>5. CASE ReadRegistry(f)
  BY <1>5 DEF ReadRegistry
<1>6. CASE Choose(f)
  BY <1>6 DEF Choose
<1>7. CASE Build(f)
  BY <1>7 DEF Build
<1>8. CASE Refer(f)
  BY <1>8 DEF Refer
<1>9. CASE Start(f)
  BY <1>9 DEF Start, Register
<1>10. CASE Export(f)
  BY <1>10 DEF Export
<1> QED
  BY <1>1, <1>2, <1>3, <1>4, <1>5, <1>6, <1>7, <1>8, <1>9, <1>10 DEF Facading
----------------------------------------------------------------------------
(* Urls *)

LEMMA GetNonBlank == ASSUME NEW p, NEW k PROVE Get(NonBlank(p), k) = Get(p, k)
<1>1. DOMAIN NonBlank(p) = {x \in DOMAIN p : p[x] # Blank}
  BY DEF NonBlank, Restrict
<1>2. \A x \in DOMAIN NonBlank(p) : NonBlank(p)[x] = p[x]
  BY DEF NonBlank, Restrict
<1> QED
  BY <1>1, <1>2 DEF Get

LEMMA RegistryParameter ==
    ASSUME NEW r
    PROVE  /\ Get(RegistryParameters(r), LOADBALANCE) = r.load_balance
           /\ Get(RegistryParameters(r), GROUP) = r.group
           /\ Get(RegistryParameters(r), VERSION) = r.version
           /\ Get(RegistryParameters(r), NAMESPACE) = r.namespace
<1> DEFINE p == [k \in {LOADBALANCE, GROUP, VERSION, NAMESPACE} |->
                 CASE k = LOADBALANCE -> r.load_balance
                   [] k = GROUP -> r.group
                   [] k = VERSION -> r.version
                   [] k = NAMESPACE -> r.namespace]
<1>1. RegistryParameters(r) = NonBlank(p)
  BY DEF RegistryParameters
<1>2. /\ Get(p, LOADBALANCE) = r.load_balance /\ Get(p, GROUP) = r.group
      /\ Get(p, VERSION) = r.version /\ Get(p, NAMESPACE) = r.namespace
  BY DEF Get, LOADBALANCE, GROUP, VERSION, NAMESPACE
<1> HIDE DEF p
<1> QED
  BY <1>1, <1>2, GetNonBlank

\* A client's URL has the parameters of its registry's, but for the service.
LEMMA ClientParameter ==
    ASSUME NEW r, NEW reference, NEW k, k # SERVICE
    PROVE  LET link == RegistryUrl(r)
               whole == ClientUrl(link, ReferenceUrl(reference))
           IN /\ Get(whole.parameters, k) = Get(link.parameters, k)
              /\ whole.scheme = link.scheme /\ whole.host = link.host /\ whole.port = link.port
              /\ whole.username = link.username /\ whole.password = link.password
<1> DEFINE link == RegistryUrl(r)
           p == RegistryParameters(r)
           q == [x \in {SERVICE} |-> reference.service]
           both == [x \in DOMAIN p \cup DOMAIN q |-> IF x \in DOMAIN q THEN q[x] ELSE p[x]]
           whole == ClientUrl(link, ReferenceUrl(reference))
<1>1. link = [scheme |-> r.protocol, host |-> r.host, port |-> r.port, username |-> r.username,
             password |-> r.password, path |-> Blank, parameters |-> p]
  BY DEF RegistryUrl, NewUrl
<1>2. ReferenceUrl(reference).path = reference.service /\ ReferenceUrl(reference).parameters = q
  BY DEF ReferenceUrl, NewUrl
<1>3. whole = [scheme |-> r.protocol, host |-> r.host, port |-> r.port, username |-> r.username,
             password |-> r.password, path |-> reference.service, parameters |-> both]
  <2>1. link.parameters = p
    BY <1>1
  <2>2. whole = [link EXCEPT !.path = reference.service, !.parameters = both]
    <3> HIDE DEF p, q, link
    <3> QED
      BY <1>2, <2>1 DEF ClientUrl
  <2> HIDE DEF p, both, whole, link
  <2> QED
    BY <1>1, <2>2
<1>4. Get(both, k) = Get(p, k)
  <2>1. DOMAIN q = {SERVICE}
    OBVIOUS
  <2> HIDE DEF p, q
  <2> QED
    BY <2>1 DEF Get
<1> HIDE DEF p, both, whole, link
<1>5. /\ Get(whole.parameters, k) = Get(link.parameters, k)
      /\ whole.scheme = link.scheme /\ whole.host = link.host /\ whole.port = link.port
      /\ whole.username = link.username /\ whole.password = link.password
  BY <1>1, <1>3, <1>4
<1> QED
  BY <1>5 DEF whole, link

\* A client's URL names the service of its reference.
LEMMA ClientService ==
    ASSUME NEW link, NEW reference
    PROVE  Get(ClientUrl(link, ReferenceUrl(reference)).parameters, SERVICE) = reference.service
<1> DEFINE q == [x \in {SERVICE} |-> reference.service]
           both == [x \in DOMAIN link.parameters \cup DOMAIN q |->
                       IF x \in DOMAIN q THEN q[x] ELSE link.parameters[x]]
           whole == ClientUrl(link, ReferenceUrl(reference))
<1>1. ReferenceUrl(reference).path = reference.service /\ ReferenceUrl(reference).parameters = q
  BY DEF ReferenceUrl, NewUrl
<1>2. whole = [link EXCEPT !.path = reference.service, !.parameters = both]
  BY <1>1 DEF ClientUrl
<1>3. DOMAIN q = {SERVICE} /\ q[SERVICE] = reference.service
  OBVIOUS
<1> QED
  BY <1>2, <1>3 DEF Get

----------------------------------------------------------------------------
(* The registry configurations *)

\* The configuration a thread's text makes, of a version.
Configured(f, v) ==
    LET text == plan[f].registry
    IN NewRegistry(text.scheme, text.host, text.port, text.username, text.password,
                   Own(f, LOADBALANCE), Own(f, GROUP), v, Own(f, NAMESPACE))

LEMMA ConfiguredShape ==
    ASSUME NEW f, NEW v
    PROVE  LET text == plan[f].registry
               r == Configured(f, v)
           IN /\ r.protocol = text.scheme /\ r.host = text.host /\ r.port = text.port
              /\ r.username = text.username /\ r.password = text.password
              /\ r.load_balance = Own(f, LOADBALANCE) /\ r.group = Own(f, GROUP)
              /\ r.version = v /\ r.namespace = Own(f, NAMESPACE)
BY DEF Configured, NewRegistry

LEMMA ConfiguredMade ==
    ASSUME NEW f
    PROVE  RegistryOf(CreateUrl(plan[f].registry)) = Configured(f, Own(f, VERSION))
<1> DEFINE text == plan[f].registry
           made == CreateUrl(text)
<1>1. \A k : Get(made.parameters, k) = Get(text.parameters, k)
  BY GetNonBlank DEF CreateUrl, NewUrl
<1>2. /\ made.scheme = text.scheme /\ made.host = text.host /\ made.port = text.port
      /\ made.username = text.username /\ made.password = text.password
  BY DEF CreateUrl, NewUrl
<1>3. \A k : Own(f, k) = Get(text.parameters, k)
  BY DEF Own
<1>4. Configured(f, Own(f, VERSION)) =
          NewRegistry(text.scheme, text.host, text.port, text.username, text.password,
                      Own(f, LOADBALANCE), Own(f, GROUP), Own(f, VERSION), Own(f, NAMESPACE))
  BY DEF Configured
<1> HIDE DEF made, text
<1>5. RegistryOf(made) = Configured(f, Own(f, VERSION))
  BY <1>1, <1>2, <1>3, <1>4 DEF RegistryOf
<1> QED
  BY <1>5 DEF made, text

LEMMA ConfiguredRevised ==
    ASSUME NEW f, NEW v, NEW w
    PROVE  [Configured(f, v) EXCEPT !.version = w] = Configured(f, w)
BY DEF Configured, NewRegistry

LEMMA ConfiguredSame ==
    ASSUME NEW f, plan'[f] = plan[f]
    PROVE  /\ \A k : Own(f, k)' = Own(f, k)
           /\ \A v : Configured(f, v)' = Configured(f, v)
           /\ \A link : IsOf(link, f)' = IsOf(link, f)
           /\ OwnUrl(f)' = OwnUrl(f) /\ VersionOf(f)' = VersionOf(f)
<1>1. \A k : Own(f, k)' = Own(f, k)
  BY DEF Own
<1> QED
  BY <1>1 DEF Configured, IsOf, OwnUrl, VersionOf

\* The URL a facade builds of a configuration says what that says.
LEMMA BuiltUrl ==
    ASSUME NEW f \in Facades, read[f] # NoRegistry
    PROVE  LET r == object[read[f]]
               link == BuildUrl(f)
           IN /\ link.scheme = r.protocol /\ link.host = r.host /\ link.port = r.port
              /\ link.username = r.username /\ link.password = r.password
              /\ Get(link.parameters, LOADBALANCE) = r.load_balance
              /\ Get(link.parameters, GROUP) = r.group
              /\ Get(link.parameters, VERSION) = r.version
              /\ Get(link.parameters, NAMESPACE) = r.namespace
              /\ f \in Clients => Get(link.parameters, SERVICE) = plan[f].service.service
<1> DEFINE r == object[read[f]]
           plain == RegistryUrl(r)
           whole == ClientUrl(plain, ReferenceUrl(plan[f].service))
           Says(link) == /\ link.scheme = r.protocol /\ link.host = r.host /\ link.port = r.port
                        /\ link.username = r.username /\ link.password = r.password
                        /\ Get(link.parameters, LOADBALANCE) = r.load_balance
                        /\ Get(link.parameters, GROUP) = r.group
                        /\ Get(link.parameters, VERSION) = r.version
                        /\ Get(link.parameters, NAMESPACE) = r.namespace
<1>1. Says(plain)
  BY RegistryParameter DEF RegistryUrl, NewUrl
<1>2. Says(whole)
  <2>1. /\ \A k : k # SERVICE => Get(whole.parameters, k) = Get(plain.parameters, k)
        /\ whole.scheme = plain.scheme /\ whole.host = plain.host /\ whole.port = plain.port
        /\ whole.username = plain.username /\ whole.password = plain.password
    BY ClientParameter DEF SERVICE
  <2>2. SERVICE \notin {LOADBALANCE, GROUP, VERSION, NAMESPACE}
    BY DEF SERVICE, LOADBALANCE, GROUP, VERSION, NAMESPACE
  <2> HIDE DEF whole, plain, r
  <2> QED
    BY <1>1, <2>1, <2>2
<1>3. Get(whole.parameters, SERVICE) = plan[f].service.service
  BY ClientService
<1>4. BuildUrl(f) = IF f \in Clients THEN whole ELSE plain
  BY DEF BuildUrl, OwnUrl
<1> HIDE DEF whole, plain
<1>5. Says(BuildUrl(f)) /\ (f \in Clients => Get(BuildUrl(f).parameters, SERVICE) = plan[f].service.service)
  BY <1>1, <1>2, <1>3, <1>4
<1> QED
  BY <1>5

\* It is the URL of the configuration of a thread that made it.
LEMMA BuiltIsOf ==
    ASSUME NEW f \in Facades, NEW g \in Facades, NEW v, read[f] = g, plan[g].registry # NoRegistry,
           object[g] = Configured(g, v)
    PROVE  IsOf(BuildUrl(f), g) /\ Get(BuildUrl(f).parameters, VERSION) = v
<1>1. read[f] # NoRegistry
  BY FacadeAssumption
<1>2. LET text == plan[g].registry
          link == BuildUrl(f)
      IN /\ link.host = text.host /\ link.port = text.port
         /\ link.username = text.username /\ link.password = text.password
         /\ Get(link.parameters, LOADBALANCE) = Own(g, LOADBALANCE)
         /\ Get(link.parameters, GROUP) = Own(g, GROUP)
         /\ Get(link.parameters, VERSION) = v
         /\ Get(link.parameters, NAMESPACE) = Own(g, NAMESPACE)
  BY <1>1, BuiltUrl, ConfiguredShape
<1> QED
  BY <1>2 DEF IsOf, Location

----------------------------------------------------------------------------
(* Whoever assigns: every configuration in use is one a thread gave *)

\* The threads that have begun, those whose registry configuration is made, and the
\* versions Dubbo's application may have.
Begun == {f \in Facades : at[f] \notin {"absent", "new"}}
Made == {f \in Begun : at[f] # "registry" /\ plan[f].constructs /\ plan[f].registry # NoRegistry}
Applied == {Blank} \cup {plan[f].application : f \in Begun}
VersionsMade(g) == {Own(g, VERSION)} \cup Applied

Dubbo ==
    /\ application \in Applied \cup {NoApplication}
    /\ registry \in Made \cup {NoRegistry}
    /\ \A g \in Made : \E v \in VersionsMade(g) : object[g] = Configured(g, v)

\* What a thread has read, and the URL it has built.
Holds(f) ==
    /\ at[f] = "registry" => plan[f].constructs
    /\ value[f] \in Applied /\ read[f] \in Made \cup {NoRegistry}
    /\ at[f] = "store" => read[f] # NoRegistry
    /\ at[f] = "url" /\ protocol[f] = "registry" =>
           read[f] # NoRegistry /\ object[read[f]].protocol \in Extensions
    /\ Built(f) /\ protocol[f] = "registry" =>
           /\ target[f].scheme \in Extensions
           /\ f \in Clients => Get(target[f].parameters, SERVICE) = plan[f].service.service
           /\ \E g \in Made : /\ IsOf(target[f], g)
                              /\ Get(target[f].parameters, VERSION) \in VersionsMade(g)

MadeInv == Dubbo /\ \A f \in Facades : Holds(f)

LEMMA MadeInit == ASSUME NEW active, FacadeInit(active) PROVE MadeInv
<1>1. /\ \A f \in Facades : at[f] \in {"new", "absent"} /\ value[f] = Blank /\ read[f] = NoRegistry
      /\ application = NoApplication /\ registry = NoRegistry
  BY DEF FacadeInit
<1>2. Made = {} /\ Blank \in Applied
  BY <1>1 DEF Made, Begun, Applied
<1> QED
  BY <1>1, <1>2 DEF MadeInv, Dubbo, Holds, Built

\* No thread goes back: the sets only grow.
LEMMA MadeGrow ==
    ASSUME FacadeTypes, NEW f \in Facades, Facading(f)
    PROVE  /\ Begun \subseteq Begun' /\ Made \subseteq Made' /\ Applied \subseteq Applied'
           /\ Begun' = Begun \/ Begun' = Begun \cup {f}
           /\ Made' = Made \/ (SetRegistry(f) /\ Made' = Made \cup {f})
           /\ \A g \in Facades : VersionsMade(g) \subseteq VersionsMade(g)'
<1>1. /\ plan' = plan /\ \A g \in Facades \ {f} : at'[g] = at[g]
  BY FacadingFrame DEF Same
<1>2. /\ at'[f] \notin {"absent", "new"}
      /\ at[f] \in {"absent", "new", "registry"} => Reuse(f) \/ SetApplication(f) \/ SetRegistry(f)
      /\ at[f] \notin {"absent", "new", "registry"} => at'[f] # "registry"
  <2> USE DEF FacadeTypes, Moves
  <2>1. CASE CheckDefault(f)
    <3>1. CASE TestApplicationVersion(f)
      BY <3>1 DEF TestApplicationVersion
    <3> QED
      BY <2>1, <3>1 DEF CheckDefault, TestApplication, FillApplication, TestRegistry, TestVersion, ReadVersion,
         ReadObject, StoreVersion
  <2>2. CASE ~CheckDefault(f)
    BY <2>2 DEF Facading, Reuse, SetApplication, SetRegistry, ReadRegistry, Choose, Build, Refer, Start, Register,
       Export
  <2> QED
    BY <2>1, <2>2
<1>3. \A g \in Facades : VersionsMade(g)' = {Own(g, VERSION)} \cup Applied'
  BY <1>1, ConfiguredSame DEF VersionsMade
<1>4. /\ Begun \subseteq Begun' /\ (Begun' = Begun \/ Begun' = Begun \cup {f})
      /\ Applied \subseteq Applied'
  BY <1>1, <1>2 DEF Begun, Applied
<1>5. /\ Made \subseteq Made'
      /\ Made' = Made \/ (SetRegistry(f) /\ Made' = Made \cup {f})
  <2>1. \A g \in Facades \ {f} : g \in Made' <=> g \in Made
    BY <1>1 DEF Made, Begun
  <2>2. f \in Made => f \in Made'
    BY <1>1, <1>2 DEF Made, Begun
  <2>3. f \in Made' /\ f \notin Made => SetRegistry(f)
    BY <1>1, <1>2 DEF Made, Begun, Reuse, SetApplication, Moves, FacadeTypes
  <2>4. Made \subseteq Facades /\ Made' \subseteq Facades
    BY DEF Made, Begun
  <2> QED
    BY <2>1, <2>2, <2>3, <2>4
<1> QED
  BY <1>3, <1>4, <1>5 DEF VersionsMade

\* A step that assigns nothing to Dubbo leaves what Dubbo has in the sets.
LEMMA FacadingDubbo ==
    ASSUME FacadeTypes, MadeInv, NEW f \in Facades, Facading(f)
    PROVE  Dubbo'
<1>1. /\ plan' = plan /\ \A g \in Facades : Configured(g, Own(g, VERSION))' = Configured(g, Own(g, VERSION))
      /\ \A g \in Facades : \A v : Configured(g, v)' = Configured(g, v)
      /\ Made \subseteq Made' /\ Applied \subseteq Applied' /\ Made \subseteq Facades
      /\ \A g \in Facades : VersionsMade(g) \subseteq VersionsMade(g)'
  BY FacadingFrame, MadeGrow, ConfiguredSame DEF Made, Begun
<1>2. Made' = Made \/ (SetRegistry(f) /\ Made' = Made \cup {f})
  BY MadeGrow
<1>3. ASSUME Made' = Made, UNCHANGED object
      PROVE  \A g \in Made' : \E v \in VersionsMade(g)' : object'[g] = Configured(g, v)'
  <2> SUFFICES ASSUME NEW g \in Made PROVE \E v \in VersionsMade(g)' : object'[g] = Configured(g, v)'
    BY <1>3
  <2>1. g \in Facades /\ \E v \in VersionsMade(g) : object[g] = Configured(g, v)
    BY <1>1 DEF MadeInv, Dubbo
  <2> QED
    BY <1>1, <1>3, <2>1
<1>4. CASE UNCHANGED dubboVars
  <2>1. Made' = Made
    BY <1>2, <1>4, FacadeAssumption DEF SetRegistry, dubboVars, Made, Begun, FacadeTypes, MadeInv, Dubbo, Moves
  <2> QED
    BY <1>1, <1>3, <1>4, <2>1 DEF MadeInv, Dubbo, dubboVars
<1>5. CASE SetApplication(f)
  <2>1. Made' = Made /\ UNCHANGED <<registry, object>>
    BY <1>2, <1>5 DEF SetApplication, SetRegistry, Moves
  <2>2. application' \in Applied'
    BY <1>5 DEF SetApplication, Moves, Applied, Begun, FacadeTypes
  <2> QED
    BY <1>1, <1>3, <2>1, <2>2 DEF MadeInv, Dubbo
<1>6. CASE FillApplication(f)
  <2>1. Made' = Made /\ UNCHANGED <<registry, object>>
    BY <1>2, <1>6 DEF FillApplication, SetRegistry, Moves
  <2>2. application' \in Applied'
    BY <1>6 DEF FillApplication, Applied
  <2> QED
    BY <1>1, <1>3, <2>1, <2>2 DEF MadeInv, Dubbo
<1>7. CASE SetRegistry(f)
  <2>1. UNCHANGED application /\ at'[f] = "default" /\ at[f] = "registry" /\ plan[f].constructs
    BY <1>7 DEF SetRegistry, Moves, FacadeTypes, MadeInv, Holds
  <2>2. CASE plan[f].registry = NoRegistry
    <3>1. registry' = NoRegistry /\ UNCHANGED object /\ Made' = Made
      BY <1>1, <1>2, <1>7, <2>2 DEF SetRegistry, Made
    <3> QED
      BY <1>1, <1>3, <2>1, <3>1 DEF MadeInv, Dubbo
  <2>3. CASE plan[f].registry # NoRegistry
    <3>1. /\ registry' = f /\ object'[f] = Configured(f, Own(f, VERSION))
          /\ \A g \in Facades \ {f} : object'[g] = object[g]
      BY <1>7, <2>3, ConfiguredMade DEF SetRegistry, FacadeTypes
    <3>2. f \in Made'
      BY <1>1, <2>1, <2>3 DEF Made, Begun
    <3>3. ASSUME NEW g \in Made' PROVE \E v \in VersionsMade(g)' : object'[g] = Configured(g, v)'
      <4>1. CASE g = f
        <5>1. Own(f, VERSION) \in VersionsMade(f)
          BY DEF VersionsMade
        <5> QED
          BY <1>1, <3>1, <4>1, <5>1
      <4>2. CASE g # f
        <5>1. g \in Made /\ g \in Facades /\ \E v \in VersionsMade(g) : object[g] = Configured(g, v)
          BY <1>1, <1>2, <4>2 DEF MadeInv, Dubbo
        <5> QED
          BY <1>1, <3>1, <4>2, <5>1
      <4> QED
        BY <4>1, <4>2
    <3> QED
      BY <1>1, <2>1, <3>1, <3>2, <3>3 DEF MadeInv, Dubbo
  <2> QED
    BY <2>2, <2>3
<1>8. CASE StoreVersion(f)
  <2> DEFINE r == read[f]
  <2>1. UNCHANGED <<application, registry>> /\ Made' = Made /\ at[f] = "store"
    BY <1>2, <1>8 DEF StoreVersion, SetRegistry, Moves
  <2>2. r \in Made /\ value[f] \in Applied
    BY <2>1 DEF MadeInv, Holds
  <2>3. /\ object'[r] = [object[r] EXCEPT !.version = value[f]]
        /\ \A g \in Facades \ {r} : object'[g] = object[g]
    BY <1>1, <1>8, <2>2 DEF StoreVersion, FacadeTypes
  <2> HIDE DEF r
  <2>4. ASSUME NEW g \in Made PROVE \E v \in VersionsMade(g)' : object'[g] = Configured(g, v)'
    <3>1. PICK v \in VersionsMade(g) : object[g] = Configured(g, v)
      BY DEF MadeInv, Dubbo
    <3>2. CASE g = r
      <4>1. object'[g] = Configured(g, value[f])
        BY <2>3, <3>1, <3>2, ConfiguredRevised
      <4>2. value[f] \in VersionsMade(g)'
        BY <1>1, <2>2 DEF VersionsMade
      <4> QED
        BY <1>1, <4>1, <4>2
    <3>3. CASE g # r
      BY <1>1, <2>3, <3>1, <3>3
    <3> QED
      BY <3>2, <3>3
  <2> QED
    BY <1>1, <2>1, <2>4 DEF MadeInv, Dubbo
<1>9. Assigns(f) \/ UNCHANGED dubboVars
  BY FacadingFrame
<1> QED
  BY <1>4, <1>5, <1>6, <1>7, <1>8, <1>9 DEF Assigns

LEMMA SchemeKept ==
    ASSUME FacadeTypes, MadeInv, NEW f \in Facades, Facading(f), NEW g \in Made
    PROVE  object'[g].protocol = object[g].protocol
<1>1. Dubbo' /\ plan' = plan /\ g \in Made' /\ g \in Facades
  BY FacadingDubbo, FacadingFrame, MadeGrow DEF Made, Begun
<1>2. /\ \E v : object[g] = Configured(g, v)
      /\ \E v : object'[g] = Configured(g, v)'
  BY <1>1 DEF MadeInv, Dubbo
<1>3. \A v : Configured(g, v).protocol = plan[g].registry.scheme /\ Configured(g, v)' = Configured(g, v)
  BY <1>1, ConfiguredShape, ConfiguredSame
<1> QED
  BY <1>2, <1>3

\* A step that leaves the facade itself alone, or only takes it further.
LEMMA HoldsFurther ==
    ASSUME FacadeTypes, MadeInv, NEW f \in Facades, Facading(f), NEW g \in Facades,
           value'[g] \in Applied', read'[g] \in Made' \cup {NoRegistry},
           UNCHANGED <<protocol[g], target[g]>>,
           at'[g] = "registry" => plan[g].constructs,
           at'[g] = "store" => read'[g] # NoRegistry,
           at'[g] = "url" => at[g] = "url" /\ read'[g] = read[g],
           Built(g)' => Built(g)
    PROVE  Holds(g)'
<1>1. plan' = plan /\ Made \subseteq Made' /\ VersionsMade(g) \subseteq VersionsMade(g)'
      /\ \A h \in Made : h \in Facades /\ VersionsMade(h) \subseteq VersionsMade(h)'
  BY FacadingFrame, MadeGrow DEF Made, Begun
<1>2. Holds(g)
  BY DEF MadeInv
<1>3. at'[g] = "url" /\ protocol'[g] = "registry" =>
          read'[g] # NoRegistry /\ object'[read'[g]].protocol \in Extensions
  <2> SUFFICES ASSUME at'[g] = "url", protocol'[g] = "registry"
               PROVE  read'[g] # NoRegistry /\ object'[read'[g]].protocol \in Extensions
    OBVIOUS
  <2>1. read'[g] = read[g] /\ read[g] \in Made /\ object[read[g]].protocol \in Extensions /\ read[g] # NoRegistry
    BY <1>2 DEF Holds
  <2> QED
    BY <2>1, SchemeKept
<1>4. Built(g)' /\ protocol'[g] = "registry" =>
          /\ target'[g].scheme \in Extensions
          /\ g \in Clients => Get(target'[g].parameters, SERVICE) = plan'[g].service.service
          /\ \E m \in Made' : /\ IsOf(target[g], m)'
                              /\ Get(target'[g].parameters, VERSION) \in VersionsMade(m)'
  <2> SUFFICES ASSUME Built(g)', protocol'[g] = "registry"
               PROVE  /\ target'[g].scheme \in Extensions
                      /\ g \in Clients => Get(target'[g].parameters, SERVICE) = plan'[g].service.service
                      /\ \E m \in Made' : /\ IsOf(target[g], m)'
                                          /\ Get(target'[g].parameters, VERSION) \in VersionsMade(m)'
    OBVIOUS
  <2>1. /\ target[g].scheme \in Extensions
        /\ g \in Clients => Get(target[g].parameters, SERVICE) = plan[g].service.service
    BY <1>2 DEF Holds
  <2>2. PICK m \in Made : IsOf(target[g], m) /\ Get(target[g].parameters, VERSION) \in VersionsMade(m)
    BY <1>2 DEF Holds
  <2>3. IsOf(target[g], m)'
    BY <1>1, <2>2 DEF IsOf, Own
  <2> QED
    BY <1>1, <2>1, <2>2, <2>3
<1> QED
  BY <1>1, <1>3, <1>4 DEF Holds

LEMMA OthersHold ==
    ASSUME FacadeTypes, MadeInv, NEW f \in Facades, Facading(f), NEW g \in Facades, g # f
    PROVE  Holds(g)'
<1>1. Same(g) /\ Applied \subseteq Applied' /\ Made \subseteq Made' /\ Holds(g)
  BY FacadingFrame, MadeGrow DEF MadeInv
<1> QED
  BY <1>1, HoldsFurther DEF Same, Holds, Built

LEMMA StepHolds ==
    ASSUME FacadeTypes, MadeInv, NEW f \in Facades, Facading(f)
    PROVE  Holds(f)'
<1>1. /\ plan' = plan /\ Applied \subseteq Applied' /\ Made \subseteq Made' /\ Holds(f) /\ Dubbo'
      /\ registry \in Made \cup {NoRegistry} /\ Made \subseteq Facades
  BY FacadingFrame, MadeGrow, FacadingDubbo DEF MadeInv, Dubbo, Made, Begun
<1>2. CASE Choose(f)
  <2>1. /\ at[f] = "choose" /\ UNCHANGED <<plan, dubboVars, read, value, target>> /\ at'[f] \in {"url", "failed"}
        /\ at'[f] = "url" => /\ Buildable(f)
                             /\ protocol'[f] = IF registry = NoRegistry THEN "tri" ELSE "registry"
    BY <1>2 DEF Choose, Moves, FacadeTypes
  <2>2. at'[f] = "url" /\ protocol'[f] = "registry" =>
            read'[f] # NoRegistry /\ object'[read'[f]].protocol \in Extensions
    BY <2>1 DEF Buildable, dubboVars
  <2> QED
    BY <1>1, <2>1, <2>2 DEF Holds, Built
<1>3. CASE Build(f)
  <2>1. /\ at[f] = "url" /\ UNCHANGED <<plan, dubboVars, read, value, protocol>> /\ at'[f] = "built"
        /\ target'[f] = BuildUrl(f)
    BY <1>3 DEF Build, Moves, FacadeTypes
  <2>2. ASSUME protocol[f] = "registry"
        PROVE  /\ target'[f].scheme \in Extensions
               /\ f \in Clients => Get(target'[f].parameters, SERVICE) = plan[f].service.service
               /\ \E g \in Made : /\ IsOf(target'[f], g)
                                  /\ Get(target'[f].parameters, VERSION) \in VersionsMade(g)
    <3>1. read[f] # NoRegistry /\ object[read[f]].protocol \in Extensions /\ read[f] \in Made
      BY <1>1, <2>1, <2>2 DEF Holds
    <3>2. PICK g \in Made : g = read[f]
      BY <3>1
    <3>3. PICK v \in VersionsMade(g) : object[g] = Configured(g, v)
      BY DEF MadeInv, Dubbo
    <3>4. IsOf(BuildUrl(f), g) /\ Get(BuildUrl(f).parameters, VERSION) = v
      BY <1>1, <3>2, <3>3, BuiltIsOf DEF Made
    <3>5. /\ BuildUrl(f).scheme = object[read[f]].protocol
          /\ f \in Clients => Get(BuildUrl(f).parameters, SERVICE) = plan[f].service.service
      BY <3>1, BuiltUrl
    <3> QED
      BY <2>1, <3>1, <3>4, <3>5
  <2>3. \A g \in Made : g \in Made' /\ IsOf(target'[f], g) => IsOf(target[f], g)'
    BY <1>1 DEF IsOf, Own
  <2>4. \A g \in Made : VersionsMade(g) \subseteq VersionsMade(g)'
    BY <1>1, MadeGrow
  <2> QED
    BY <1>1, <2>1, <2>2, <2>3, <2>4 DEF Holds, Built
<1>4. CASE CheckDefault(f)
  <2> USE DEF FacadeTypes, Moves
  <2>1. /\ UNCHANGED <<protocol, target>> /\ at'[f] \in {"fill", "test", "version", "lacks", "value", "object", "store",
                                                       "read", "failed"}
    <3>1. CASE TestApplicationVersion(f)
      BY <3>1 DEF TestApplicationVersion, useVars
    <3> QED
      BY <1>4, <3>1 DEF CheckDefault, TestApplication, FillApplication, TestRegistry, TestVersion, ReadVersion,
         ReadObject, StoreVersion, useVars
  <2>2. value'[f] \in Applied' /\ read'[f] \in Made' \cup {NoRegistry} /\ (at'[f] = "store" => read'[f] # NoRegistry)
    <3>1. CASE TestApplicationVersion(f)
      BY <1>1, <3>1 DEF TestApplicationVersion, Holds
    <3>2. CASE ReadVersion(f)
      <4>1. application = NoApplication \/ application \in Applied
        BY DEF MadeInv, Dubbo
      <4> QED
        BY <1>1, <3>2, <4>1 DEF ReadVersion, Holds
    <3>3. CASE ReadObject(f)
      BY <1>1, <3>3 DEF ReadObject, Holds
    <3> QED
      BY <1>1, <1>4, <3>1, <3>2, <3>3 DEF CheckDefault, TestApplication, FillApplication, TestRegistry, TestVersion,
         StoreVersion, Holds
  <2> QED
    BY <1>1, <2>1, <2>2, HoldsFurther DEF Built
<1>5. CASE Reuse(f) \/ SetApplication(f) \/ SetRegistry(f) \/ ReadRegistry(f)
  <2>1. /\ UNCHANGED <<value, protocol, target>> /\ at'[f] \in {"registry", "default", "read", "choose"}
        /\ at'[f] = "registry" => plan[f].constructs
        /\ read'[f] \in {read[f], registry}
    BY <1>5 DEF Reuse, SetApplication, SetRegistry, ReadRegistry, Moves, FacadeTypes, useVars
  <2> QED
    BY <1>1, <2>1, HoldsFurther DEF Built, Holds
<1>6. CASE Refer(f) \/ Start(f) \/ Export(f)
  <2>1. /\ UNCHANGED <<value, read, protocol, target>> /\ Built(f)
        /\ at'[f] \in {"built", "export", "exported", "referred", "failed"}
    BY <1>6 DEF Refer, Start, Register, Export, Moves, FacadeTypes, Built
  <2> QED
    BY <1>1, <2>1, HoldsFurther DEF Holds
<1> QED
  BY <1>2, <1>3, <1>4, <1>5, <1>6 DEF Facading

LEMMA FacadingMade ==
    ASSUME FacadeTypes, MadeInv, NEW f \in Facades, Facading(f)
    PROVE  MadeInv'
BY FacadingDubbo, OthersHold, StepHolds DEF MadeInv

----------------------------------------------------------------------------
(* Nobody else assigns: a facade uses its own configuration *)

Chosen(f) == IF plan[f].registry = NoRegistry THEN NoRegistry ELSE f
Filled(f) == IF plan[f].application = NoApplication THEN Blank ELSE plan[f].application
Testing == {"test", "version", "lacks", "value", "object", "store"}

\* Dubbo has what the thread of f gave it, as far as that has come.
Assigned(f) ==
    /\ at[f] \in {"registry", "default", "fill"} => application = plan[f].application
    /\ at[f] = "fill" => plan[f].application = NoApplication
    /\ at[f] \in Testing => application = Filled(f)
    /\ at[f] \in UnderWay \ {"registry"} => registry = Chosen(f)
    /\ at[f] \in Testing \ {"test"} => Chosen(f) = f
    /\ at[f] \in Testing \ {"test", "version"} => Own(f, VERSION) = Blank
    /\ at[f] \in {"value", "object", "store"} => Filled(f) # Blank
    /\ at[f] \in {"object", "store"} => value[f] = Filled(f)
    /\ at[f] = "store" => read[f] = f
    /\ Chosen(f) = f =>
           /\ at[f] \in {"default", "fill"} \cup Testing => object[f] = Configured(f, Own(f, VERSION))
           /\ at[f] \in {"read", "choose", "url"} => object[f] = Configured(f, VersionOf(f))
    /\ at[f] \in {"choose", "url"} => read[f] = Chosen(f)
    /\ at[f] = "url" => protocol[f] = IF Chosen(f) = NoRegistry THEN "tri" ELSE "registry"

AsConfigured(f) ==
    IF plan[f].registry = NoRegistry
    THEN protocol[f] = "tri" /\ target[f] = OwnUrl(f)
    ELSE /\ protocol[f] = "registry" /\ IsOf(target[f], f)
         /\ Get(target[f].parameters, VERSION) = VersionOf(f)

Undisturbed(f) == plan[f].constructs /\ ~disturbed[f]
BuildInv == \A f \in Facades : Undisturbed(f) => Assigned(f) /\ (Built(f) => AsConfigured(f))

LEMMA BuildInit == ASSUME NEW active, FacadeInit(active) PROVE BuildInv
<1>1. \A f \in Facades : at[f] \in {"new", "absent"}
  BY DEF FacadeInit
<1> QED
  BY <1>1 DEF BuildInv, Assigned, Built, Testing, UnderWay

LEMMA ChosenSame ==
    ASSUME NEW g, plan'[g] = plan[g]
    PROVE  /\ Chosen(g)' = Chosen(g) /\ Filled(g)' = Filled(g) /\ Own(g, VERSION)' = Own(g, VERSION)
           /\ VersionOf(g)' = VersionOf(g) /\ OwnUrl(g)' = OwnUrl(g)
           /\ \A v : Configured(g, v)' = Configured(g, v)
           /\ Configured(g, VersionOf(g))' = Configured(g, VersionOf(g))
           /\ Configured(g, Own(g, VERSION))' = Configured(g, Own(g, VERSION))
<1>1. /\ Own(g, VERSION)' = Own(g, VERSION) /\ VersionOf(g)' = VersionOf(g) /\ OwnUrl(g)' = OwnUrl(g)
      /\ \A v : Configured(g, v)' = Configured(g, v)
  BY ConfiguredSame
<1>2. /\ Configured(g, VersionOf(g))' = Configured(g, VersionOf(g))
      /\ Configured(g, Own(g, VERSION))' = Configured(g, Own(g, VERSION))
  BY <1>1 DEF Configured, Own
<1> QED
  BY <1>1, <1>2 DEF Chosen, Filled

LEMMA SameIsConfigured ==
    ASSUME NEW g, Same(g)
    PROVE  (Built(g) => AsConfigured(g)) => (Built(g) => AsConfigured(g))'
<1>1. /\ plan'[g] = plan[g] /\ at'[g] = at[g] /\ protocol'[g] = protocol[g] /\ target'[g] = target[g]
      /\ IsOf(target[g], g)' = IsOf(target[g], g)
  BY DEF Same, IsOf, Own
<1> QED
  BY <1>1, ChosenSame DEF Built, AsConfigured

\* What another's thread does to Dubbo does not show in what g's thread gave it.
LEMMA SameIsAssigned ==
    ASSUME NEW g, Same(g), Assigned(g),
           at[g] \in UnderWay => /\ application' = application /\ registry' = registry
                                 /\ object'[g] = object[g]
    PROVE  Assigned(g)'
<1>1. CASE at[g] \in UnderWay
  BY <1>1, ChosenSame DEF Same, Assigned
<1>2. CASE at[g] \notin UnderWay
  BY <1>2 DEF Same, Assigned, Testing, UnderWay
<1> QED
  BY <1>1, <1>2

LEMMA OthersAssigned ==
    ASSUME FacadeTypes, NEW f \in Facades, Facading(f), NEW g \in Facades, g # f,
           Assigned(g), ~disturbed'[g]
    PROVE  Assigned(g)'
<1>1. Same(g) /\ (Assigns(f) \/ UNCHANGED dubboVars)
  BY FacadingFrame
<1>2. CASE UNCHANGED dubboVars
  BY <1>1, <1>2, SameIsAssigned DEF dubboVars
<1>3. CASE SetApplication(f) \/ SetRegistry(f) \/ FillApplication(f)
  <2>1. at[g] \notin UnderWay
    BY <1>3 DEF SetApplication, SetRegistry, FillApplication, Disturbs, FacadeTypes
  <2> QED
    BY <1>1, <2>1, SameIsAssigned
<1>4. CASE StoreVersion(f)
  <2>1. /\ UNCHANGED <<application, registry>>
        /\ at[g] \in UnderWay => g # read[f]
    BY <1>4 DEF StoreVersion, FacadeTypes
  <2>2. g # read[f] => object'[g] = object[g]
    BY <1>4 DEF StoreVersion, FacadeTypes
  <2> QED
    BY <1>1, <2>1, <2>2, SameIsAssigned
<1> QED
  BY <1>1, <1>2, <1>3, <1>4 DEF Assigns

LEMMA CheckDefaultConfigures ==
    ASSUME FacadeTypes, NEW f \in Facades, CheckDefault(f), Facading(f), Assigned(f)
    PROVE  Assigned(f)' /\ ~Built(f)'
<1>1. /\ Chosen(f)' = Chosen(f) /\ Filled(f)' = Filled(f) /\ Own(f, VERSION)' = Own(f, VERSION)
      /\ VersionOf(f)' = VersionOf(f)
      /\ Configured(f, VersionOf(f))' = Configured(f, VersionOf(f))
      /\ Configured(f, Own(f, VERSION))' = Configured(f, Own(f, VERSION))
  <2>1. plan' = plan
    BY FacadingFrame
  <2> QED
    BY <2>1, ChosenSame
<1>2. /\ Chosen(f) \in {NoRegistry, f} /\ NoRegistry # f
      /\ Configured(f, Own(f, VERSION)).version = Own(f, VERSION)
      /\ [Configured(f, Own(f, VERSION)) EXCEPT !.version = Filled(f)] = Configured(f, Filled(f))
      /\ NoApplication # Blank
  BY FacadeAssumption, ConfiguredShape, ConfiguredRevised DEF Chosen
<1>3. /\ Own(f, VERSION) # Blank => VersionOf(f) = Own(f, VERSION)
      /\ Own(f, VERSION) = Blank => VersionOf(f) = Filled(f)
  BY DEF VersionOf, Filled
<1> USE DEF FacadeTypes, Moves, Assigned, Built, Testing, UnderWay, dubboVars
<1>4. CASE TestApplication(f)
  BY <1>1, <1>2, <1>4 DEF TestApplication, Filled
<1>5. CASE FillApplication(f)
  BY <1>1, <1>2, <1>5 DEF FillApplication, Filled
<1>6. CASE TestRegistry(f)
  BY <1>1, <1>2, <1>6 DEF TestRegistry
<1>7. CASE TestVersion(f)
  BY <1>1, <1>2, <1>3, <1>7 DEF TestVersion, LacksVersion
<1>8. CASE TestApplicationVersion(f)
  <2>1. /\ at[f] = "lacks" /\ at'[f] = IF application = NoApplication THEN "failed"
                                       ELSE IF application = Blank THEN "read" ELSE "value"
        /\ UNCHANGED <<plan, dubboVars, read, value>>
    BY <1>2, <1>8 DEF TestApplicationVersion
  <2> QED
    BY <1>1, <1>2, <1>3, <2>1
<1>9. CASE ReadVersion(f)
  BY <1>1, <1>2, <1>9 DEF ReadVersion
<1>10. CASE ReadObject(f)
  BY <1>1, <1>2, <1>10 DEF ReadObject
<1>11. CASE StoreVersion(f)
  <2>1. at[f] = "store" /\ at'[f] = "read" /\ read[f] = f /\ value[f] = Filled(f) /\ UNCHANGED <<application, registry, read>>
    BY <1>11 DEF StoreVersion
  <2>2. object'[f] = [object[f] EXCEPT !.version = Filled(f)]
    BY <1>11, <2>1 DEF StoreVersion
  <2>3. object'[f] = Configured(f, VersionOf(f))
    BY <1>2, <1>3, <2>1, <2>2
  <2> QED
    BY <1>1, <2>1, <2>3
<1> QED
  BY <1>4, <1>5, <1>6, <1>7, <1>8, <1>9, <1>10, <1>11 DEF CheckDefault

LEMMA BuildConfigures ==
    ASSUME FacadeTypes, NEW f \in Facades, Build(f), Assigned(f)
    PROVE  Assigned(f)' /\ AsConfigured(f)'
<1>1. /\ at[f] = "url" /\ at'[f] = "built" /\ UNCHANGED <<plan, read, protocol>>
      /\ target'[f] = BuildUrl(f)
      /\ read[f] = Chosen(f) /\ protocol[f] = IF Chosen(f) = NoRegistry THEN "tri" ELSE "registry"
      /\ Chosen(f) = f => object[f] = Configured(f, VersionOf(f))
  BY DEF Build, Moves, FacadeTypes, Assigned, UnderWay
<1>2. /\ \A link : IsOf(link, f)' = IsOf(link, f)
      /\ VersionOf(f)' = VersionOf(f) /\ OwnUrl(f)' = OwnUrl(f)
  BY <1>1, ConfiguredSame
<1>3. Assigned(f)'
  BY <1>1 DEF Assigned, Testing, UnderWay
<1>4. CASE plan[f].registry = NoRegistry
  BY <1>1, <1>2, <1>3, <1>4 DEF Chosen, BuildUrl, AsConfigured
<1>5. CASE plan[f].registry # NoRegistry
  <2>1. read[f] = f /\ protocol[f] = "registry" /\ object[f] = Configured(f, VersionOf(f))
    BY <1>1, <1>5, FacadeAssumption DEF Chosen
  <2>2. IsOf(BuildUrl(f), f) /\ Get(BuildUrl(f).parameters, VERSION) = VersionOf(f)
    BY <1>5, <2>1, BuiltIsOf
  <2>3. IsOf(target[f], f)'
    BY <1>1, <2>2 DEF IsOf, Own
  <2> QED
    BY <1>1, <1>2, <1>3, <1>5, <2>1, <2>2, <2>3 DEF AsConfigured
<1> QED
  BY <1>4, <1>5

LEMMA StepConfigures ==
    ASSUME FacadeTypes, NEW f \in Facades, Facading(f), plan[f].constructs,
           Assigned(f), Built(f) => AsConfigured(f)
    PROVE  Assigned(f)' /\ (Built(f) => AsConfigured(f))'
<1>1. plan' = plan
  BY FacadingFrame
<1>2. /\ Chosen(f)' = Chosen(f) /\ Filled(f)' = Filled(f)
      /\ Configured(f, VersionOf(f))' = Configured(f, VersionOf(f))
      /\ Configured(f, Own(f, VERSION))' = Configured(f, Own(f, VERSION))
      /\ Chosen(f) \in {NoRegistry, f} /\ NoRegistry # f
  BY <1>1, ChosenSame, FacadeAssumption DEF Chosen
<1>3. CASE SetApplication(f)
  BY <1>1, <1>3 DEF SetApplication, Moves, FacadeTypes, Assigned, Built, Testing, UnderWay
<1>4. CASE SetRegistry(f)
  <2>1. at[f] = "registry" /\ at'[f] = "default" /\ application = plan[f].application
        /\ application' = application
    BY <1>4 DEF SetRegistry, Moves, FacadeTypes, Assigned
  <2>2. /\ registry' = Chosen(f)
        /\ Chosen(f) = f => object'[f] = Configured(f, Own(f, VERSION))
    BY <1>4, FacadeAssumption, ConfiguredMade DEF SetRegistry, Chosen, FacadeTypes
  <2> QED
    BY <1>1, <1>2, <2>1, <2>2 DEF Assigned, Built, Testing, UnderWay
<1>5. CASE CheckDefault(f)
  BY <1>5, CheckDefaultConfigures
<1>6. CASE ReadRegistry(f)
  BY <1>1, <1>2, <1>6 DEF ReadRegistry, Moves, FacadeTypes, Assigned, Built, Testing, UnderWay, dubboVars
<1>7. CASE Choose(f)
  <2>1. /\ at[f] = "choose" /\ at'[f] \in {"url", "failed"} /\ UNCHANGED <<registry, object, read>>
        /\ at'[f] = "url" => protocol'[f] = IF registry = NoRegistry THEN "tri" ELSE "registry"
    BY <1>7 DEF Choose, Moves, FacadeTypes, dubboVars
  <2>2. /\ registry = Chosen(f) /\ read[f] = Chosen(f)
        /\ Chosen(f) = f => object[f] = Configured(f, VersionOf(f))
    BY <2>1 DEF Assigned, UnderWay
  <2> QED
    BY <1>2, <2>1, <2>2 DEF Assigned, Built, Testing, UnderWay
<1>8. CASE Build(f)
  BY <1>8, BuildConfigures
<1>9. CASE Refer(f) \/ Start(f) \/ Export(f)
  <2>1. /\ Built(f) /\ UNCHANGED <<protocol, target>>
        /\ at'[f] \in {"built", "export", "exported", "referred", "failed"}
    BY <1>9 DEF Refer, Start, Register, Export, Moves, FacadeTypes, Built
  <2>2. IsOf(target[f], f)' = IsOf(target[f], f)
    BY <1>1, <2>1 DEF IsOf, Own
  <2> QED
    BY <1>1, <2>1, <2>2, ChosenSame DEF Assigned, Built, AsConfigured, Testing, UnderWay
<1>10. ~Reuse(f)
  BY DEF Reuse
<1> QED
  BY <1>3, <1>4, <1>5, <1>6, <1>7, <1>8, <1>9, <1>10 DEF Facading

LEMMA FacadingBuilds ==
    ASSUME FacadeTypes, BuildInv, NEW f \in Facades, Facading(f)
    PROVE  BuildInv'
<1> SUFFICES ASSUME NEW g \in Facades, Undisturbed(g)'
             PROVE  Assigned(g)' /\ (Built(g) => AsConfigured(g))'
  BY DEF BuildInv
<1>1. /\ plan' = plan /\ disturbed'[f] = disturbed[f] /\ ~disturbed'[g]
      /\ g # f => Same(g) /\ ~disturbed[g]
  BY FacadingFrame DEF Undisturbed
<1>2. CASE g # f
  BY <1>1, <1>2, OthersAssigned, SameIsConfigured DEF BuildInv, Undisturbed
<1>3. CASE g = f
  BY <1>1, <1>3, StepConfigures DEF BuildInv, Undisturbed
<1> QED
  BY <1>2, <1>3

----------------------------------------------------------------------------
(* Servers that are registered and exported *)

\* What a server writes into its registry.
Entry(f) ==
    [registry |-> Location(target[f]), root |-> Root(target[f]), service |-> plan[f].service.name,
     text |-> ToStr(OwnUrl(f))]

Entered == \A f \in Servers : at[f] \in {"export", "exported"} /\ protocol[f] = "registry" => Entry(f) \in names
Listening == \A f \in Servers : at[f] = "exported" => <<f, Location(ExportUrl(f))>> \in bound
OneSocket == \A b, c \in bound : b[2] = c[2] => b = c
ExportInv == Entered /\ Listening /\ OneSocket

LEMMA ExportInit == ASSUME NEW active, FacadeInit(active) PROVE ExportInv
<1>1. /\ \A f \in Facades : at[f] \in {"new", "absent"}
      /\ bound = {} /\ Servers \subseteq Facades
  BY DEF FacadeInit, Facades
<1> QED
  BY <1>1 DEF ExportInv, Entered, Listening, OneSocket

\* A facade that keeps its plan, URL and protocol keeps what it is registered and
\* exported under.
LEMMA UrlsSame ==
    ASSUME NEW g, plan'[g] = plan[g], target'[g] = target[g], protocol'[g] = protocol[g]
    PROVE  Entry(g)' = Entry(g) /\ Location(ExportUrl(g))' = Location(ExportUrl(g))
<1>1. OwnUrl(g)' = OwnUrl(g)
  BY ConfiguredSame
<1> QED
  BY <1>1 DEF Entry, ExportUrl

LEMMA FacadingExports ==
    ASSUME FacadeTypes, ExportInv, NEW f \in Facades, Facading(f)
    PROVE  ExportInv'
<1>1. /\ plan' = plan /\ names \subseteq names' /\ bound \subseteq bound' /\ Servers \subseteq Facades
      /\ Choose(f) \/ UNCHANGED protocol
      /\ Build(f) \/ UNCHANGED target
      /\ Export(f) \/ UNCHANGED bound
  BY FacadingFrame DEF Facades
<1>2. ASSUME NEW g \in Facades, g # f
      PROVE  /\ UNCHANGED <<at[g], protocol[g], target[g]>>
             /\ Entry(g)' = Entry(g) /\ Location(ExportUrl(g))' = Location(ExportUrl(g))
  BY <1>2, FacadingFrame, UrlsSame DEF Same
<1>3. CASE Start(f)
  <2>1. /\ f \in Servers /\ at[f] = "built" /\ at'[f] \in {"built", "export"} /\ UNCHANGED <<bound, protocol, target>>
    BY <1>3 DEF Start, Register, Moves, FacadeTypes
  <2>2. at'[f] = "export" /\ protocol[f] = "registry" => Entry(f) \in names'
    <3>1. at'[f] = "export" /\ protocol[f] = "registry" => names' = names \cup {Entry(f)}
      BY <1>3, <2>1 DEF Start, Register, Moves, FacadeTypes, Entry
    <3> QED
      BY <3>1
  <2>3. Entry(f)' = Entry(f)
    BY <1>1, <2>1, UrlsSame
  <2>4. Entered' /\ Listening'
    BY <1>1, <1>2, <2>1, <2>2, <2>3 DEF ExportInv, Entered, Listening
  <2> QED
    BY <2>1, <2>4 DEF ExportInv, OneSocket
<1>4. CASE Export(f)
  <2>1. /\ f \in Servers /\ at[f] = "export" /\ at'[f] \in {"built", "exported"} /\ UNCHANGED <<protocol, target>>
        /\ bound' = bound \/ at'[f] = "exported"
        /\ at'[f] = "exported" => /\ Location(ExportUrl(f)) \notin Addresses
                                  /\ bound' = bound \cup {<<f, Location(ExportUrl(f))>>}
    BY <1>4 DEF Export, Moves, FacadeTypes
  <2>2. Entry(f)' = Entry(f) /\ Location(ExportUrl(f))' = Location(ExportUrl(f))
    BY <1>1, <2>1, UrlsSame
  <2>3. Entered' /\ Listening'
    BY <1>1, <1>2, <2>1, <2>2 DEF ExportInv, Entered, Listening
  <2>4. OneSocket'
    BY <2>1 DEF ExportInv, OneSocket, Addresses
  <2> QED
    BY <2>3, <2>4 DEF ExportInv
<1>5. CASE ~Start(f) /\ ~Export(f)
  <2>1. at'[f] \notin {"export", "exported"}
    <3> USE DEF Moves, FacadeTypes
    <3>1. CASE CheckDefault(f)
      <4>1. CASE TestApplicationVersion(f)
        BY <4>1 DEF TestApplicationVersion
      <4> QED
        BY <3>1, <4>1 DEF CheckDefault, TestApplication, FillApplication, TestRegistry, TestVersion, ReadVersion,
           ReadObject, StoreVersion
    <3>2. CASE ~CheckDefault(f)
      BY <1>5, <3>2 DEF Facading, Reuse, SetApplication, SetRegistry, ReadRegistry, Choose, Build, Refer
    <3> QED
      BY <3>1, <3>2
  <2>2. UNCHANGED bound
    BY <1>1, <1>5
  <2>3. Entered' /\ Listening'
    BY <1>1, <1>2, <2>1 DEF ExportInv, Entered, Listening
  <2> QED
    BY <2>2, <2>3 DEF ExportInv, OneSocket
<1> QED
  BY <1>3, <1>4, <1>5

\* What a server wrote is read as its own URL.
LEMMA EntryReads ==
    ASSUME NEW f, f \notin Clients
    PROVE  LET link == CreateUrl(Entry(f).text)
           IN /\ Entry(f).registry = Location(target[f]) /\ Entry(f).root = Root(target[f])
              /\ Entry(f).service = plan[f].service.name
              /\ Location(Entry(f).text) = Location(OwnUrl(f))
              /\ Location(link) = Location(OwnUrl(f)) /\ Get(link.parameters, SERVICE) = plan[f].service.name
<1> DEFINE own == OwnUrl(f)
           text == ToStr(own)
           link == CreateUrl(text)
           p == [k \in {SERVICE} |-> plan[f].service.name]
<1>1. own = [scheme |-> plan[f].service.protocol, host |-> plan[f].service.host, port |-> plan[f].service.port,
             username |-> Blank, password |-> Blank, path |-> Blank, parameters |-> p]
  BY DEF OwnUrl, ServiceUrl, NewUrl
<1>2. Get(p, SERVICE) = plan[f].service.name
  BY DEF Get
<1> HIDE DEF own, p
<1>3. text.host = own.host /\ text.port = own.port /\ text.parameters = p
  BY <1>1 DEF ToStr
<1>4. link.host = text.host /\ link.port = text.port /\ link.parameters = NonBlank(text.parameters)
  BY DEF CreateUrl, NewUrl
<1> HIDE DEF text, link
<1>5. Get(link.parameters, SERVICE) = plan[f].service.name
  BY <1>2, <1>3, <1>4, GetNonBlank
<1>6. Location(link) = Location(own) /\ Location(text) = Location(own)
  BY <1>3, <1>4 DEF Location
<1>7. /\ Entry(f).text = text /\ Entry(f).registry = Location(target[f]) /\ Entry(f).root = Root(target[f])
      /\ Entry(f).service = plan[f].service.name
  BY DEF Entry, text, own
<1> QED
  BY <1>5, <1>6, <1>7 DEF link, own, text

FacadeInv == FacadeTypes /\ MadeInv /\ BuildInv /\ ExportInv

LEMMA FacadeInvInit == ASSUME NEW active, FacadeInit(active) PROVE FacadeInv
BY FacadeTypesInit, MadeInit, BuildInit, ExportInit DEF FacadeInv

LEMMA FacadingKeeps ==
    ASSUME FacadeInv, NEW f \in Facades, Facading(f)
    PROVE  FacadeInv'
BY FacadingTypes, FacadingMade, FacadingBuilds, FacadingExports DEF FacadeInv

\* A step of the facades' surroundings may give one that has not begun another plan.
LEMMA PlanKeeps ==
    ASSUME FacadeInv, NEW f,
           \/ plan' = plan
           \/ f \in Facades /\ at[f] \in {"absent", "new"} /\ plan' = [plan EXCEPT ![f] = plan'[f]],
           UNCHANGED <<dubboVars, at, read, value, useVars, disturbed>>
    PROVE  FacadeInv'
<1>1. /\ UNCHANGED <<application, registry, object, at, read, value, protocol, target, names, bound, disturbed>>
      /\ \A g \in Facades : plan'[g] = plan[g] \/ at[g] \in {"absent", "new"}
  BY DEF dubboVars, useVars, serverVars, FacadeInv, FacadeTypes
<1>2. FacadeTypes'
  BY <1>1 DEF FacadeInv, FacadeTypes
<1>3. /\ Begun' = Begun /\ Made' = Made /\ Applied' = Applied
      /\ \A g \in Begun : /\ plan'[g] = plan[g] /\ g \in Facades
                          /\ VersionsMade(g)' = VersionsMade(g)
                          /\ \A v : Configured(g, v)' = Configured(g, v)
                          /\ \A link : IsOf(link, g)' = IsOf(link, g)
  <2>1. Begun' = Begun
    BY <1>1 DEF Begun
  <2>2. \A g \in Begun : plan'[g] = plan[g] /\ g \in Facades
    BY <1>1 DEF Begun
  <2>3. Made' = Made /\ Applied' = Applied
    BY <1>1, <2>1, <2>2 DEF Made, Applied
  <2> QED
    BY <2>1, <2>2, <2>3, ConfiguredSame DEF VersionsMade
<1>4. MadeInv'
  <2>1. Made \subseteq Begun /\ \A g \in Facades : Built(g) => g \in Begun
    BY DEF Made, Begun, Built
  <2>2. Dubbo'
    <3>1. ASSUME NEW g \in Made PROVE \E v \in VersionsMade(g)' : object'[g] = Configured(g, v)'
      <4>1. \E v \in VersionsMade(g) : object[g] = Configured(g, v)
        BY DEF FacadeInv, MadeInv, Dubbo
      <4> QED
        BY <1>1, <1>3, <2>1, <4>1
    <3> QED
      BY <1>1, <1>3, <3>1 DEF FacadeInv, MadeInv, Dubbo
  <2>3. ASSUME NEW g \in Facades PROVE Holds(g)'
    <3>1. Holds(g)
      BY DEF FacadeInv, MadeInv
    <3>2. Built(g)' /\ protocol'[g] = "registry" =>
              /\ target'[g].scheme \in Extensions
              /\ g \in Clients => Get(target'[g].parameters, SERVICE) = plan'[g].service.service
              /\ \E m \in Made' : /\ IsOf(target[g], m)'
                                  /\ Get(target'[g].parameters, VERSION) \in VersionsMade(m)'
      <4> SUFFICES ASSUME Built(g), protocol[g] = "registry"
                   PROVE  /\ target[g].scheme \in Extensions
                          /\ g \in Clients => Get(target[g].parameters, SERVICE) = plan'[g].service.service
                          /\ \E m \in Made : /\ IsOf(target[g], m)'
                                             /\ Get(target[g].parameters, VERSION) \in VersionsMade(m)'
        BY <1>1, <1>3 DEF Built
      <4>1. /\ target[g].scheme \in Extensions /\ plan'[g] = plan[g]
            /\ g \in Clients => Get(target[g].parameters, SERVICE) = plan[g].service.service
        BY <1>3, <2>1, <3>1 DEF Holds
      <4>2. PICK m \in Made : IsOf(target[g], m) /\ Get(target[g].parameters, VERSION) \in VersionsMade(m)
        BY <3>1 DEF Holds
      <4>3. IsOf(target[g], m)' /\ VersionsMade(m)' = VersionsMade(m)
        <5>1. m \in Begun /\ plan'[m] = plan[m] /\ target'[g] = target[g]
          BY <1>1, <1>3, <2>1
        <5>2. IsOf(target[g], m)'
          BY <4>2, <5>1 DEF IsOf, Own
        <5> QED
          BY <1>3, <5>1, <5>2
      <4> QED
        BY <4>1, <4>2, <4>3
    <3>3. at[g] = "registry" => plan'[g] = plan[g]
      BY <1>1
    <3> QED
      BY <1>1, <1>3, <3>1, <3>2, <3>3 DEF Holds
  <2> QED
    BY <2>2, <2>3 DEF MadeInv
<1>5. BuildInv'
  <2> SUFFICES ASSUME NEW g \in Facades, Undisturbed(g)'
               PROVE  Assigned(g)' /\ (Built(g) => AsConfigured(g))'
    BY DEF BuildInv
  <2>1. CASE plan'[g] = plan[g]
    <3>1. Same(g) /\ Undisturbed(g)
      BY <1>1, <2>1 DEF Same, Undisturbed
    <3> QED
      BY <1>1, <3>1, SameIsAssigned, SameIsConfigured DEF FacadeInv, BuildInv
  <2>2. CASE at[g] \in {"absent", "new"}
    BY <1>1, <2>2 DEF Assigned, Built, Testing, UnderWay
  <2> QED
    BY <1>1, <2>1, <2>2
<1>6. ExportInv'
  <2>1. \A g \in Facades : at[g] \in {"export", "exported"} =>
            Entry(g)' = Entry(g) /\ Location(ExportUrl(g))' = Location(ExportUrl(g))
    BY <1>1, UrlsSame
  <2> QED
    BY <1>1, <2>1 DEF FacadeInv, ExportInv, Entered, Listening, OneSocket, Facades
<1> QED
  BY <1>2, <1>4, <1>5, <1>6 DEF FacadeInv

LEMMA ExportedReaches == ASSUME FacadeInv PROVE ExportedIsReachable
<1>1. ASSUME NEW f \in Servers, at[f] = "exported", protocol[f] = "registry"
      PROVE  \E n \in names : LET link == CreateUrl(n.text)
                              IN /\ n.registry = Location(target[f]) /\ n.root = Root(target[f])
                                 /\ <<f, Location(link)>> \in bound
                                 /\ Get(link.parameters, SERVICE) = plan[f].service.name
  <2>1. f \notin Clients
    BY FacadeAssumption
  <2>2. Entry(f) \in names /\ <<f, Location(OwnUrl(f))>> \in bound
    BY <1>1 DEF FacadeInv, ExportInv, Entered, Listening, ExportUrl
  <2> QED
    BY <2>1, <2>2, EntryReads
<1> QED
  BY <1>1 DEF ExportedIsReachable, FacadeInv, MadeInv, Holds, ExportInv, OneSocket

LEMMA ClientsFind == ASSUME FacadeInv PROVE ClientFindsServer
<1> SUFFICES ASSUME NEW f \in Servers, NEW c \in Clients,
                    at[f] = "exported", protocol[f] = "registry", Built(c), protocol[c] = "registry",
                    Location(target[c]) = Location(target[f]), Root(target[c]) = Root(target[f]),
                    plan[c].service.service = plan[f].service.name
             PROVE  \E t \in Providers(target[c]) : <<f, Location(CreateUrl(t))>> \in bound
  BY DEF ClientFindsServer
<1>1. f \notin Clients /\ c \in Facades
  BY FacadeAssumption DEF Facades
<1>2. Entry(f) \in names /\ <<f, Location(OwnUrl(f))>> \in bound
  BY DEF FacadeInv, ExportInv, Entered, Listening, ExportUrl
<1>3. Get(target[c].parameters, SERVICE) = plan[f].service.name
  BY <1>1 DEF FacadeInv, MadeInv, Holds
<1>4. Entry(f).text \in Providers(target[c])
  BY <1>1, <1>2, <1>3, EntryReads DEF Providers
<1> QED
  BY <1>1, <1>2, <1>4, EntryReads

LEMMA FacadesBuilt == ASSUME FacadeInv PROVE BuiltAsConfigured
<1>1. ASSUME NEW f \in Facades, Built(f), protocol[f] = "registry"
      PROVE  \E g \in Facades : IsOf(target[f], g) /\ Get(target[f].parameters, VERSION) \in Versions(g)
  <2>1. PICK g \in Made : IsOf(target[f], g) /\ Get(target[f].parameters, VERSION) \in VersionsMade(g)
    BY <1>1 DEF FacadeInv, MadeInv, Holds
  <2>2. g \in Facades /\ VersionsMade(g) \subseteq Versions(g)
    BY DEF Made, Begun, VersionsMade, Applied, Versions
  <2> QED
    BY <2>1, <2>2
<1>2. ASSUME NEW f \in Facades, Built(f), plan[f].constructs, ~disturbed[f] PROVE AsConfigured(f)
  BY <1>2 DEF FacadeInv, BuildInv, Undisturbed
<1> QED
  BY <1>1, <1>2 DEF BuiltAsConfigured, AsConfigured

LEMMA FacadeInvNext == FacadeInv /\ [\E f \in Facades : Facading(f)]_facadeVars => FacadeInv'
<1> SUFFICES ASSUME FacadeInv, [\E f \in Facades : Facading(f)]_facadeVars PROVE FacadeInv'
  OBVIOUS
<1>1. ASSUME NEW f \in Facades, Facading(f) PROVE FacadeInv'
  BY <1>1, FacadingKeeps
<1>2. CASE UNCHANGED facadeVars
  <2>1. UNCHANGED <<plan, dubboVars, at, read, value, useVars, disturbed>>
    BY <1>2 DEF facadeVars
  <2> QED
    BY <2>1, PlanKeeps
<1> QED
  BY <1>1, <1>2
(***************************************************************************)
(* The configurations                                                      *)
(***************************************************************************)

Values == {"none"} \cup Dicts

LoadTypes ==
    /\ file \in [Configs -> Contents] /\ changes \in 0..MaxChanges
    /\ snapshot \in [Configs -> {"none"} \cup Contents]
    /\ content \in [Configs -> {"none", "text"} \cup Dicts]
    /\ attribute \in [Configs -> [1..2 -> Values]]
    /\ listener \in [Configs -> {"none", "polling", "dead"}]
    /\ digest \in [Configs -> {"none"} \cup Contents]
    /\ loader \in [pc : {"fetch", "subscribe", "running", "dead"}, at : 1..Len(Order)]

\* An attribute is of a dictionary that has a key for it, or was never assigned.
Sourced ==
    \A c \in Configs, i \in 1..2 :
        attribute[c][i] = "none" \/ (attribute[c][i] \in Dicts /\ i \in Range(Given[attribute[c][i]]))

\* update_cls assigns the attributes a dictionary has keys for, in its order: those that
\* are not left are of it.
Remaining == {<<1>>, <<2>>, <<1, 2>>, <<2, 1>>}
Assigning ==
    \/ Free
    \/ LET c == assigning.config
           given == Range(Given[content[c]])
       IN /\ c \in Configs /\ content[c] \in Dicts
          /\ assigning.left \in Remaining /\ Range(assigning.left) \subseteq given
          /\ \A i \in given : i \in Range(assigning.left) \/ attribute[c][i] = content[c]

\* A configuration that has been loaded has the attributes its dictionary says, unless
\* they are being assigned.
AsSaid(c) == content[c] \in Dicts /\ \A i \in 1..2 : attribute[c][i] \in Sources(content[c], i)
Adopted(c) == (~Free /\ assigning.config = c) \/ AsSaid(c)
Loaded(c) == snapshot[c] \in Dicts /\ Adopted(c)

LoadInv ==
    /\ LoadTypes /\ Sourced /\ Assigning
    /\ \A c \in Configs : listener[c] # "none" => Loaded(c)
    /\ loader.pc = "subscribe" => Loaded(Order[loader.at])

LEMMA ConfigsInOrder == /\ Len(Order) \in Nat \ {0} /\ \A i \in 1..Len(Order) : Order[i] \in Configs
                        /\ {"server", "method"} \subseteq Configs
<1>1. Order \in Seq(STRING) /\ "server" \in Configs
  BY ReloaderAssumption, ServiceAssumption
<1> QED
  BY <1>1, ServiceAssumption DEF Configs

LEMMA LoadInit == ServiceInit => LoadInv
<1> SUFFICES ASSUME ServiceInit PROVE LoadInv
  OBVIOUS
<1>1. PICK s \in Scenarios : ReloaderInit(s.edits, s.snapshot)
  BY DEF ServiceInit
<1>2. s.edits \in 0..MaxChanges /\ s.snapshot \in [Configs -> {"none"} \cup Contents]
  BY ServiceAssumption
<1>3. changes \in 0..MaxChanges /\ 1 \in 1..Len(Order)
  BY <1>1, <1>2, ReloaderAssumption, ConfigsInOrder DEF ReloaderInit
<1>4. <<"none", "none">> \in [1..2 -> Values]
  BY DEF Values
<1>5. LoadTypes
  BY <1>1, <1>2, <1>3, <1>4, ReloaderAssumption DEF ReloaderInit, LoadTypes
<1>6. Sourced
  BY <1>1 DEF ReloaderInit, Sourced
<1> QED
  BY <1>1, <1>5, <1>6 DEF ReloaderInit, LoadInv, Assigning, Free

LEMMA AdvanceTypes ==
    ASSUME LoadTypes, Advance
    PROVE  loader' \in [pc : {"fetch", "subscribe", "running", "dead"}, at : 1..Len(Order)] /\ loader'.pc # "subscribe"
<1>1. loader.at \in 1..Len(Order) /\ Len(Order) \in Nat
  BY ConfigsInOrder DEF LoadTypes
<1>2. CASE loader.at = Len(Order)
  <2>1. loader' = [loader EXCEPT !.pc = "running"]
    BY <1>2 DEF Advance
  <2> QED
    BY <2>1 DEF LoadTypes
<1>3. CASE loader.at # Len(Order)
  <2>1. loader' = [pc |-> "fetch", at |-> loader.at + 1]
    BY <1>3 DEF Advance
  <2> QED
    BY <1>1, <1>3, <2>1
<1> QED
  BY <1>2, <1>3

\* What is left to assign, one less.
LEMMA OneLess ==
    ASSUME NEW s \in Remaining
    PROVE  /\ Head(s) \in 1..2 /\ s # <<>>
           /\ Tail(s) = <<>> \/ Tail(s) \in Remaining
           /\ Range(s) = {Head(s)} \cup Range(Tail(s))
<1>1. CASE s = <<1>>
  BY <1>1 DEF Range, Remaining
<1>2. CASE s = <<2>>
  BY <1>2 DEF Range, Remaining
<1>3. CASE s = <<1, 2>>
  BY <1>3 DEF Range, Remaining
<1>4. CASE s = <<2, 1>>
  BY <1>4 DEF Range, Remaining
<1> QED
  BY <1>1, <1>2, <1>3, <1>4 DEF Remaining

LEMMA NothingLeft == Range(<<>>) = {}
BY DEF Range

\* When a dictionary's keys are assigned, the attributes are as it says.
LEMMA Finished ==
    ASSUME LoadTypes, Sourced, NEW c \in Configs, content[c] \in Dicts,
           \A i \in Range(Given[content[c]]) : attribute[c][i] = content[c]
    PROVE  AsSaid(c)
<1>1. ASSUME NEW i \in 1..2 PROVE attribute[c][i] \in Sources(content[c], i)
  BY DEF Sourced, Sources
<1> QED
  BY <1>1 DEF AsSaid

\* Of what is left there is nothing, or it is assigned next.
LEMMA LeftOver ==
    ASSUME NEW c, NEW s, s = <<>> \/ s \in Remaining, assigning' = Left(c, s)
    PROVE  /\ s = <<>> => Free'
           /\ s # <<>> => ~Free' /\ assigning'.config = c /\ assigning'.left = s
<1>1. CASE s = <<>>
  BY <1>1 DEF Left, Free
<1>2. CASE s # <<>>
  <2>1. assigning' = [config |-> c, left |-> s]
    BY <1>2 DEF Left
  <2>2. assigning'.left # Nothing.left
    BY <1>2, <2>1 DEF Nothing
  <2> QED
    BY <1>2, <2>1, <2>2 DEF Free
<1> QED
  BY <1>1, <1>2

\* A dictionary is adopted when no other is being assigned.
LEMMA AdoptLoads ==
    ASSUME LoadTypes, Sourced, Free, NEW c \in Configs, NEW v \in Dicts, Adopt(c, v), UNCHANGED attribute
    PROVE  /\ content' \in [Configs -> {"none", "text"} \cup Dicts]
           /\ content'[c] = v /\ \A d \in Configs \ {c} : content'[d] = content[d]
           /\ Sourced' /\ Assigning' /\ Adopted(c)'
           /\ \A d \in Configs : d # c /\ Adopted(d) => Adopted(d)'
<1>1. /\ content' \in [Configs -> {"none", "text"} \cup Dicts]
      /\ content'[c] = v /\ \A d \in Configs \ {c} : content'[d] = content[d]
  BY DEF LoadTypes, Adopt
<1>2. Sourced'
  BY DEF Sourced
<1>3. ASSUME NEW d \in Configs, d # c, Adopted(d) PROVE Adopted(d)'
  <2>1. AsSaid(d) /\ content'[d] = content[d]
    BY <1>1, <1>3 DEF Adopted
  <2>2. AsSaid(d)'
    BY <2>1 DEF AsSaid, Sources
  <2> QED
    BY <2>2 DEF Adopted
<1>4. (Given[v] = <<>> \/ Given[v] \in Remaining) /\ assigning' = Left(c, Given[v])
  BY ReloaderAssumption DEF Adopt, Attributes, Remaining
<1>5. CASE Given[v] = <<>>
  <2>1. Free' /\ Range(Given[v]) = {}
    BY <1>4, <1>5, LeftOver, NothingLeft
  <2>2. ASSUME NEW i \in 1..2 PROVE attribute'[c][i] \in Sources(v, i)
    BY <1>2, <2>1 DEF Sourced, Sources
  <2>3. AsSaid(c)'
    BY <1>1, <2>2 DEF AsSaid, Sources
  <2> QED
    BY <1>1, <1>2, <1>3, <2>1, <2>3 DEF Assigning, Adopted
<1>6. CASE Given[v] # <<>>
  <2>1. ~Free' /\ assigning'.config = c /\ assigning'.left = Given[v] /\ Given[v] \in Remaining
    BY <1>4, <1>6, LeftOver
  <2>2. Assigning'
    BY <1>1, <2>1 DEF Assigning
  <2> QED
    BY <1>1, <1>2, <1>3, <2>1, <2>2 DEF Adopted
<1> QED
  BY <1>5, <1>6

LEMMA FetchLoads ==
    ASSUME LoadInv, NEW c \in Configs, Fetch(c)
    PROVE  LoadInv'
<1>1. /\ LoadTypes /\ Sourced /\ Free /\ loader.pc = "fetch" /\ Order[loader.at] = c
      /\ UNCHANGED <<fileVars, attribute, listener, digest>>
  BY DEF LoadInv, Fetch, Loads
<1> DEFINE v == snapshot'[c]
<1>2. /\ snapshot' \in [Configs -> {"none"} \cup Contents] /\ v \in Contents
      /\ \A d \in Configs \ {c} : snapshot'[d] = snapshot[d]
      /\ snapshot[c] \in Dicts => v = snapshot[c]
  <2>1. snapshot' = [snapshot EXCEPT ![c] = IF @ = "none" THEN file[c] ELSE @]
    BY DEF Fetch
  <2> QED
    BY <1>1, <2>1, ReloaderAssumption DEF LoadTypes
<1>3. listener[c] # "none" => v \in Dicts
  BY <1>1, <1>2 DEF LoadInv, Loaded
<1>4. CASE v \in Dicts
  <2>1. Adopt(c, v) /\ loader' = [loader EXCEPT !.pc = "subscribe"]
    BY <1>4, ReloaderAssumption DEF Fetch
  <2> HIDE DEF v
  <2>2. /\ content' \in [Configs -> {"none", "text"} \cup Dicts]
        /\ Sourced' /\ Assigning' /\ Adopted(c)'
        /\ \A d \in Configs : d # c /\ Adopted(d) => Adopted(d)'
    BY <1>1, <1>4, <2>1, AdoptLoads
  <2>3. loader'.pc = "subscribe" /\ loader'.at = loader.at
        /\ loader' \in [pc : {"fetch", "subscribe", "running", "dead"}, at : 1..Len(Order)]
    BY <1>1, <2>1 DEF LoadTypes
  <2>4. LoadTypes'
    BY <1>1, <1>2, <2>2, <2>3 DEF LoadTypes, fileVars
  <2>5. Loaded(c)'
    BY <1>4, <2>2 DEF Loaded, v
  <2>6. ASSUME NEW d \in Configs, d # c, listener[d] # "none" PROVE Loaded(d)'
    BY <1>1, <1>2, <2>2, <2>6 DEF LoadInv, Loaded
  <2> QED
    BY <1>1, <2>2, <2>3, <2>4, <2>5, <2>6 DEF LoadInv
<1>5. CASE v \notin Dicts
  <2>1. /\ UNCHANGED assigning
        /\ content' \in [Configs -> {"none", "text"} \cup Dicts]
        /\ \A d \in Configs \ {c} : content'[d] = content[d]
        /\ loader' \in [pc : {"fetch", "subscribe", "running", "dead"}, at : 1..Len(Order)]
        /\ loader'.pc # "subscribe"
    <3>1. CASE /\ loader' = [loader EXCEPT !.pc = "dead"]
               /\ content' = [content EXCEPT ![c] = "text"] /\ UNCHANGED assigning
      BY <1>1, <3>1 DEF LoadTypes
    <3>2. CASE Advance /\ UNCHANGED <<content, assigning>>
      BY <1>1, <3>2, AdvanceTypes DEF LoadTypes
    <3> QED
      BY <1>5, <3>1, <3>2 DEF Fetch
  <2>2. listener[c] = "none"
    BY <1>1, <1>3, <1>5 DEF LoadTypes
  <2>3. LoadTypes' /\ Sourced' /\ Assigning'
    BY <1>1, <1>2, <2>1 DEF LoadTypes, Sourced, Assigning, fileVars, Free
  <2>4. ASSUME NEW d \in Configs, listener[d] # "none" PROVE Loaded(d)'
    <3>1. d # c /\ snapshot[d] \in Dicts /\ AsSaid(d)
      BY <1>1, <2>2, <2>4 DEF LoadInv, Loaded, Adopted
    <3>2. AsSaid(d)'
      BY <1>1, <2>1, <3>1 DEF AsSaid, Sources
    <3> QED
      BY <1>2, <3>1, <3>2 DEF Loaded, Adopted
  <2> QED
    BY <1>1, <2>1, <2>3, <2>4 DEF LoadInv
<1> QED
  BY <1>4, <1>5

LEMMA AssignLoads ==
    ASSUME LoadInv, Assign
    PROVE  LoadInv' /\ \A d \in Configs : d # assigning.config => attribute'[d] = attribute[d]
<1>0. PICK c \in Configs, v \in Dicts : c = assigning.config /\ v = content[c]
  BY DEF LoadInv, Assigning, Assign
<1> DEFINE s == assigning.left
           i == Head(s)
<1>1. /\ LoadTypes /\ Sourced /\ ~Free /\ s \in Remaining /\ Range(s) \subseteq Range(Given[v])
      /\ \A j \in Range(Given[v]) : j \in Range(s) \/ attribute[c][j] = v
      /\ UNCHANGED <<fileVars, snapshot, content, listener, digest, loader>>
      /\ attribute' = [attribute EXCEPT ![c][i] = v] /\ assigning' = Left(c, Tail(s))
  BY <1>0 DEF LoadInv, Assigning, Assign
<1>2. /\ attribute[c] \in [1..2 -> Values] /\ \A d \in Configs \ {c} : attribute'[d] = attribute[d]
      /\ DOMAIN attribute = Configs /\ v \in Values
  BY <1>1 DEF LoadTypes, Values
<1>3. /\ i \in 1..2 /\ s # <<>> /\ (Tail(s) = <<>> \/ Tail(s) \in Remaining)
      /\ Range(s) = {i} \cup Range(Tail(s))
  BY <1>1, OneLess
<1> HIDE DEF i, s
<1>4. /\ attribute'[c] \in [1..2 -> Values] /\ attribute'[c][i] = v
      /\ \A j \in 1..2 \ {i} : attribute'[c][j] = attribute[c][j]
      /\ attribute' \in [Configs -> [1..2 -> Values]]
  <2>1. attribute'[c] = [attribute[c] EXCEPT ![i] = v]
    BY <1>1, <1>2
  <2>2. attribute'[c] \in [1..2 -> Values]
    BY <1>2, <1>3, <2>1
  <2>3. attribute' = [attribute EXCEPT ![c] = attribute'[c]]
    BY <1>1, <1>2, <2>1
  <2>4. attribute' \in [Configs -> [1..2 -> Values]]
    BY <1>1, <2>2, <2>3 DEF LoadTypes
  <2> QED
    BY <1>2, <1>3, <2>1, <2>2, <2>4
<1>5. LoadTypes'
  BY <1>1, <1>4 DEF LoadTypes, fileVars
<1>6. Sourced'
  <2>1. i \in Range(Given[v])
    BY <1>1, <1>3
  <2>2. ASSUME NEW j \in 1..2
        PROVE  attribute'[c][j] = "none" \/ (attribute'[c][j] \in Dicts /\ j \in Range(Given[attribute'[c][j]]))
    BY <1>1, <1>4, <2>1 DEF Sourced
  <2> QED
    BY <1>1, <1>2, <2>2 DEF Sourced
<1>7. Given[v] \in {<<>>} \cup Remaining /\ Range(Given[v]) \subseteq 1..2
  <2>1. Given[v] \in {<<>>} \cup Remaining
    BY ReloaderAssumption DEF Remaining
  <2>2. ASSUME NEW r \in Remaining PROVE Range(r) \subseteq 1..2
    BY DEF Remaining, Range
  <2> QED
    BY <2>1, <2>2, NothingLeft
<1>8. \A j \in Range(Given[v]) : j \in Range(Tail(s)) \/ attribute'[c][j] = v
  BY <1>1, <1>3, <1>4, <1>7
<1>9. Assigning' /\ Adopted(c)'
  <2>1. CASE Tail(s) = <<>>
    <3>1. \A j \in Range(Given[content'[c]]) : attribute'[c][j] = content'[c]
      BY <1>0, <1>1, <1>8, <2>1, NothingLeft
    <3>2. content'[c] \in Dicts
      BY <1>0, <1>1
    <3>3. ASSUME NEW j \in 1..2 PROVE attribute'[c][j] \in Sources(content'[c], j)
      BY <1>6, <3>1 DEF Sourced, Sources
    <3>4. AsSaid(c)'
      BY <3>2, <3>3 DEF AsSaid, Sources
    <3>5. Free'
      BY <1>1, <1>3, <2>1, LeftOver
    <3> QED
      BY <3>4, <3>5 DEF Assigning, Adopted
  <2>2. CASE Tail(s) # <<>>
    <3>1. ~Free' /\ assigning'.config = c /\ assigning'.left = Tail(s) /\ Tail(s) \in Remaining
      BY <1>1, <1>3, <2>2, LeftOver
    <3>2. Assigning'
      BY <1>0, <1>1, <1>3, <1>8, <3>1 DEF Assigning
    <3> QED
      BY <3>1, <3>2 DEF Adopted
  <2> QED
    BY <2>1, <2>2
<1>10. ASSUME NEW d \in Configs, Loaded(d) PROVE Loaded(d)'
  <2>1. CASE d = c
    BY <1>1, <1>9, <1>10, <2>1 DEF Loaded
  <2>2. CASE d # c
    <3>1. AsSaid(d) /\ content'[d] = content[d] /\ attribute'[d] = attribute[d]
      BY <1>0, <1>1, <1>2, <1>10, <2>2 DEF Loaded, Adopted
    <3>2. AsSaid(d)'
      BY <3>1 DEF AsSaid, Sources
    <3> QED
      BY <1>1, <1>10, <3>2 DEF Loaded, Adopted
  <2> QED
    BY <2>1, <2>2
<1>11. LoadInv'
  <2>1. Order[loader.at] \in Configs
    BY <1>1, ConfigsInOrder DEF LoadTypes
  <2>2. loader'.pc = "subscribe" => Loaded(Order[loader.at])'
    BY <1>1, <1>10, <2>1 DEF LoadInv
  <2>3. \A d \in Configs : listener'[d] # "none" => Loaded(d)'
    BY <1>1, <1>10 DEF LoadInv
  <2> QED
    BY <1>1, <1>5, <1>6, <1>9, <2>2, <2>3 DEF LoadInv
<1> QED
  BY <1>0, <1>2, <1>11

\* A step of the loop that adopts nothing keeps what is loaded.
LEMMA StillLoaded ==
    ASSUME LoadInv, UNCHANGED <<content, assigning>>, NEW d \in Configs,
           snapshot'[d] = snapshot[d], attribute'[d] = attribute[d], Loaded(d)
    PROVE  Loaded(d)'
BY DEF Loaded, Adopted, AsSaid, Sources, Free

LEMMA SubscribeLoads ==
    ASSUME LoadInv, NEW c \in Configs, Subscribe(c)
    PROVE  LoadInv'
<1>1. /\ loader.pc = "subscribe" /\ Order[loader.at] = c /\ Free /\ Advance
      /\ listener' = [listener EXCEPT ![c] = "polling"]
      /\ UNCHANGED <<fileVars, snapshot, content, attribute, digest, assigning>>
  BY DEF Subscribe, Loads
<1>2. Loaded(c)
  BY <1>1 DEF LoadInv
<1>3. LoadTypes' /\ loader'.pc # "subscribe"
  BY <1>1, AdvanceTypes DEF LoadInv, LoadTypes, fileVars
<1>4. Sourced' /\ Assigning'
  BY <1>1 DEF LoadInv, Sourced, Assigning, Free
<1>5. ASSUME NEW d \in Configs, listener'[d] # "none" PROVE Loaded(d)'
  <2>1. Loaded(d)
    BY <1>1, <1>2, <1>5 DEF LoadInv, LoadTypes
  <2> QED
    BY <1>1, <2>1, StillLoaded
<1> QED
  BY <1>3, <1>4, <1>5 DEF LoadInv

LEMMA PollLoads ==
    ASSUME LoadInv, NEW c \in Configs, Poll(c)
    PROVE  LoadInv'
<1>1. /\ listener[c] = "polling" /\ Free /\ LoadTypes /\ Sourced
      /\ UNCHANGED <<fileVars, snapshot, attribute, listener, loader>>
      /\ digest' = [digest EXCEPT ![c] = file[c]] /\ file[c] \in Contents
  BY DEF Poll, LoadInv, LoadTypes
<1>2. digest' \in [Configs -> {"none"} \cup Contents]
  BY <1>1 DEF LoadTypes
<1>3. Loaded(c) /\ Order[loader.at] \in Configs
  BY <1>1, ConfigsInOrder DEF LoadInv, LoadTypes
<1>4. CASE Reloads(c)
  <2> DEFINE v == file[c]
  <2>1. v \in Dicts /\ Adopt(c, v)
    BY <1>4 DEF Poll, Reloads
  <2> HIDE DEF v
  <2>2. /\ content' \in [Configs -> {"none", "text"} \cup Dicts]
        /\ Sourced' /\ Assigning' /\ Adopted(c)'
        /\ \A d \in Configs : d # c /\ Adopted(d) => Adopted(d)'
    BY <1>1, <2>1, AdoptLoads
  <2>3. LoadTypes'
    BY <1>1, <1>2, <2>2 DEF LoadTypes, fileVars
  <2>4. \A d \in Configs : Loaded(d) => Loaded(d)'
    BY <1>1, <2>2 DEF Loaded
  <2>5. loader'.pc = "subscribe" => Loaded(Order[loader.at])'
    BY <1>1, <1>3, <2>4 DEF LoadInv
  <2>6. \A d \in Configs : listener'[d] # "none" => Loaded(d)'
    BY <1>1, <2>4 DEF LoadInv
  <2> QED
    BY <1>1, <2>2, <2>3, <2>5, <2>6 DEF LoadInv
<1>5. CASE ~Reloads(c)
  <2>1. UNCHANGED <<content, assigning>>
    BY <1>5 DEF Poll
  <2>2. LoadTypes' /\ Sourced' /\ Assigning'
    BY <1>1, <1>2, <2>1 DEF LoadTypes, Sourced, Assigning, fileVars, Free
  <2>3. \A d \in Configs : Loaded(d) => Loaded(d)'
    BY <1>1, <2>1, StillLoaded
  <2>4. loader'.pc = "subscribe" => Loaded(Order[loader.at])'
    BY <1>1, <1>3, <2>3 DEF LoadInv
  <2>5. \A d \in Configs : listener'[d] # "none" => Loaded(d)'
    BY <1>1, <2>3 DEF LoadInv
  <2> QED
    BY <1>1, <2>2, <2>4, <2>5 DEF LoadInv
<1> QED
  BY <1>4, <1>5

\* The file is edited, a listener or the loading ends, or nothing happens to the
\* configurations.
LEMMA OutsideLoads ==
    ASSUME LoadInv, LoadTypes', UNCHANGED <<snapshot, content, attribute, assigning>>,
           loader' = loader \/ loader'.pc = "dead",
           \A d \in Configs : listener'[d] # "none" => listener[d] # "none"
    PROVE  LoadInv'
<1>1. Sourced' /\ Assigning'
  BY DEF LoadInv, Sourced, Assigning, Free
<1>2. Order[loader.at] \in Configs
  BY ConfigsInOrder DEF LoadInv, LoadTypes
<1>3. \A d \in Configs : Loaded(d) => Loaded(d)'
  BY StillLoaded
<1>4. loader'.pc = "subscribe" => Loaded(Order[loader.at])'
  BY <1>2, <1>3 DEF LoadInv
<1>5. \A d \in Configs : listener'[d] # "none" => Loaded(d)'
  BY <1>3 DEF LoadInv
<1> QED
  BY <1>1, <1>4, <1>5 DEF LoadInv

LEMMA ReloaderLoads == ASSUME LoadInv, ReloaderNext PROVE LoadInv'
<1>1. CASE Assign
  BY <1>1, AssignLoads
<1>2. ASSUME NEW c \in Configs, Fetch(c) \/ Subscribe(c) \/ Poll(c) PROVE LoadInv'
  BY <1>2, FetchLoads, SubscribeLoads, PollLoads
<1>3. ASSUME NEW c \in Configs, Edit(c) PROVE LoadInv'
  <2>1. changes' \in 0..MaxChanges /\ file' \in [Configs -> Contents]
    BY <1>3, ReloaderAssumption DEF Edit, LoadInv, LoadTypes
  <2>2. LoadTypes' /\ UNCHANGED <<snapshot, content, attribute, listener, loader, assigning>>
    BY <1>3, <2>1 DEF Edit, LoadInv, LoadTypes, loopVars
  <2> QED
    BY <2>2, OutsideLoads
<1>4. ASSUME NEW c \in Configs, PollFails(c) PROVE LoadInv'
  <2>1. changes' \in 0..MaxChanges
    BY <1>4, ReloaderAssumption DEF PollFails, LoadInv, LoadTypes
  <2>2. LoadTypes' /\ UNCHANGED <<snapshot, content, attribute, loader, assigning>>
        /\ \A d \in Configs : listener'[d] # "none" => listener[d] # "none"
    BY <1>4, <2>1 DEF PollFails, LoadInv, LoadTypes
  <2> QED
    BY <2>2, OutsideLoads
<1>5. ASSUME NEW c \in Configs, ClientRaises(c) PROVE LoadInv'
  <2>1. /\ LoadTypes' /\ UNCHANGED <<snapshot, content, attribute, listener, assigning>>
        /\ loader'.pc = "dead"
    BY <1>5 DEF ClientRaises, LoadInv, LoadTypes, fileVars
  <2> QED
    BY <2>1, OutsideLoads
<1> QED
  BY <1>1, <1>2, <1>3, <1>4, <1>5 DEF ReloaderNext, Loop

LEMMA LoadKept == ASSUME LoadInv, UNCHANGED reloaderVars PROVE LoadInv'
<1>1. LoadTypes' /\ UNCHANGED <<snapshot, content, attribute, listener, loader, assigning>>
  BY DEF LoadInv, LoadTypes, reloaderVars, fileVars, loopVars
<1> QED
  BY <1>1, OutsideLoads

LEMMA LoadNext == LoadInv /\ [ServiceNext]_serviceVars => LoadInv'
<1> SUFFICES ASSUME LoadInv, [ServiceNext]_serviceVars PROVE LoadInv'
  OBVIOUS
<1>1. CASE Reloading
  BY <1>1, ReloaderLoads DEF Reloading
<1>2. ASSUME ~Reloading PROVE UNCHANGED reloaderVars
  BY <1>2 DEF ServiceNext, serviceVars, Booting, Wait, Decorate, ReadHost, ReadCenter, Building, Wrapper,
     Arrive, Limit, Lookup, Execute, Store, Expire, NextWindow
<1> QED
  BY <1>1, <1>2, LoadKept

(***************************************************************************)
(* The start of the service                                                *)
(***************************************************************************)

BootTypes ==
    /\ boot \in {"absent", "load", "decorate", "host", "center", "started"}
    /\ settings \in {"none", "text"} \cup Dicts /\ said \in {"none", "text"} \cup Dicts
    /\ served \in [1..2 -> Values]
    /\ early \in BOOLEAN /\ torn \in BOOLEAN

\* The service waited for its configuration, and it was not reloaded while it was read.
Whole == ~early /\ ~torn /\ listener["server"] # "none"

Idle == boot # "started" => at[Lawgenesis] \in {"new", "absent"}
Waited == boot \notin {"absent", "load"} /\ ~early => loader.pc \in {"running", "dead"}
HostRead ==
    boot = "center" /\ Whole =>
        /\ assigning.config # "server"
        /\ said \in Dicts
        /\ served[1] \in Sources(said, 1) /\ attribute["server"][2] \in Sources(said, 2)

\* What a service is built of that has host h and port, and registry r.
ServicePlan(h, r) == Plan(TRUE, CenterOf[r], NoApplication, NewService(HostOf[h], PortOf[h], Name))
CenterRead ==
    boot = "started" /\ Whole =>
        /\ said \in Dicts
        /\ \E h \in Sources(said, 1), r \in Sources(said, 2) : plan[Lawgenesis] = ServicePlan(h, r)

BootInv == BootTypes /\ Idle /\ Waited /\ HostRead /\ CenterRead

LEMMA BootInit == ServiceInit => BootInv
<1> SUFFICES ASSUME ServiceInit PROVE BootInv
  OBVIOUS
<1>1. PICK s \in Scenarios : FacadeInit(s.facades)
  BY DEF ServiceInit
<1>2. at[Lawgenesis] \in {"new", "absent"}
  BY <1>1, ServiceAssumption DEF FacadeInit, Facades
<1>3. boot \in {"absent", "load"} /\ served = <<"none", "none">> /\ settings = "none" /\ said = "none" /\ early = FALSE /\ torn = FALSE
  BY DEF ServiceInit
<1>4. BootTypes
  <2>1. <<"none", "none">> \in [1..2 -> Values]
    BY DEF Values
  <2> QED
    BY <1>3, <2>1 DEF BootTypes
<1> QED
  BY <1>2, <1>3, <1>4 DEF BootInv, Idle, Waited, HostRead, CenterRead

LEMMA ReloadingBoots ==
    ASSUME LoadInv, BootInv, Reloading
    PROVE  BootInv'
<1>1. /\ UNCHANGED <<facadeVars, boot, served, settings, said, early>>
      /\ torn' = (torn \/ (boot = "center" /\ assigning'.config = "server"))
  BY DEF Reloading
<1>2. BootTypes' /\ Idle'
  BY <1>1 DEF BootInv, BootTypes, Idle, facadeVars
<1>3. ASSUME boot # "load", ~early
      PROVE  /\ UNCHANGED loader /\ \A d \in Configs : listener'[d] # "none" => listener[d] # "none"
             /\ \A d \in Configs : d # assigning.config => attribute'[d] = attribute[d]
  <2>0. boot # "absent"
    BY DEF Reloading
  <2>1. loader.pc \notin {"fetch", "subscribe"}
    BY <1>3, <2>0 DEF BootInv, Waited
  <2>2. ReloaderNext /\ \A c \in Configs : ~Fetch(c) /\ ~ClientRaises(c) /\ ~Subscribe(c)
    BY <2>1 DEF Reloading, Fetch, ClientRaises, Subscribe, Loads
  <2>3. CASE Assign
    BY <2>3, AssignLoads DEF Assign
  <2>4. CASE \E c \in Configs : Edit(c) \/ PollFails(c) \/ Poll(c)
    BY <2>4 DEF Edit, PollFails, Poll, loopVars, LoadInv, LoadTypes
  <2> QED
    BY <2>2, <2>3, <2>4 DEF ReloaderNext, Loop
<1>4. "server" \in Configs
  BY ConfigsInOrder
<1>5. Waited'
  BY <1>1, <1>3 DEF BootInv, Waited
<1>6. ASSUME boot # "load", Whole' PROVE Whole
  BY <1>1, <1>3, <1>4, <1>6 DEF Whole, BootInv, BootTypes
<1>7. HostRead'
  <2> SUFFICES ASSUME boot' = "center", Whole'
               PROVE  /\ assigning'.config # "server"
                      /\ said' \in Dicts
                      /\ served'[1] \in Sources(said', 1) /\ attribute'["server"][2] \in Sources(said', 2)
    BY DEF HostRead, Sources
  <2>1. boot = "center" /\ Whole
    BY <1>1, <1>6
  <2>2. assigning'.config # "server"
    BY <1>1, <2>1 DEF Whole
  <2>3. attribute'["server"] = attribute["server"]
    BY <1>3, <1>4, <2>1 DEF Whole, BootInv, HostRead
  <2> QED
    BY <1>1, <2>1, <2>2, <2>3 DEF BootInv, HostRead
<1>8. CenterRead'
  <2> SUFFICES ASSUME boot' = "started", Whole'
               PROVE  /\ said' \in Dicts
                      /\ \E h \in Sources(said', 1), r \in Sources(said', 2) :
                             plan'[Lawgenesis] = ServicePlan(h, r)
    BY DEF CenterRead, Sources, ServicePlan
  <2> QED
    BY <1>1, <1>6 DEF BootInv, CenterRead, facadeVars
<1> QED
  BY <1>2, <1>5, <1>7, <1>8 DEF BootInv

LEMMA BootingBoots ==
    ASSUME LoadInv, FacadeTypes, BootInv, Booting
    PROVE  BootInv'
<1> USE DEF Boot
<1>1. BootTypes' /\ Idle'
  <2>1. /\ served' \in [1..2 -> Values]
        /\ settings' \in {"none", "text"} \cup Dicts /\ said' \in {"none", "text"} \cup Dicts
    <3>1. /\ attribute["server"][1] \in Values /\ attribute["server"][2] \in Values
          /\ content["method"] \in {"none", "text"} \cup Dicts
          /\ content["server"] \in {"none", "text"} \cup Dicts
      BY ConfigsInOrder DEF LoadInv, LoadTypes
    <3> QED
      BY <3>1 DEF BootInv, BootTypes, Booting, Wait, Decorate, ReadHost, ReadCenter
  <2>2. boot' \in {"decorate", "host", "center", "started"} /\ early' \in BOOLEAN /\ torn' \in BOOLEAN
    BY DEF BootInv, BootTypes, Booting, Wait, Decorate, ReadHost, ReadCenter
  <2>3. UNCHANGED at /\ boot # "started"
    BY DEF Booting, Wait, Decorate, ReadHost, ReadCenter, facadeVars
  <2> QED
    BY <2>1, <2>2, <2>3 DEF BootInv, BootTypes, Idle
<1>2. UNCHANGED <<loader, listener, attribute, assigning>>
  BY DEF Booting, Wait, Decorate, ReadHost, ReadCenter, reloaderVars, loopVars
<1>3. CASE Wait
  BY <1>1, <1>2, <1>3 DEF Wait, BootInv, Waited, HostRead, CenterRead
<1>4. CASE Decorate
  BY <1>1, <1>2, <1>4 DEF Decorate, BootInv, Waited, HostRead, CenterRead
<1>5. CASE ReadHost
  <2>1. boot = "host" /\ boot' = "center" /\ UNCHANGED early /\ torn' = (assigning.config = "server")
        /\ served' = [served EXCEPT ![1] = attribute["server"][1]] /\ said' = content["server"]
    BY <1>5 DEF ReadHost
  <2>2. ASSUME Whole'
        PROVE  /\ assigning.config # "server"
               /\ said' \in Dicts
               /\ served'[1] \in Sources(said', 1) /\ attribute["server"][2] \in Sources(said', 2)
    <3>1. listener["server"] # "none" /\ assigning.config # "server"
      BY <1>2, <2>1, <2>2 DEF Whole
    <3>2. AsSaid("server")
      BY <3>1, ConfigsInOrder DEF LoadInv, Loaded, Adopted
    <3>3. served'[1] = attribute["server"][1]
      BY <2>1 DEF BootInv, BootTypes
    <3> QED
      BY <2>1, <3>1, <3>2, <3>3 DEF AsSaid
  <2>3. HostRead'
    BY <1>2, <2>2 DEF HostRead, Sources
  <2> QED
    BY <1>1, <1>2, <2>1, <2>3 DEF BootInv, Waited, CenterRead
<1>6. CASE ReadCenter
  <2> DEFINE r == attribute["server"][2]
             p == ServicePlan(served[1], r)
  <2>1. boot = "center" /\ boot' = "started" /\ UNCHANGED <<said, early, torn>>
        /\ plan' = [plan EXCEPT ![Lawgenesis] = p]
    BY <1>6 DEF ReadCenter, ServicePlan
  <2>2. plan'[Lawgenesis] = p
    <3> HIDE DEF p
    <3> QED
      BY <2>1, ServiceAssumption DEF FacadeTypes, Facades
  <2>3. Whole' => said \in Dicts /\ served[1] \in Sources(said, 1) /\ r \in Sources(said, 2)
    BY <1>2, <2>1 DEF Whole, BootInv, HostRead
  <2>4. CenterRead'
    <3> SUFFICES ASSUME Whole'
                 PROVE  /\ said' \in Dicts
                        /\ \E h \in Sources(said', 1), q \in Sources(said', 2) :
                               plan'[Lawgenesis] = ServicePlan(h, q)
      BY DEF CenterRead, Sources, ServicePlan
    <3> QED
      BY <2>1, <2>2, <2>3
  <2> QED
    BY <1>1, <1>2, <2>1, <2>4 DEF BootInv, Waited, HostRead
<1> QED
  BY <1>3, <1>4, <1>5, <1>6 DEF Booting

\* The other steps leave what the service has read, and the plan of its server.
LEMMA ReadKept ==
    ASSUME BootInv, Idle', UNCHANGED <<reloaderVars, bootVars, plan>>
    PROVE  BootInv'
<1>1. UNCHANGED <<loader, listener, attribute, assigning, boot, served, settings, said, early, torn>>
  BY DEF reloaderVars, loopVars, bootVars
<1>2. BootTypes' /\ Waited'
  BY <1>1 DEF BootInv, BootTypes, Waited
<1>3. HostRead'
  BY <1>1 DEF BootInv, HostRead, Whole, Sources
<1>4. CenterRead'
  BY <1>1 DEF BootInv, CenterRead, Whole, Sources, ServicePlan
<1> QED
  BY <1>2, <1>3, <1>4 DEF BootInv

LEMMA BuildingBoots ==
    ASSUME FacadeTypes, BootInv, NEW f \in Facades, Building(f)
    PROVE  BootInv'
<1>1. UNCHANGED <<reloaderVars, bootVars, plan>>
  BY FacadingFrame DEF Building
<1>2. Idle'
  <2>1. f # Lawgenesis => at'[Lawgenesis] = at[Lawgenesis]
    BY FacadingFrame, ServiceAssumption DEF Building, Facades, Same
  <2> QED
    BY <1>1, <2>1 DEF Building, BootInv, Idle, bootVars
<1> QED
  BY <1>1, <1>2, ReadKept

LEMMA BootKept == ASSUME BootInv, UNCHANGED <<reloaderVars, facadeVars, bootVars>> PROVE BootInv'
<1>1. Idle' /\ UNCHANGED plan
  BY DEF BootInv, Idle, facadeVars, bootVars
<1> QED
  BY <1>1, ReadKept

\* The service's plan is made before its facade is built.
LEMMA BootingBuilds ==
    ASSUME FacadeInv, BootInv, Booting
    PROVE  FacadeInv'
<1>1. CASE UNCHANGED facadeVars
  BY <1>1, PlanKeeps DEF facadeVars
<1>2. CASE ReadCenter
  <2>1. at[Lawgenesis] \in {"absent", "new"} /\ Lawgenesis \in Facades
    BY <1>2, ServiceAssumption DEF ReadCenter, Boot, BootInv, Idle, Facades
  <2> DEFINE p == ServicePlan(served[1], attribute["server"][2])
  <2>2. plan' = [plan EXCEPT ![Lawgenesis] = p]
    BY <1>2 DEF ReadCenter, ServicePlan
  <2> HIDE DEF p
  <2>3. plan' = [plan EXCEPT ![Lawgenesis] = plan'[Lawgenesis]]
    BY <2>1, <2>2 DEF FacadeInv, FacadeTypes
  <2>4. UNCHANGED <<dubboVars, at, read, value, useVars, disturbed>>
    BY <1>2 DEF ReadCenter
  <2> QED
    BY <2>1, <2>3, <2>4, PlanKeeps
<1> QED
  BY <1>1, <1>2 DEF Booting, Wait, Decorate, ReadHost

ServiceInv == LoadInv /\ FacadeInv /\ BootInv

LEMMA ServiceInvInit == ServiceInit => ServiceInv
<1> SUFFICES ASSUME ServiceInit PROVE ServiceInv
  OBVIOUS
<1>1. PICK s \in Scenarios : FacadeInit(s.facades)
  BY DEF ServiceInit
<1> QED
  BY <1>1, LoadInit, FacadeInvInit, BootInit DEF ServiceInv

LEMMA ServiceInvNext == ServiceInv /\ [ServiceNext]_serviceVars => ServiceInv'
<1> SUFFICES ASSUME ServiceInv, [ServiceNext]_serviceVars PROVE ServiceInv'
  OBVIOUS
<1>1. LoadInv'
  BY LoadNext DEF ServiceInv
<1>2. ASSUME UNCHANGED facadeVars PROVE FacadeInv'
  BY <1>2, FacadeInvNext DEF ServiceInv
<1>3. CASE Reloading
  BY <1>1, <1>2, <1>3, ReloadingBoots DEF Reloading, ServiceInv
<1>4. CASE Booting
  <2>1. FacadeTypes
    BY DEF ServiceInv, FacadeInv
  <2> QED
    BY <1>1, <1>4, <2>1, BootingBoots, BootingBuilds DEF ServiceInv
<1>5. ASSUME NEW f \in Facades, Building(f) PROVE ServiceInv'
  <2>1. FacadeTypes /\ FacadeInv'
    BY <1>5, FacadingKeeps DEF Building, ServiceInv, FacadeInv
  <2> QED
    BY <1>1, <1>5, <2>1, BuildingBoots DEF ServiceInv
<1>6. CASE UNCHANGED <<reloaderVars, facadeVars, bootVars>>
  BY <1>1, <1>2, <1>6, BootKept DEF ServiceInv
<1>7. ASSUME NEW c \in Calls, Wrapper(c) PROVE UNCHANGED <<reloaderVars, facadeVars, bootVars>>
  BY <1>7 DEF Wrapper, Arrive, Limit, Lookup, Execute, Store
<1> QED
  BY <1>3, <1>4, <1>5, <1>6, <1>7 DEF ServiceNext, Expire, NextWindow, serviceVars

\* A server that is exported listens where the service that its plan names says, and
\* has its registry from there.
LEMMA ServedAsRead ==
    ASSUME FacadeInv, NEW h, NEW r, at[Lawgenesis] = "exported", ~disturbed[Lawgenesis],
           plan[Lawgenesis] = ServicePlan(h, r)
    PROVE  \E b \in bound : b[1] = Lawgenesis /\ Listens(b, h) /\ RegisteredAs(b, r)
<1> DEFINE f == Lawgenesis
           s == NewService(HostOf[h], PortOf[h], Name)
           b == <<f, Location(OwnUrl(f))>>
<1>1. /\ plan[f].constructs /\ plan[f].registry = CenterOf[r] /\ plan[f].service = s
      /\ f \in Servers /\ f \in Facades /\ f \notin Clients
  BY ServiceAssumption, FacadeAssumption DEF ServicePlan, Plan, Facades
<1>2. /\ HostOf[h] # Blank => s.host = HostOf[h]
      /\ PortOf[h] # NoPort => s.port = PortOf[h]
      /\ s.name = Name
  BY DEF NewService
<1>3. Location(OwnUrl(f)) = <<s.host, s.port>>
  <2>1. OwnUrl(f) = ServiceUrl(s)
    BY <1>1 DEF OwnUrl
  <2> HIDE DEF s
  <2> QED
    BY <2>1 DEF ServiceUrl, NewUrl, Location
<1>4. AsConfigured(f) /\ at[f] = "exported"
  BY <1>1 DEF FacadeInv, BuildInv, Undisturbed, Built
<1>5. <<f, Location(ExportUrl(f))>> \in bound
  BY <1>1, <1>4 DEF FacadeInv, ExportInv, Listening
<1> HIDE DEF f, s
<1>6. Location(ExportUrl(f)) = Location(OwnUrl(f))
  BY <1>4 DEF AsConfigured, ExportUrl
<1>7. b \in bound /\ b[1] = f /\ b[2] = Location(OwnUrl(f)) /\ b[2][1] = s.host /\ b[2][2] = s.port
  BY <1>3, <1>5, <1>6
<1>8. CASE CenterOf[r] = NoRegistry
  <2>1. protocol[f] = "tri"
    BY <1>1, <1>4, <1>8 DEF AsConfigured
  <2> QED
    BY <1>2, <1>7, <1>8, <2>1 DEF Listens, RegisteredAs, f
<1>9. CASE CenterOf[r] # NoRegistry
  <2>1. protocol[f] = "registry" /\ Location(target[f]) = Location(CenterOf[r])
    BY <1>1, <1>4, <1>9 DEF AsConfigured, IsOf
  <2>2. Entry(f) \in names
    BY <1>1, <1>4, <2>1 DEF FacadeInv, ExportInv, Entered
  <2>3. /\ Entry(f).registry = Location(target[f]) /\ Entry(f).service = plan[f].service.name
        /\ Location(Entry(f).text) = Location(OwnUrl(f))
    BY <1>1, EntryReads
  <2>4. RegisteredAs(b, r)
    BY <1>1, <1>2, <1>7, <1>9, <2>1, <2>2, <2>3 DEF RegisteredAs
  <2> HIDE DEF b
  <2> QED
    BY <1>2, <1>7, <2>4 DEF Listens, f
<1> QED
  BY <1>8, <1>9

LEMMA Serves == ASSUME ServiceInv PROVE ServedAsConfigured
<1> SUFFICES ASSUME at[Lawgenesis] = "exported", ~early, ~torn, ~disturbed[Lawgenesis],
                    listener["server"] # "none"
             PROVE  /\ said \in Dicts
                    /\ \E b \in bound, h \in Sources(said, 1), r \in Sources(said, 2) :
                          b[1] = Lawgenesis /\ Listens(b, h) /\ RegisteredAs(b, r)
  BY DEF ServedAsConfigured
<1>1. said \in Dicts /\ \E h \in Sources(said, 1), r \in Sources(said, 2) : plan[Lawgenesis] = ServicePlan(h, r)
  BY DEF ServiceInv, BootInv, Idle, CenterRead, Whole
<1>2. PICK h \in Sources(said, 1), r \in Sources(said, 2) : plan[Lawgenesis] = ServicePlan(h, r)
  BY <1>1
<1>3. PICK b \in bound : b[1] = Lawgenesis /\ Listens(b, h) /\ RegisteredAs(b, r)
  BY <1>2, ServedAsRead DEF ServiceInv
<1> QED
  BY <1>1, <1>2, <1>3

----------------------------------------------------------------------------
(* The theorems of the facades and of the service *)

LEMMA FacadeSpecInv == FacadeSpec => []FacadeInv
<1>1. FacadeInit(Facades) => FacadeInv
  BY FacadeInvInit
<1> QED
  BY <1>1, FacadeInvNext, PTL DEF FacadeSpec

\* Whatever the threads of the process do to Dubbo, a facade that goes through a
\* registry uses one configuration some thread gave, of a version some thread gave; and
\* its own, when no other thread assigned to Dubbo or to that configuration while it was
\* built: for any number of clients and servers, whatever they are given (bootstrap.py
\* 50-100, client.py 56-83, server.py 47-72).
THEOREM BuiltAsConfiguredCorrect == FacadeSpec => []BuiltAsConfigured
BY FacadeSpecInv, FacadesBuilt, PTL

\* Whatever the threads of the process do to Dubbo, a server that is exported through a
\* registry is registered there under the address its socket listens on, and one socket
\* listens on an address (protocol.py 41-67 of the registry, aio_transporter.py 213-254).
THEOREM ExportedIsReachableCorrect == FacadeSpec => []ExportedIsReachable
BY FacadeSpecInv, ExportedReaches, PTL

\* A client that was given a server's registry, group and service finds the server's
\* socket among the providers (client.py 71-81, zk_registry.py 69-71 and 127-181).
THEOREM ClientFindsServerCorrect == FacadeSpec => []ClientFindsServer
BY FacadeSpecInv, ClientsFind, PTL

\* The three hold of the facades of a process that runs a Lawgenesis service, whose
\* server is built of what its configuration says by then (lawgenesis_server.py
\* 185-204).
THEOREM ServiceFacadesCorrect ==
    ServiceSpec => [](BuiltAsConfigured /\ ExportedIsReachable /\ ClientFindsServer)
<1>1. ServiceInv => BuiltAsConfigured /\ ExportedIsReachable /\ ClientFindsServer
  BY FacadesBuilt, ExportedReaches, ClientsFind DEF ServiceInv
<1> QED
  BY <1>1, ServiceInvInit, ServiceInvNext, PTL DEF ServiceSpec

\* The service listens, and is registered, as the configuration it found says in all it
\* has keys for, and as an earlier version said in the rest: for any configurations,
\* keys, files and edits, unless it did not wait for its configuration, it was reloaded
\* while it was read or could not be loaded, or another thread assigned to Dubbo
\* (lawgenesis_server.py 96-101, 185-204, lawgenes_config.py 105-120).
THEOREM ServedAsConfiguredCorrect == ServiceSpec => []ServedAsConfigured
BY ServiceInvInit, ServiceInvNext, Serves, PTL DEF ServiceSpec

\* Every reachable state of the configurations, the facades, the service's start and its
\* calls is well typed (lawgenes_config.py, bootstrap.py, lawgenesis_server.py).
THEOREM ServiceTypesCorrect == ServiceSpec => []ServiceTypes
<1>1. ServiceInv /\ CallInv => ServiceTypes
  <2> SUFFICES ASSUME ServiceInv, CallInv PROVE ServiceTypes
    OBVIOUS
  <2>1. ReloaderTypeOK
    <3>1. assigning.config \in {"none"} \cup Configs
      BY DEF ServiceInv, LoadInv, Assigning, Free, Nothing
    <3> QED
      BY <3>1 DEF ServiceInv, LoadInv, LoadTypes, ReloaderTypeOK, Values
  <2> QED
    BY <2>1 DEF ServiceInv, FacadeInv, FacadeTypes, BootInv, BootTypes, CallInv, CallTypes, PCs, Replies, ServiceTypes, Values
<1> QED
  BY <1>1, ServiceInvInit, ServiceInvNext, CallInit, CallNext, PTL DEF ServiceSpec
=============================================================================
