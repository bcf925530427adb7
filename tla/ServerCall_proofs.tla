-------------------------- MODULE ServerCall_proofs --------------------------
(***************************************************************************)
(* Safety of ServerCall for any calls, requests, methods and sizes.        *)
(***************************************************************************)
EXTENDS ServerCall, SequenceTheorems, WellFoundedInduction, TLAPS

Op == {"headers", "data", "trailers"}
Place == {"none", "queued", "func", "iterate", "read", "get", "result", "finish", "error", "done"}

----------------------------------------------------------------------------
(* Induction, and sequences of sequences *)

\* Of a set of numbers that is not empty, one is the least.
LEMMA Least ==
    ASSUME NEW T, T \subseteq Nat, T # {}
    PROVE  \E n \in T : \A m \in T : ~(m < n)
<1> DEFINE R == OpToRel(<, Nat)
<1>1. IsWellFoundedOn(R, Nat)
  BY NatLessThanWellFounded
<1>2. \E n \in T : \A m \in T : ~(<<m, n>> \in R)
  BY <1>1, WFMin
<1>3. \A m \in Nat, n \in Nat : m < n => <<m, n>> \in R
  BY DEF OpToRel
<1> QED
  BY <1>2, <1>3

LEMMA Induction ==
    ASSUME NEW T, T \subseteq Nat, 0 \in T, \A n \in T : n + 1 \in T
    PROVE  \A n \in Nat : n \in T
<1> SUFFICES ASSUME NEW k \in Nat, k \notin T PROVE FALSE
  OBVIOUS
<1> DEFINE U == Nat \ T
<1>1. PICK n \in U : \A m \in U : ~(m < n)
  BY Least
<1>2. n # 0 /\ n - 1 \in Nat /\ n - 1 < n
  OBVIOUS
<1>3. n - 1 \in T
  BY <1>1, <1>2
<1> QED
  BY <1>2, <1>3

\* What FlattenSeq computes with: the first n sequences, joined.
Joins(f, ss, n) == f = [i \in 1..n |-> IF i = 1 THEN ss[i] ELSE f[i - 1] \o ss[i]]

LEMMA JoinsAt ==
    ASSUME NEW h, NEW r, NEW l \in Nat, Joins(h, r, l)
    PROVE  /\ DOMAIN h = 1..l
           /\ l # 0 => h[1] = r[1]
           /\ \A j \in 1..l : j # 1 => h[j] = h[j - 1] \o r[j]
<1>1. \A j \in 1..l : h[j] = IF j = 1 THEN r[j] ELSE h[j - 1] \o r[j]
  BY Zenon DEF Joins
<1>2. DOMAIN h = 1..l
  BY Zenon DEF Joins
<1>3. l # 0 => h[1] = r[1]
  BY <1>1
<1>4. \A j \in 1..l : j # 1 => h[j] = h[j - 1] \o r[j]
  BY <1>1, Zenon
<1> QED
  BY <1>2, <1>3, <1>4

LEMMA JoinsFirst ==
    ASSUME NEW h, NEW r, NEW l \in Nat, l # 0, Joins(h, r, l)
    PROVE  h[1] = r[1]
  BY JoinsAt

Adds(h, r, o) == h[o + 1] = h[o] \o r[o + 1]

LEMMA JoinsThen ==
    ASSUME NEW h, NEW r, NEW l \in Nat, NEW o \in Nat, o # 0, o < l, Joins(h, r, l)
    PROVE  Adds(h, r, o)
<1>1. \A j \in 1..l : j # 1 => h[j] = h[j - 1] \o r[j]
  BY JoinsAt, Zenon
<1>2. o + 1 \in 1..l /\ o + 1 # 1 /\ (o + 1) - 1 = o
  OBVIOUS
<1> QED
  BY <1>1, <1>2, Zenon DEF Adds

\* A computation can be continued.
LEMMA JoinsNext ==
    ASSUME NEW S, NEW ss \in Seq(Seq(S)), NEW n \in Nat, n < Len(ss), NEW f \in [1..n -> Seq(S)],
           Joins(f, ss, n)
    PROVE  \E g \in [1..(n + 1) -> Seq(S)] : Joins(g, ss, n + 1)
<1> DEFINE e == IF n = 0 THEN ss[1] ELSE f[n] \o ss[n + 1]
           g == [i \in 1..(n + 1) |-> IF i = n + 1 THEN e ELSE f[i]]
<1>1. e \in Seq(S)
  <2>1. ss[n + 1] \in Seq(S) /\ (n # 0 => f[n] \in Seq(S))
    OBVIOUS
  <2> QED
    BY <2>1, ConcatProperties
<1>2. /\ n # 0 => f[1] = ss[1]
      /\ \A i \in 1..n : i # 1 => f[i] = f[i - 1] \o ss[i]
  BY JoinsAt
<1>3. (n = 0 => e = ss[1]) /\ (n # 0 => e = f[n] \o ss[n + 1])
  OBVIOUS
<1> HIDE DEF e
<1>4. g \in [1..(n + 1) -> Seq(S)]
  BY <1>1
<1>5. g[n + 1] = e /\ \A i \in 1..n : g[i] = f[i]
  OBVIOUS
<1>6. DOMAIN g = 1..(n + 1) /\ g = [i \in 1..(n + 1) |-> g[i]]
  OBVIOUS
<1> HIDE DEF g
<1>7. ASSUME NEW i \in 1..(n + 1) PROVE g[i] = IF i = 1 THEN ss[i] ELSE g[i - 1] \o ss[i]
  <2>1. CASE i = 1
    <3>1. CASE n = 0
      BY <1>3, <1>5, <2>1, <3>1
    <3>2. CASE n # 0
      <4>1. 1 \in 1..n
        BY <3>2
      <4> QED
        BY <1>2, <1>5, <2>1, <3>2, <4>1
    <3> QED
      BY <3>1, <3>2
  <2>2. CASE i # 1 /\ i \in 1..n
    <3>1. i - 1 \in 1..n
      BY <2>2
    <3>2. g[i] = f[i] /\ g[i - 1] = f[i - 1]
      BY <1>5, <2>2, <3>1
    <3>3. f[i] = f[i - 1] \o ss[i]
      BY <1>2, <2>2
    <3> QED
      BY <2>2, <3>2, <3>3
  <2>3. CASE i # 1 /\ i = n + 1
    <3>1. n \in 1..n /\ i - 1 = n /\ n # 0
      BY <2>3
    <3>2. g[i - 1] = f[n]
      BY <1>5, <3>1
    <3> QED
      BY <1>3, <1>5, <2>3, <3>1, <3>2
  <2> QED
    BY <2>1, <2>2, <2>3
<1>8. Joins(g, ss, n + 1)
  BY <1>6, <1>7, Zenon DEF Joins
<1> QED
  BY <1>4, <1>8

LEMMA JoinsExists ==
    ASSUME NEW S, NEW ss \in Seq(Seq(S))
    PROVE  \E f \in [1..Len(ss) -> Seq(S)] : Joins(f, ss, Len(ss))
<1> DEFINE Upto(n) == \E f \in [1..n -> Seq(S)] : Joins(f, ss, n)
           T == {n \in Nat : n <= Len(ss) => Upto(n)}
<1>1. Upto(0)
  <2> DEFINE f == [i \in 1..0 |-> IF i = 1 THEN ss[i] ELSE <<>>]
  <2>1. f \in [1..0 -> Seq(S)] /\ Joins(f, ss, 0)
    BY DEF Joins
  <2> QED
    BY <2>1
<1>2. ASSUME NEW n \in Nat, n < Len(ss), Upto(n) PROVE Upto(n + 1)
  BY <1>2, JoinsNext
<1> HIDE DEF Upto
<1>3. 0 \in T /\ T \subseteq Nat
  BY <1>1
<1>4. ASSUME NEW n \in T PROVE n + 1 \in T
  BY <1>2
<1>5. Len(ss) \in Nat
  OBVIOUS
<1>6. Len(ss) \in T
  <2> HIDE DEF T
  <2> QED
    BY <1>3, <1>4, <1>5, Induction
<1>7. Upto(Len(ss))
  BY <1>5, <1>6
<1> QED
  BY <1>7 DEF Upto

\* It depends only on the sequences it has joined.
Alike(s, t, m) == \A i \in 1..m : s[i] = t[i]

LEMMA JoinsAgree ==
    ASSUME NEW ss, NEW tt, NEW f, NEW g, NEW k \in Nat, NEW n \in Nat, Joins(f, ss, k), Joins(g, tt, n),
           NEW m \in Nat, m <= k, m <= n, Alike(ss, tt, m)
    PROVE  Alike(f, g, m)
<1>3. m # 0 => f[1] = g[1]
  <2> SUFFICES ASSUME m # 0 PROVE f[1] = g[1]
    OBVIOUS
  <2>1. k # 0 /\ n # 0 /\ ss[1] = tt[1]
    BY DEF Alike
  <2>2. f[1] = ss[1]
    BY <2>1, JoinsFirst
  <2>3. g[1] = tt[1]
    BY <2>1, JoinsFirst
  <2> QED
    BY <2>1, <2>2, <2>3
<1>4. ASSUME NEW i \in Nat, i # 0, i + 1 <= m, f[i] = g[i] PROVE f[i + 1] = g[i + 1]
  <2>1. i < k /\ i < n /\ i + 1 \in 1..m
    BY <1>4
  <2>2. Adds(f, ss, i)
    BY <1>4, <2>1, JoinsThen, Zenon
  <2>3. Adds(g, tt, i)
    BY <1>4, <2>1, JoinsThen, Zenon
  <2>4. ss[i + 1] = tt[i + 1]
    BY <2>1 DEF Alike
  <2> QED
    BY <1>4, <2>2, <2>3, <2>4, Zenon DEF Adds
<1> DEFINE T == {l \in Nat : l + 1 <= m => f[l + 1] = g[l + 1]}
<1>5. 0 \in T /\ T \subseteq Nat
  BY <1>3
<1>6. ASSUME NEW l \in T PROVE l + 1 \in T
  BY <1>4
<1>7. \A l \in Nat : l \in T
  <2> HIDE DEF T
  <2> QED
    BY <1>5, <1>6, Induction
<1>8. ASSUME NEW i \in 1..m PROVE f[i] = g[i]
  <2>1. i - 1 \in T /\ i - 1 + 1 = i
    BY <1>7
  <2> QED
    BY <2>1
<1> QED
  BY <1>8 DEF Alike

LEMMA Joined ==
    ASSUME NEW S, NEW rs \in Seq(Seq(S)), rs # <<>>, NEW a, Joins(a, rs, Len(rs))
    PROVE  FlattenSeq(rs) = a[Len(rs)]
<1>1. Len(rs) \in Nat \ {0}
  OBVIOUS
<1>2. PICK b : Joins(b, rs, Len(rs)) /\ FlattenSeq(rs) = b[Len(rs)]
  BY <1>1, Zenon DEF FlattenSeq, Joins
<1>3. a[Len(rs)] = b[Len(rs)]
  <2>1. Len(rs) <= Len(rs) /\ Alike(rs, rs, Len(rs))
    BY <1>1 DEF Alike
  <2>2. Alike(a, b, Len(rs))
    BY <1>1, <1>2, <2>1, JoinsAgree
  <2> QED
    BY <1>1, <2>2 DEF Alike
<1> QED
  BY <1>2, <1>3

LEMMA FlattenAppend ==
    ASSUME NEW S, NEW rs \in Seq(Seq(S)), NEW s \in Seq(S)
    PROVE  /\ FlattenSeq(rs) \in Seq(S)
           /\ FlattenSeq(Append(rs, s)) = FlattenSeq(rs) \o s
<1> DEFINE longer == Append(rs, s)
<1>1. /\ longer \in Seq(Seq(S)) /\ longer # <<>> /\ Len(longer) = Len(rs) + 1 /\ longer[Len(rs) + 1] = s
      /\ \A j \in 1..Len(rs) : rs[j] = longer[j]
  <2>1. longer \in Seq(Seq(S)) /\ Len(longer) = Len(rs) + 1 /\ longer[Len(rs) + 1] = s
        /\ \A j \in 1..Len(rs) : longer[j] = rs[j]
    BY AppendProperties
  <2>2. longer # <<>>
    BY <2>1
  <2> QED
    BY <2>1, <2>2
<1> HIDE DEF longer
<1>2. PICK a \in [1..Len(rs) -> Seq(S)] : Joins(a, rs, Len(rs))
  BY JoinsExists
<1>3. PICK b \in [1..Len(longer) -> Seq(S)] : Joins(b, longer, Len(longer))
  BY <1>1, JoinsExists
<1>4. Len(rs) \in Nat /\ Len(longer) \in Nat
  BY <1>1
<1>5. FlattenSeq(longer) = b[Len(longer)]
  BY <1>1, <1>3, Joined
<1>6. CASE rs = <<>>
  <2>1. FlattenSeq(rs) = <<>>
    BY <1>6 DEF FlattenSeq
  <2>2. Len(rs) = 0 /\ Len(longer) = 1
    BY <1>1, <1>6
  <2>3. b[1] = longer[1]
    <3>1. Len(longer) # 0
      BY <2>2
    <3> QED
      BY <1>3, <1>4, <3>1, JoinsFirst
  <2>4. <<>> \o s = s
    BY ConcatEmptySeq
  <2> QED
    BY <1>1, <1>5, <2>1, <2>2, <2>3, <2>4 DEF longer
<1>7. CASE rs # <<>>
  <2>1. Len(rs) # 0
    BY <1>7
  <2>2. FlattenSeq(rs) = a[Len(rs)] /\ a[Len(rs)] \in Seq(S)
    <3>1. FlattenSeq(rs) = a[Len(rs)]
      BY <1>2, <1>7, Joined, Zenon
    <3> QED
      BY <1>2, <1>4, <2>1, <3>1
  <2>3. b[Len(rs)] = a[Len(rs)]
    <3>1. Len(rs) <= Len(rs) /\ Len(rs) <= Len(longer) /\ Alike(rs, longer, Len(rs))
      BY <1>1, <1>4 DEF Alike
    <3>2. Alike(a, b, Len(rs))
      BY <1>2, <1>3, <1>4, <3>1, JoinsAgree
    <3> QED
      BY <1>4, <2>1, <3>2 DEF Alike
  <2>4. b[Len(rs) + 1] = b[Len(rs)] \o longer[Len(rs) + 1]
    <3>1. Len(rs) \in Nat /\ Len(longer) \in Nat /\ Len(rs) < Len(longer)
      BY <1>1, <1>4
    <3>2. Adds(b, longer, Len(rs))
      BY <1>3, <1>4, <2>1, <3>1, JoinsThen, Zenon
    <3> QED
      BY <3>2, Zenon DEF Adds
  <2> QED
    BY <1>1, <1>5, <2>2, <2>3, <2>4 DEF longer
<1> QED
  BY <1>6, <1>7

----------------------------------------------------------------------------
(* The beginnings of a sequence *)

Upto(ss, n) == FlattenSeq(SubSeq(ss, 1, n))

LEMMA UptoNext ==
    ASSUME NEW S, NEW ss \in Seq(Seq(S)), NEW n \in 0..Len(ss)
    PROVE  /\ Upto(ss, 0) = <<>> /\ Upto(ss, Len(ss)) = FlattenSeq(ss)
           /\ Upto(ss, n) \in Seq(S)
           /\ n < Len(ss) => Upto(ss, n + 1) = Upto(ss, n) \o ss[n + 1]
<1>1. SubSeq(ss, 1, n) \in Seq(Seq(S)) /\ SubSeq(ss, 1, Len(ss)) = ss
  OBVIOUS
<1>2. FlattenSeq(SubSeq(ss, 1, n)) \in Seq(S)
  <2>1. <<>> \in Seq(S)
    OBVIOUS
  <2> QED
    BY <1>1, <2>1, FlattenAppend
<1>3. SubSeq(ss, 1, 0) = <<>> /\ FlattenSeq(<<>>) = <<>>
  BY DEF FlattenSeq
<1>4. ASSUME n < Len(ss) PROVE Upto(ss, n + 1) = Upto(ss, n) \o ss[n + 1]
  <2>1. SubSeq(ss, 1, n + 1) = Append(SubSeq(ss, 1, n), ss[n + 1]) /\ ss[n + 1] \in Seq(S)
    BY <1>4
  <2>2. FlattenSeq(Append(SubSeq(ss, 1, n), ss[n + 1])) = FlattenSeq(SubSeq(ss, 1, n)) \o ss[n + 1]
    BY <1>1, <2>1, FlattenAppend
  <2> QED
    BY <2>1, <2>2 DEF Upto
<1> QED
  BY <1>1, <1>2, <1>3, <1>4 DEF Upto

\* Concatenation is associative; named, so that the provers do not compute with it.
Regrouped(s, t, u) == (s \o t) \o u = s \o (t \o u)

LEMMA Associative ==
    ASSUME NEW S, NEW s \in Seq(S), NEW t \in Seq(S), NEW u \in Seq(S)
    PROVE  Regrouped(s, t, u)
<1> DEFINE l == (s \o t) \o u
           r == s \o (t \o u)
<1>1. /\ s \o t \in Seq(S) /\ t \o u \in Seq(S)
      /\ Len(s) \in Nat /\ Len(t) \in Nat /\ Len(u) \in Nat
  BY ConcatProperties
<1>2. l \in Seq(S) /\ r \in Seq(S)
  BY <1>1, ConcatProperties
<1>3. Len(l) = Len(s) + Len(t) + Len(u) /\ Len(r) = Len(s) + Len(t) + Len(u)
  BY <1>1, ConcatProperties
<1>4. ASSUME NEW i \in 1..Len(l) PROVE l[i] = r[i]
  BY <1>1, <1>3, <1>4, ConcatProperties
<1> QED
  BY <1>2, <1>3, <1>4, SeqEqual DEF Regrouped

LEMMA Cancel ==
    ASSUME NEW S, NEW s \in Seq(S), NEW t \in Seq(S), NEW u \in Seq(S), s \o t = s \o u
    PROVE  t = u
  BY ConcatSimplifications

Cancels(s, t, u, v) == (s \o t) \o u = s \o v => t \o u = v

LEMMA CancelFirst ==
    ASSUME NEW S, NEW s \in Seq(S), NEW t \in Seq(S), NEW u \in Seq(S), NEW v \in Seq(S)
    PROVE  Cancels(s, t, u, v)
<1>1. Regrouped(s, t, u)
  BY Associative, Zenon
<1>2. t \o u \in Seq(S)
  BY ConcatProperties
<1> QED
  BY <1>1, <1>2, Cancel, Zenon DEF Cancels, Regrouped

\* After the first k sequences some are left.
Remains(ss, k, left) == FlattenSeq(ss) = Upto(ss, k) \o left

\* A beginning is completed by some rest.
LEMMA UptoRest ==
    ASSUME NEW S, NEW ss \in Seq(Seq(S)), NEW k \in 0..Len(ss)
    PROVE  \E rest \in Seq(S) : Remains(ss, k, rest)
<1> DEFINE Reaches(n) == \E rest \in Seq(S) : Upto(ss, n) = Upto(ss, k) \o rest
           T == {d \in Nat : k + d <= Len(ss) => Reaches(k + d)}
<1>1. Len(ss) \in Nat /\ k \in Nat
  OBVIOUS
<1>2. Reaches(k)
  <2>1. Upto(ss, k) \in Seq(S)
    BY UptoNext
  <2>2. Upto(ss, k) = Upto(ss, k) \o <<>> /\ <<>> \in Seq(S)
    BY <2>1, ConcatEmptySeq
  <2> QED
    BY <2>2
<1>3. ASSUME NEW n \in Nat, k <= n, n < Len(ss), Reaches(n) PROVE Reaches(n + 1)
  <2>1. PICK rest \in Seq(S) : Upto(ss, n) = Upto(ss, k) \o rest
    BY <1>3
  <2>2. n \in 0..Len(ss) /\ ss[n + 1] \in Seq(S)
    BY <1>1, <1>3
  <2>3. Upto(ss, n + 1) = Upto(ss, n) \o ss[n + 1] /\ Upto(ss, k) \in Seq(S)
    BY <1>3, <2>2, UptoNext
  <2>4. Upto(ss, n + 1) = Upto(ss, k) \o (rest \o ss[n + 1])
    <3> DEFINE s == Upto(ss, k)
               t == ss[n + 1]
    <3>1. s \in Seq(S) /\ t \in Seq(S)
      BY <2>2, <2>3
    <3> HIDE DEF s, t
    <3>2. Regrouped(s, rest, t)
      BY <3>1, Associative, Zenon
    <3> QED
      BY <2>1, <2>3, <3>2, Zenon DEF s, t, Regrouped
  <2>5. rest \o ss[n + 1] \in Seq(S)
    BY <2>2, ConcatProperties
  <2> QED
    BY <2>4, <2>5
<1> HIDE DEF Reaches
<1>4. 0 \in T /\ T \subseteq Nat
  BY <1>1, <1>2
<1>5. ASSUME NEW d \in T PROVE d + 1 \in T
  <2>1. k + d \in Nat /\ k <= k + d /\ k + (d + 1) = (k + d) + 1
    BY <1>1
  <2>2. k + d < Len(ss) => Reaches(k + (d + 1))
    BY <1>1, <1>3, <2>1
  <2> QED
    BY <1>1, <2>2
<1>6. Len(ss) - k \in Nat /\ k + (Len(ss) - k) = Len(ss)
  BY <1>1
<1>7. Len(ss) - k \in T
  <2> HIDE DEF T
  <2> QED
    BY <1>4, <1>5, <1>6, Induction
<1>8. Reaches(Len(ss))
  BY <1>6, <1>7
<1>9. Upto(ss, Len(ss)) = FlattenSeq(ss)
  BY UptoNext
<1> QED
  BY <1>8, <1>9 DEF Reaches, Remains

Joint(s, t, u) == s = t \o u

\* What is left after some of the sequences begins with the next one.
LEMMA NextOfRest ==
    ASSUME NEW S, NEW ss \in Seq(Seq(S)), NEW k \in 0..Len(ss), NEW left \in Seq(S),
           Remains(ss, k, left)
    PROVE  /\ k = Len(ss) => left = <<>>
           /\ k < Len(ss) => \E rest \in Seq(S) : Joint(left, ss[k + 1], rest) /\ Remains(ss, k + 1, rest)
<1>1. /\ Upto(ss, k) \in Seq(S) /\ Upto(ss, Len(ss)) = FlattenSeq(ss)
      /\ FlattenSeq(ss) = Upto(ss, k) \o left
  BY UptoNext DEF Remains
<1>2. ASSUME k = Len(ss) PROVE left = <<>>
  <2>1. Upto(ss, k) \o left = Upto(ss, k) \o <<>>
    BY <1>1, <1>2, ConcatEmptySeq
  <2> QED
    BY <1>1, <2>1, Cancel, EmptySeq
<1>3. ASSUME k < Len(ss)
      PROVE  \E rest \in Seq(S) : Joint(left, ss[k + 1], rest) /\ Remains(ss, k + 1, rest)
  <2>1. k + 1 \in 0..Len(ss) /\ ss[k + 1] \in Seq(S)
    BY <1>3
  <2>2. Upto(ss, k + 1) = Upto(ss, k) \o ss[k + 1]
    BY <1>3, UptoNext
  <2>3. PICK rest \in Seq(S) : FlattenSeq(ss) = Upto(ss, k + 1) \o rest
    BY <2>1, UptoRest DEF Remains
  <2>4. ss[k + 1] \o rest \in Seq(S)
    BY <2>1, ConcatProperties
  <2>5. Upto(ss, k) \o left = Upto(ss, k) \o (ss[k + 1] \o rest)
    <3> DEFINE s == Upto(ss, k)
               t == ss[k + 1]
    <3>1. s \in Seq(S) /\ t \in Seq(S)
      BY <1>1, <2>1
    <3> HIDE DEF s, t
    <3>2. Regrouped(s, t, rest)
      BY <3>1, Associative, Zenon
    <3> QED
      BY <1>1, <2>2, <2>3, <3>2, Zenon DEF s, t, Regrouped
  <2>6. left = ss[k + 1] \o rest
    BY <1>1, <2>4, <2>5, Cancel
  <2> QED
    BY <2>3, <2>6 DEF Remains, Joint
<1> QED
  BY <1>2, <1>3

Cuts(s, t, p, rest) ==
    s \o t = p \o rest => /\ SubSeq(s, 1, Len(p)) = p
                         /\ SubSeq(s, Len(p) + 1, Len(s)) \o t = rest

\* What is cut off at the length of a beginning is that beginning.
LEMMA CutOff ==
    ASSUME NEW S, NEW s \in Seq(S), NEW t \in Seq(S), NEW p \in Seq(S), NEW rest \in Seq(S),
           Len(p) <= Len(s)
    PROVE  SubSeq(s, Len(p) + 1, Len(s)) \in Seq(S) /\ Cuts(s, t, p, rest)
<1> DEFINE first == SubSeq(s, 1, Len(p))
           last == SubSeq(s, Len(p) + 1, Len(s))
<1>1. first \in Seq(S) /\ last \in Seq(S) /\ Len(first) = Len(p)
      /\ \A i \in 1..Len(p) : first[i] = s[i]
  OBVIOUS
<1>2. first \o last = s
  <2>1. Len(s) \in Nat /\ Len(p) \in Nat
    OBVIOUS
  <2>2. 1 \in 1..Len(s) + 1 /\ Len(p) \in 1 - 1..Len(s) /\ Len(s) \in Len(p)..Len(s)
    BY <2>1
  <2>3. SubSeq(s, 1, Len(p)) \o SubSeq(s, Len(p) + 1, Len(s)) = SubSeq(s, 1, Len(s))
    BY <2>2, ConcatAdjacentSubSeq, Zenon
  <2> QED
    BY <2>3, SubSeqFull, Zenon
<1> HIDE DEF first, last
<1>3. last \in Seq(S)
  BY <1>1
<1>5. Cancels(p, last, t, rest)
  BY <1>3, CancelFirst
<1>4. ASSUME s \o t = p \o rest PROVE first = p
  <2>1. \A i \in 1..Len(p) : (s \o t)[i] = s[i] /\ (p \o rest)[i] = p[i]
    OBVIOUS
  <2>2. \A i \in 1..Len(first) : first[i] = p[i]
    BY <1>1, <1>4, <2>1
  <2> QED
    BY <1>1, <2>2, SeqEqual
<1> QED
  BY <1>1, <1>2, <1>4, <1>5, Zenon DEF first, last, Cancels, Cuts

LEMMA Beginning ==
    ASSUME NEW S, NEW s \in Seq(S), NEW t \in Seq(S)
    PROVE  IsPrefix(s, s \o t)
<1> DEFINE u == s \o t
<1>1. u \in Seq(S) /\ Len(u) = Len(s) + Len(t) /\ Len(s) \in Nat /\ Len(t) \in Nat
      /\ \A i \in 1..Len(s) : u[i] = s[i]
  OBVIOUS
<1> HIDE DEF u
<1>2. SubSeq(u, 1, Len(s)) \in Seq(S) /\ Len(SubSeq(u, 1, Len(s))) = Len(s)
      /\ \A i \in 1..Len(s) : SubSeq(u, 1, Len(s))[i] = u[i]
  BY <1>1
<1>3. SubSeq(u, 1, Len(s)) = s
  BY <1>1, <1>2, SeqEqual
<1>4. SubSeq(s, 1, Len(s)) = s
  OBVIOUS
<1>5. IsPrefix(s, u)
  BY <1>1, <1>3, <1>4 DEF IsPrefix
<1> QED
  BY <1>5 DEF u

\* What Without joins: each item on its own, or nothing for it.
Singles(s, a) == [i \in DOMAIN s |-> IF s[i] = a THEN <<>> ELSE <<s[i]>>]

LEMMA SinglesAppend ==
    ASSUME NEW S, NEW s \in Seq(S), NEW a, NEW e \in S
    PROVE  /\ Singles(s, a) \in Seq(Seq(S)) /\ Len(Singles(s, a)) = Len(s)
           /\ Singles(Append(s, e), a) = Append(Singles(s, a), IF e = a THEN <<>> ELSE <<e>>)
<1> DEFINE single(x) == IF x = a THEN <<>> ELSE <<x>>
           longer == Append(s, e)
<1>1. ASSUME NEW x \in S PROVE single(x) \in Seq(S)
  OBVIOUS
<1>2. ASSUME NEW u \in Seq(S)
      PROVE  /\ Singles(u, a) \in Seq(Seq(S)) /\ Len(Singles(u, a)) = Len(u)
             /\ \A i \in 1..Len(u) : Singles(u, a)[i] = single(u[i])
  <2>1. Singles(u, a) = [i \in 1..Len(u) |-> single(u[i])]
    BY DEF Singles
  <2>2. \A i \in 1..Len(u) : single(u[i]) \in Seq(S)
    BY <1>1
  <2> HIDE DEF single
  <2> QED
    BY <2>1, <2>2
<1>3. longer \in Seq(S) /\ Len(longer) = Len(s) + 1 /\ Len(s) \in Nat
      /\ (\A i \in 1..Len(s) : longer[i] = s[i]) /\ longer[Len(s) + 1] = e
  OBVIOUS
<1> HIDE DEF longer, single
<1>4. Singles(longer, a) = Append(Singles(s, a), single(e))
  <2>1. single(e) \in Seq(S)
    BY <1>1
  <2>2. /\ Append(Singles(s, a), single(e)) \in Seq(Seq(S))
        /\ Len(Append(Singles(s, a), single(e))) = Len(s) + 1
        /\ \A i \in 1..Len(s) : Append(Singles(s, a), single(e))[i] = single(s[i])
        /\ Append(Singles(s, a), single(e))[Len(s) + 1] = single(e)
    BY <1>2, <2>1, AppendProperties
  <2>3. \A i \in 1..(Len(s) + 1) : Singles(longer, a)[i] = Append(Singles(s, a), single(e))[i]
    BY <1>2, <1>3, <2>2
  <2> QED
    BY <1>2, <1>3, <2>2, <2>3, SeqEqual
<1> QED
  BY <1>2, <1>4 DEF longer, single

LEMMA WithoutAppend ==
    ASSUME NEW S, NEW s \in Seq(S), NEW a, NEW e \in S
    PROVE  /\ Without(s, a) \in Seq(S)
           /\ e = a => Without(Append(s, e), a) = Without(s, a)
           /\ e # a => Without(Append(s, e), a) = Append(Without(s, a), e)
<1>1. /\ Singles(s, a) \in Seq(Seq(S))
      /\ Singles(Append(s, e), a) = Append(Singles(s, a), IF e = a THEN <<>> ELSE <<e>>)
  BY SinglesAppend
<1>2. Without(s, a) = FlattenSeq(Singles(s, a))
      /\ Without(Append(s, e), a) = FlattenSeq(Singles(Append(s, e), a))
  BY DEF Without, Singles
<1>3. <<>> \in Seq(S) /\ <<e>> \in Seq(S)
  OBVIOUS
<1>4. FlattenSeq(Singles(s, a)) \in Seq(S)
      /\ FlattenSeq(Append(Singles(s, a), <<>>)) = FlattenSeq(Singles(s, a)) \o <<>>
      /\ FlattenSeq(Append(Singles(s, a), <<e>>)) = FlattenSeq(Singles(s, a)) \o <<e>>
  BY <1>1, <1>3, FlattenAppend
<1>5. Without(s, a) \o <<>> = Without(s, a) /\ Without(s, a) \o <<e>> = Append(Without(s, a), e)
  BY <1>2, <1>4
<1>6. ASSUME e = a PROVE Without(Append(s, e), a) = Without(s, a)
  BY <1>1, <1>2, <1>4, <1>5, <1>6
<1>7. ASSUME e # a PROVE Without(Append(s, e), a) = Append(Without(s, a), e)
  BY <1>1, <1>2, <1>4, <1>5, <1>7
<1> QED
  BY <1>2, <1>4, <1>6, <1>7

----------------------------------------------------------------------------
(* The messages in the bytes of a request *)

Message == [flag : Nat, payload : Seq(Nat)]

Encoded(m) == [i \in DOMAIN m |-> Encode(m[i])]
Payloads(m) == [i \in DOMAIN m |-> m[i].payload]
Wanted(m) == Without(Payloads(m), <<>>)

\* Of a request m, bytes are left after k messages.
Left(m, k, bytes) == Remains(Encoded(m), k, bytes)
\* What a method is given of the first k messages.
Taken(m, k) == Upto(Singles(Payloads(m), <<>>), k)

HeaderOf(message) == <<message.flag, Len(message.payload)>>

LEMMA RequestTypes ==
    ASSUME NEW m \in Seq(Message)
    PROVE  /\ Len(m) \in Nat
           /\ Encoded(m) \in Seq(Seq(Nat)) /\ Len(Encoded(m)) = Len(m)
           /\ \A i \in 1..Len(m) : Encoded(m)[i] = HeaderOf(m[i]) \o m[i].payload
           /\ \A i \in 1..Len(m) : m[i].payload \in Seq(Nat) /\ HeaderOf(m[i]) \in Seq(Nat)
           /\ Payloads(m) \in Seq(Seq(Nat)) /\ Len(Payloads(m)) = Len(m)
           /\ \A i \in 1..Len(m) : Payloads(m)[i] = m[i].payload
           /\ Bytes(m) = FlattenSeq(Encoded(m)) /\ Bytes(m) \in Seq(Nat)
<1>1. Len(m) \in Nat /\ DOMAIN m = 1..Len(m) /\ \A i \in 1..Len(m) : m[i] \in Message
  OBVIOUS
<1>2. ASSUME NEW i \in 1..Len(m)
      PROVE  /\ m[i].payload \in Seq(Nat) /\ HeaderOf(m[i]) \in Seq(Nat)
             /\ Encode(m[i]) = HeaderOf(m[i]) \o m[i].payload /\ Encode(m[i]) \in Seq(Nat)
  <2>1. m[i].payload \in Seq(Nat) /\ m[i].flag \in Nat
    BY <1>1 DEF Message
  <2>2. HeaderOf(m[i]) \in Seq(Nat)
    BY <2>1 DEF HeaderOf
  <2>3. Encode(m[i]) = HeaderOf(m[i]) \o m[i].payload
    BY DEF Encode, HeaderOf
  <2> QED
    BY <2>1, <2>2, <2>3, ConcatProperties
<1>3. Encoded(m) \in Seq(Seq(Nat)) /\ Len(Encoded(m)) = Len(m)
      /\ \A i \in 1..Len(m) : Encoded(m)[i] = Encode(m[i])
  <2>1. Encoded(m) = [i \in 1..Len(m) |-> Encode(m[i])]
    BY <1>1 DEF Encoded
  <2>2. \A i \in 1..Len(m) : Encode(m[i]) \in Seq(Nat)
    BY <1>2
  <2> QED
    BY <1>1, <2>1, <2>2
<1>4. Payloads(m) \in Seq(Seq(Nat)) /\ Len(Payloads(m)) = Len(m)
      /\ \A i \in 1..Len(m) : Payloads(m)[i] = m[i].payload
  <2>1. Payloads(m) = [i \in 1..Len(m) |-> m[i].payload]
    BY <1>1 DEF Payloads
  <2>2. \A i \in 1..Len(m) : m[i].payload \in Seq(Nat)
    BY <1>2
  <2> QED
    BY <1>1, <2>1, <2>2
<1>5. Bytes(m) = FlattenSeq(Encoded(m))
  BY DEF Bytes, Encoded
<1>6. FlattenSeq(Encoded(m)) \in Seq(Nat)
  BY <1>3, EmptySeq, FlattenAppend
<1> QED
  BY <1>1, <1>2, <1>3, <1>4, <1>5, <1>6, Zenon

\* Bytes that are left begin with the next message, if there is one.
LEMMA NextMessage ==
    ASSUME NEW m \in Seq(Message), NEW k \in 0..Len(m), NEW bytes \in Seq(Nat), Left(m, k, bytes)
    PROVE  /\ k = Len(m) => bytes = <<>>
           /\ k < Len(m) => \E rest \in Seq(Nat) : /\ Joint(bytes, Encoded(m)[k + 1], rest)
                                                   /\ Left(m, k + 1, rest)
<1>1. Encoded(m) \in Seq(Seq(Nat)) /\ Len(Encoded(m)) = Len(m)
  BY RequestTypes
<1>2. k \in 0..Len(Encoded(m)) /\ Remains(Encoded(m), k, bytes)
  BY <1>1 DEF Left
<1>3. /\ k = Len(Encoded(m)) => bytes = <<>>
      /\ k < Len(Encoded(m)) => \E rest \in Seq(Nat) : /\ Joint(bytes, Encoded(m)[k + 1], rest)
                                                        /\ Remains(Encoded(m), k + 1, rest)
  BY <1>1, <1>2, NextOfRest
<1> QED
  BY <1>1, <1>3, Zenon DEF Left

LEMMA TakenNext ==
    ASSUME NEW m \in Seq(Message), NEW k \in 0..Len(m)
    PROVE  /\ Taken(m, 0) = <<>> /\ Taken(m, Len(m)) = Wanted(m) /\ Taken(m, k) \in Seq(Seq(Nat))
           /\ IsPrefix(Taken(m, k), Wanted(m))
           /\ k < Len(m) => Taken(m, k + 1) = IF m[k + 1].payload = <<>> THEN Taken(m, k)
                                              ELSE Append(Taken(m, k), m[k + 1].payload)
<1> DEFINE p == Payloads(m)
           ss == Singles(p, <<>>)
<1>1. /\ Len(m) \in Nat /\ p \in Seq(Seq(Nat)) /\ Len(p) = Len(m)
      /\ \A i \in 1..Len(m) : p[i] = m[i].payload
      /\ \A i \in 1..Len(m) : m[i].payload \in Seq(Nat)
  BY RequestTypes, Zenon
<1> HIDE DEF p
<1>2. ss \in Seq(Seq(Seq(Nat))) /\ Len(ss) = Len(m) /\ DOMAIN p = 1..Len(m)
  <2>1. p \in Seq(Seq(Nat)) /\ <<>> \in Seq(Nat) /\ Len(p) = Len(m)
    BY <1>1
  <2>2. ss \in Seq(Seq(Seq(Nat))) /\ Len(ss) = Len(p)
    BY <2>1, SinglesAppend, ZenonT(60)
  <2> QED
    BY <2>1, <2>2, LenProperties
<1>3. \A i \in 1..Len(m) : ss[i] = IF m[i].payload = <<>> THEN <<>> ELSE <<m[i].payload>>
  BY <1>1, <1>2 DEF Singles
<1>4. Wanted(m) = FlattenSeq(ss)
  BY DEF Wanted, Without, Singles, p
<1>5. Taken(m, k) = Upto(ss, k) /\ Taken(m, 0) = Upto(ss, 0) /\ Taken(m, k + 1) = Upto(ss, k + 1)
      /\ Taken(m, Len(m)) = Upto(ss, Len(m))
  BY DEF Taken, p
<1> HIDE DEF ss
<1>6. /\ Upto(ss, 0) = <<>> /\ Upto(ss, Len(m)) = FlattenSeq(ss)
      /\ Upto(ss, k) \in Seq(Seq(Nat))
      /\ k < Len(m) => Upto(ss, k + 1) = Upto(ss, k) \o ss[k + 1]
  BY <1>2, UptoNext
<1>7. IsPrefix(Upto(ss, k), FlattenSeq(ss))
  <2>1. PICK rest \in Seq(Seq(Nat)) : FlattenSeq(ss) = Upto(ss, k) \o rest
    BY <1>2, UptoRest DEF Remains
  <2> QED
    BY <1>6, <2>1, Beginning
<1>8. ASSUME k < Len(m)
      PROVE  Taken(m, k + 1) = IF m[k + 1].payload = <<>> THEN Taken(m, k)
                               ELSE Append(Taken(m, k), m[k + 1].payload)
  <2>1. k + 1 \in 1..Len(m)
    BY <1>1, <1>8
  <2>2. CASE m[k + 1].payload = <<>>
    <3>1. ss[k + 1] = <<>>
      BY <1>3, <2>1, <2>2
    <3>2. Upto(ss, k) \o <<>> = Upto(ss, k)
      BY <1>6, ConcatEmptySeq
    <3> QED
      BY <1>5, <1>6, <1>8, <2>2, <3>1, <3>2, Zenon
  <2>3. CASE m[k + 1].payload # <<>>
    <3>1. ss[k + 1] = <<m[k + 1].payload>>
      BY <1>3, <2>1, <2>3
    <3>2. m[k + 1].payload \in Seq(Nat)
      BY <1>1, <2>1
    <3>3. Upto(ss, k) \o <<m[k + 1].payload>> = Append(Upto(ss, k), m[k + 1].payload)
      <4> DEFINE t == m[k + 1].payload
      <4>1. t \in Seq(Nat)
        BY <3>2
      <4> HIDE DEF t
      <4>2. Upto(ss, k) \o <<t>> = Append(Upto(ss, k), t)
        BY <1>6, <4>1
      <4> QED
        BY <4>2 DEF t
    <3> QED
      BY <1>5, <1>6, <1>8, <2>3, <3>1, <3>3, Zenon
  <2> QED
    BY <2>2, <2>3
<1> QED
  BY <1>4, <1>5, <1>6, <1>7, <1>8

----------------------------------------------------------------------------
(* What is posted on a stream *)

WellFormed(s) == \A i \in DOMAIN s :
    /\ s[i] = "headers" <=> (i = 1 /\ s # <<"trailers">>)
    /\ s[i] = "trailers" => i = Len(s)

\* An answer that more can be added to.
Open(s) == \A i \in DOMAIN s :
    /\ s[i] = "headers" <=> i = 1
    /\ s[i] # "trailers"

First(s) == IF s = <<>> THEN <<"headers">> ELSE <<>>

\* An answer that is still open is well formed as it is.
LEMMA OpenWellFormed ==
    ASSUME NEW s \in Seq(Op), Open(s)
    PROVE  WellFormed(s)
<1>1. ASSUME NEW i \in DOMAIN s PROVE s # <<"trailers">>
  BY <1>1 DEF Open
<1> QED
  BY <1>1 DEF Open, WellFormed

\* send_message puts the headers before the first message only.
LEMMA HeadersFirst ==
    ASSUME NEW s \in Seq(Op), Open(s)
    PROVE  /\ s \o First(s) \in Seq(Op) /\ s \o First(s) # <<>>
           /\ Open(s \o First(s))
<1>1. CASE s = <<>>
  <2>1. s \o First(s) = <<"headers">>
    BY <1>1 DEF First
  <2> QED
    BY <2>1 DEF Open, Op
<1>2. CASE s # <<>>
  <2>1. s \o First(s) = s
    BY <1>2 DEF First
  <2> QED
    BY <1>2, <2>1
<1> QED
  BY <1>1, <1>2

\* A message after the headers leaves the answer open.
LEMMA DataAfter ==
    ASSUME NEW s \in Seq(Op), s # <<>>, Open(s)
    PROVE  s \o <<"data">> \in Seq(Op) /\ Open(s \o <<"data">>)
<1> DEFINE t == s \o <<"data">>
<1>1. /\ t \in Seq(Op) /\ Len(s) \in Nat \ {0} /\ DOMAIN s = 1..Len(s)
      /\ DOMAIN t = 1..(Len(s) + 1)
      /\ \A i \in 1..Len(s) : t[i] = s[i]
      /\ t[Len(s) + 1] = "data"
  BY DEF Op
<1>2. Open(t)
  BY <1>1 DEF Open
<1> QED
  BY <1>1, <1>2

\* complete ends an open answer, with or without headers before.
LEMMA TrailersLast ==
    ASSUME NEW s \in Seq(Op), Open(s)
    PROVE  /\ Append(s, "trailers") \in Seq(Op)
           /\ WellFormed(Append(s, "trailers"))
           /\ "trailers" \in ToSet(Append(s, "trailers"))
<1> DEFINE t == Append(s, "trailers")
<1>1. /\ t \in Seq(Op) /\ Len(s) \in Nat /\ DOMAIN s = 1..Len(s)
      /\ Len(t) = Len(s) + 1 /\ DOMAIN t = 1..(Len(s) + 1)
      /\ \A i \in 1..Len(s) : t[i] = s[i]
      /\ t[Len(s) + 1] = "trailers"
  BY DEF Op
<1>2. "trailers" \in ToSet(t)
  BY <1>1 DEF ToSet
<1>3. CASE s = <<>>
  <2>1. t = <<"trailers">>
    BY <1>3
  <2> QED
    BY <1>1, <1>2, <2>1 DEF WellFormed
<1>4. CASE s # <<>>
  <2>1. Len(s) # 0
    BY <1>4
  <2>3. t # <<"trailers">>
    <3>1. t[1] # "trailers"
      BY <1>1, <2>1 DEF Open
    <3> QED
      BY <3>1
  <2>2. WellFormed(t)
    BY <1>1, <2>1, <2>3 DEF WellFormed, Open
  <2> QED
    BY <1>1, <1>2, <2>2
<1> QED
  BY <1>3, <1>4

----------------------------------------------------------------------------
(* Types *)

Item == Seq(Nat) \cup {EOF}

Decoders == {d \in [state : {"HEADER", "PAYLOAD"}, required : Nat, accumulate : Seq(Nat)] :
                d.state = "HEADER" => d.required = HEADER_LENGTH}

\* SubSeq cuts bytes into bytes.
LEMMA SubSeqBytes ==
    ASSUME NEW s \in Seq(Nat), NEW n \in 0..Len(s)
    PROVE  /\ SubSeq(s, 1, n) \in Seq(Nat) /\ Len(SubSeq(s, 1, n)) = n
           /\ SubSeq(s, n + 1, Len(s)) \in Seq(Nat)
OBVIOUS

\* The decoder keeps a well-typed state, and cuts bytes into bytes.
LEMMA DecoderTypes ==
    ASSUME NEW d \in Decoders
    PROVE  /\ NewDecoder \in Decoders
           /\ \A bytes \in Seq(Nat) : Feed(d, bytes) \in Decoders
           /\ HasEnoughBytes(d) => Cut(d) \in Seq(Nat)
           /\ AtHeader(d) => ProcessHeader(d) \in Decoders
           /\ AtPayload(d) => ProcessPayload(d) \in Decoders
<1>1. NewDecoder \in Decoders
  BY DEF NewDecoder, Decoders, HEADER_LENGTH
<1>2. ASSUME NEW bytes \in Seq(Nat) PROVE Feed(d, bytes) \in Decoders
  <2>1. d.accumulate \o bytes \in Seq(Nat)
    BY <1>2 DEF Decoders
  <2> QED
    BY <2>1 DEF Feed, Decoders
<1>3. ASSUME HasEnoughBytes(d)
      PROVE  Cut(d) \in Seq(Nat) /\ Len(Cut(d)) = d.required /\ Rest(d) \in Seq(Nat)
  <2>1. d.accumulate \in Seq(Nat) /\ d.required \in 0..Len(d.accumulate)
    BY <1>3 DEF HasEnoughBytes, Decoders
  <2> QED
    BY <2>1, SubSeqBytes DEF Cut, Rest
<1>4. ASSUME AtHeader(d) PROVE ProcessHeader(d) \in Decoders
  <2>1. HasEnoughBytes(d) /\ d.required = HEADER_LENGTH
    BY <1>4 DEF AtHeader, Decoders
  <2>2. Cut(d)[HEADER_LENGTH] \in Nat
    BY <1>3, <2>1 DEF HEADER_LENGTH
  <2> QED
    BY <1>3, <2>1, <2>2 DEF ProcessHeader, Decoders
<1>5. ASSUME AtPayload(d) PROVE ProcessPayload(d) \in Decoders
  BY <1>3, <1>5 DEF AtPayload, ProcessPayload, Decoders, HEADER_LENGTH
<1> QED
  BY <1>1, <1>2, <1>3, <1>4, <1>5

ListenerTypes ==
    /\ \A c \in Calls : request[c] \in Requests[c]
    /\ wire \in [Calls -> Seq(Nat)]
    /\ peer \in [Calls -> {"idle", "open", "ended", "reset"}]
    /\ listener \in [Calls -> {"none", "idle", "decoding", "ends", "failed", "done"}]
    /\ ending \in [Calls -> BOOLEAN] /\ readDone \in [Calls -> BOOLEAN]
    /\ decoder \in [Calls -> Decoders]
    /\ storage \in [Calls -> Seq(Item)]
    /\ \A c \in Calls : Len(storage[c]) <= QueueSize

MethodTypes ==
    /\ pool \in Seq(Calls)
    /\ method \in [Calls -> Place]
    /\ resume \in [Calls -> {"func", "iterate"}]
    /\ writeDone \in [Calls -> BOOLEAN]
    /\ ops \in [Calls -> Seq(Op)]

\* The initial state is typed: the bytes of a request are bytes.
LEMMA InitTypes == Init => ListenerTypes /\ MethodTypes
<1> SUFFICES ASSUME Init PROVE ListenerTypes /\ MethodTypes
  OBVIOUS
<1>1. \A c \in Calls : request[c] \in Requests[c]
  BY DEF Init
<1>2. wire \in [Calls -> Seq(Nat)]
  <2>1. \A c \in Calls : request[c] \in Seq(Message)
    BY <1>1, RequestsAreMessages DEF Message
  <2>2. \A c \in Calls : Bytes(request[c]) \in Seq(Nat)
    BY <2>1, RequestTypes
  <2> QED
    BY <2>2 DEF Init
<1>3. NewDecoder \in Decoders
  BY DEF NewDecoder, Decoders, HEADER_LENGTH
<1> QED
  BY <1>1, <1>2, <1>3, ServerCallAssumption DEF Init, ListenerTypes, MethodTypes, Place

\* The listener's steps, and the reader's, keep the types of what they share.
LEMMA NextListenerTypes == ListenerTypes /\ [Next]_vars => ListenerTypes'
<1> SUFFICES ASSUME ListenerTypes, [Next]_vars PROVE ListenerTypes'
  OBVIOUS
<1> USE DEF ListenerTypes
<1>1. ASSUME NEW c \in Calls, RefuseHeaders(c) PROVE ListenerTypes'
  BY <1>1 DEF RefuseHeaders
<1>2. ASSUME NEW c \in Calls, IgnoreHeaders(c) PROVE ListenerTypes'
  BY <1>2 DEF IgnoreHeaders
<1>3. ASSUME NEW c \in Calls, OnHeaders(c) PROVE ListenerTypes'
  BY <1>3 DEF OnHeaders, Listen
<1>4. ASSUME NEW c \in Calls, OnCancelByRemote(c) PROVE ListenerTypes'
  BY <1>4 DEF OnCancelByRemote, Listen, EndReading
<1>5. ASSUME NEW c \in Calls, NEW n \in 0..Len(wire[c]), NEW end \in BOOLEAN, OnData(c, n, end)
      PROVE  ListenerTypes'
  <2>1. /\ SubSeq(wire[c], 1, n) \in Seq(Nat)
        /\ SubSeq(wire[c], n + 1, Len(wire[c])) \in Seq(Nat)
    BY SubSeqBytes
  <2>2. Feed(decoder[c], SubSeq(wire[c], 1, n)) \in Decoders
    BY <2>1, DecoderTypes
  <2> QED
    BY <1>5, <2>1, <2>2 DEF OnData, Listen
<1>6. ASSUME NEW c \in Calls, DecodeHeader(c) PROVE ListenerTypes'
  <2>1. ProcessHeader(decoder[c]) \in Decoders
    BY <1>6, DecoderTypes DEF DecodeHeader
  <2> QED
    BY <1>6, <2>1 DEF DecodeHeader, Listen
<1>7. ASSUME NEW c \in Calls, OnMessage(c) PROVE ListenerTypes'
  <2> DEFINE payload == Cut(decoder[c])
  <2>1. ProcessPayload(decoder[c]) \in Decoders /\ payload \in Item
    BY <1>7, DecoderTypes DEF OnMessage, AtPayload, Item
  <2>2. ~Full(c) => /\ Append(storage[c], payload) \in Seq(Item)
                    /\ Len(Append(storage[c], payload)) <= QueueSize
    BY <2>1, ServerCallAssumption DEF Full
  <2> QED
    BY <1>7, <2>1, <2>2 DEF OnMessage, Listen
<1>8. ASSUME NEW c \in Calls, DecodeEnds(c) PROVE ListenerTypes'
  BY <1>8 DEF DecodeEnds, Listen, EndReading
<1>9. ASSUME NEW c \in Calls, PutEof(c) PROVE ListenerTypes'
  <2>1. ~Full(c) => /\ Append(storage[c], EOF) \in Seq(Item)
                    /\ Len(Append(storage[c], EOF)) <= QueueSize
    BY ServerCallAssumption DEF Full, Item
  <2> QED
    BY <1>9, <2>1 DEF PutEof, Listen
<1>10. ASSUME NEW c \in Calls, Get(c) PROVE ListenerTypes'
  <2>1. Tail(storage[c]) \in Seq(Item) /\ Len(Tail(storage[c])) <= QueueSize
    BY <1>10, ServerCallAssumption DEF Get
  <2> QED
    BY <1>10, <2>1 DEF Get, Got, listenerVars
<1>11. ASSUME NEW c \in Calls, Read(c) PROVE ListenerTypes'
  BY <1>11 DEF Read, Got, listenerVars
<1>12. ASSUME NEW c \in Calls, UserCode(c) \/ WriteResult(c) \/ FinishResult(c) \/ HandleException(c)
       PROVE  ListenerTypes'
  <2>1. UNCHANGED <<listenerVars, storage, readDone>>
    BY <1>12 DEF UserCode, UserReads, UserWrites, UserCompletes, UserRaises, UserReturns,
                 IterationEnds, WriteResult, FinishResult, HandleException
  <2> QED
    BY <2>1 DEF listenerVars
<1>13. CASE Start
  BY <1>13 DEF Start, listenerVars
<1>14. CASE UNCHANGED vars
  BY <1>14 DEF vars, listenerVars
<1> QED
  BY <1>1, <1>2, <1>3, <1>4, <1>5, <1>6, <1>7, <1>8, <1>9, <1>10, <1>11, <1>12, <1>13, <1>14
  DEF Next, Listener, Runner

\* The steps of the method runner keep their types.
LEMMA NextMethodTypes == MethodTypes /\ [Next]_vars => MethodTypes'
<1> SUFFICES ASSUME MethodTypes, [Next]_vars PROVE MethodTypes'
  OBVIOUS
<1> USE DEF MethodTypes
<1>1. ASSUME NEW c \in Calls PROVE ops[c] \o Headers(c) \in Seq(Op)
  <2>1. <<>> \in Seq(Op) /\ <<"headers">> \in Seq(Op)
    BY DEF Op
  <2> QED
    BY <2>1 DEF Headers
<1>2. ASSUME NEW c \in Calls
      PROVE  /\ ops[c] \o Headers(c) \o <<"data">> \in Seq(Op)
             /\ Append(ops[c], "trailers") \in Seq(Op)
  BY <1>1 DEF Op
<1>3. ASSUME NEW c \in Calls, RefuseHeaders(c) PROVE MethodTypes'
  BY <1>3 DEF RefuseHeaders, Op
<1>4. ASSUME NEW c \in Calls, OnHeaders(c) PROVE MethodTypes'
  BY <1>4 DEF OnHeaders, Place
<1>5. ASSUME NEW c \in Calls, Read(c) \/ Get(c) PROVE MethodTypes'
  BY <1>5 DEF Read, Get, Got, Goto, Place
<1>6. ASSUME NEW c \in Calls, UserCode(c) PROVE MethodTypes'
  <2>1. CASE UserReads(c)
    BY <2>1 DEF UserReads, InUserCode, Goto, Place
  <2>2. CASE UserWrites(c)
    BY <1>1, <1>2, <2>2 DEF UserWrites, WriteMessage, WriteRaises, Goto, Place
  <2>3. CASE UserCompletes(c)
    BY <1>2, <2>3 DEF UserCompletes, Complete, Goto, Place
  <2>4. CASE UserRaises(c) \/ UserReturns(c) \/ IterationEnds(c)
    BY <2>4 DEF UserRaises, UserReturns, IterationEnds, Goto, Place
  <2> QED
    BY <1>6, <2>1, <2>2, <2>3, <2>4 DEF UserCode
<1>7. ASSUME NEW c \in Calls, WriteResult(c) PROVE MethodTypes'
  BY <1>1, <1>2, <1>7 DEF WriteResult, WriteMessage, WriteRaises, Goto, Place
<1>8. ASSUME NEW c \in Calls, FinishResult(c) \/ HandleException(c) PROVE MethodTypes'
  BY <1>2, <1>8 DEF FinishResult, HandleException, Complete, Goto, Place
<1>9. CASE Start
  BY <1>9 DEF Start, Goto, Place
<1>10. ASSUME UNCHANGED methodVars PROVE MethodTypes'
  BY <1>10 DEF methodVars
<1>11. ASSUME NEW c \in Calls,
              \/ IgnoreHeaders(c) \/ OnCancelByRemote(c) \/ Listener(c)
              \/ \E n \in 0..Len(wire[c]), end \in BOOLEAN : OnData(c, n, end)
       PROVE  UNCHANGED methodVars
  BY <1>11 DEF IgnoreHeaders, OnCancelByRemote, OnData, Listener, DecodeHeader, OnMessage,
               DecodeEnds, PutEof
<1> QED
  BY <1>3, <1>4, <1>5, <1>6, <1>7, <1>8, <1>9, <1>10, <1>11 DEF Next, Runner, vars
Typed == ListenerTypes /\ MethodTypes

\* The types are an invariant.
LEMMA TypesHold == Spec => []Typed
<1>1. Init => Typed
  BY InitTypes DEF Typed
<1>2. Typed /\ [Next]_vars => Typed'
  BY NextListenerTypes, NextMethodTypes DEF Typed
<1> QED
  BY <1>1, <1>2, PTL DEF Spec

\* Every reachable state is well typed: in particular no read stream exceeds its
\* queue, whatever the request and however it is cut.
THEOREM TypeCorrect == Spec => []TypeOK
<1>1. ASSUME NEW s \in Seq(Op) PROVE ToSet(s) \subseteq Op
  BY DEF ToSet
<1>2. Typed => TypeOK
  BY <1>1 DEF Typed, ListenerTypes, MethodTypes, TypeOK, Place, Op
<1> QED
  BY <1>2, TypesHold, PTL

----------------------------------------------------------------------------
(* A reader is woken *)

\* What makes EndIsSeen inductive: the flag is set before the listener is done,
\* so a reader that still goes to wait has something to take.
EndFlagged == \A c \in Calls : listener[c] \in {"ends", "done"} => readDone[c]

Reading == EndFlagged /\ EndIsSeen

\* Every step keeps what wakes a reader.
LEMMA NextReading == Typed /\ Reading /\ [Next]_vars => Reading'
<1> SUFFICES ASSUME Typed, Reading, [Next]_vars PROVE Reading'
  OBVIOUS
<1> USE DEF Reading, EndFlagged, EndIsSeen
<1>T. /\ listener \in [Calls -> {"none", "idle", "decoding", "ends", "failed", "done"}]
      /\ readDone \in [Calls -> BOOLEAN]
      /\ storage \in [Calls -> Seq(Item)]
      /\ method \in [Calls -> Place] /\ resume \in [Calls -> {"func", "iterate"}]
  BY DEF Typed, ListenerTypes, MethodTypes
<1>1. ASSUME NEW c \in Calls, RefuseHeaders(c) \/ IgnoreHeaders(c) PROVE Reading'
  BY <1>1 DEF RefuseHeaders, IgnoreHeaders, methodVars
<1>2. ASSUME NEW c \in Calls, OnHeaders(c) PROVE Reading'
  BY <1>T, <1>2 DEF OnHeaders, Listen
<1>3. ASSUME NEW c \in Calls, OnCancelByRemote(c) \/ DecodeEnds(c) PROVE Reading'
  BY <1>T, <1>3 DEF OnCancelByRemote, DecodeEnds, Listen, EndReading, methodVars
<1>4. ASSUME NEW c \in Calls, NEW n, NEW end, OnData(c, n, end) PROVE Reading'
  BY <1>T, <1>4 DEF OnData, Listen, methodVars
<1>5. ASSUME NEW c \in Calls, DecodeHeader(c) PROVE Reading'
  BY <1>T, <1>5 DEF DecodeHeader, Listen, methodVars
<1>6. ASSUME NEW c \in Calls, OnMessage(c) PROVE Reading'
  BY <1>T, <1>6 DEF OnMessage, Listen, methodVars
<1>7. ASSUME NEW c \in Calls, PutEof(c) PROVE Reading'
  <2>1. Full(c) => storage[c] # <<>>
    BY <1>T, ServerCallAssumption DEF Full
  <2>2. Append(storage[c], EOF) # <<>>
    <3>1. EOF \in Item /\ storage[c] \in Seq(Item)
      BY <1>T DEF Item
    <3>2. Len(Append(storage[c], EOF)) = Len(storage[c]) + 1 /\ Len(storage[c]) \in Nat
      BY <3>1
    <3> QED
      BY <3>2
  <2>3. storage'[c] # <<>> /\ \A d \in Calls \ {c} : storage'[d] = storage[d]
    BY <1>T, <1>7, <2>1, <2>2 DEF PutEof
  <2> QED
    BY <1>T, <1>7, <2>3 DEF PutEof, Listen, methodVars
<1>8. ASSUME NEW c \in Calls, Get(c) PROVE Reading'
  BY <1>T, <1>8 DEF Get, Got, Goto, listenerVars
<1>9. ASSUME NEW c \in Calls, Read(c) PROVE Reading'
  BY <1>T, <1>9 DEF Read, Got, Goto, MayWait, listenerVars
<1>10. ASSUME NEW c \in Calls, UserCode(c) \/ WriteResult(c) \/ FinishResult(c) \/ HandleException(c)
       PROVE  Reading'
  <2>1. /\ UNCHANGED <<listenerVars, storage, readDone>>
        /\ \A d \in Calls : method'[d] = "get" => method[d] = "get"
    BY <1>T, <1>10 DEF UserCode, UserReads, UserWrites, UserCompletes, UserRaises, UserReturns,
                IterationEnds, WriteResult, FinishResult, HandleException, Goto
  <2> QED
    BY <2>1 DEF listenerVars
<1>11. CASE Start
  BY <1>T, <1>11 DEF Start, Goto, listenerVars
<1>12. CASE UNCHANGED vars
  BY <1>12 DEF vars, listenerVars, methodVars
<1> QED
  BY <1>1, <1>2, <1>3, <1>4, <1>5, <1>6, <1>7, <1>8, <1>9, <1>10, <1>11, <1>12
  DEF Next, Listener, Runner

\* A method that waits for its request is always woken: read's check and wait
\* and put_eof's flag and put interleave in any way, whether EOF fits or not.
THEOREM EndIsSeenCorrect == Spec => []EndIsSeen
<1>1. Init => Reading
  BY DEF Init, Reading, EndFlagged, EndIsSeen
<1>2. Reading => EndIsSeen
  BY DEF Reading
<1> QED
  BY <1>1, <1>2, NextReading, TypesHold, PTL DEF Spec

----------------------------------------------------------------------------
(* Answers *)

\* What makes EndedIsAnswered and AnswerWellFormed inductive: a call that is not
\* complete can be added to, and before its method runs nothing is answered.
Answer(c) ==
    /\ peer[c] = "idle" => ops[c] = <<>> /\ method[c] = "none"
    /\ method[c] = "none" => ~writeDone[c]
    /\ method[c] # "none" /\ ~writeDone[c] => Open(ops[c])
    /\ writeDone[c] => "trailers" \in ToSet(ops[c])
    /\ method[c] = "done" => writeDone[c]
    /\ WellFormed(ops[c])

\* The pool runs calls that were submitted to it.
Submitted == \A i \in DOMAIN pool : method[pool[i]] # "none"

Answering == Submitted /\ \A c \in Calls : Answer(c)

\* What one call does leaves the others alone.
Only(c) ==
    /\ pool' = pool
    /\ \A d \in Calls \ {c} : /\ peer'[d] = peer[d] /\ ops'[d] = ops[d]
                              /\ method'[d] = method[d] /\ writeDone'[d] = writeDone[d]
    /\ method[c] # "none" => method'[c] # "none"

\* For a step of one call it is enough to look at that call.
LEMMA OnlyOne ==
    ASSUME Typed, Answering, NEW c \in Calls, Only(c), Answer(c)'
    PROVE  Answering'
<1>1. \A d \in Calls : Answer(d)'
  BY DEF Only, Answering, Answer
<1>2. \A i \in DOMAIN pool : pool[i] \in Calls
  BY DEF Typed, MethodTypes
<1>3. Submitted'
  BY <1>2 DEF Only, Answering, Submitted
<1> QED
  BY <1>1, <1>3 DEF Answering

\* Writing, failing to write, and completing an answer that is still open.
LEMMA Writes ==
    ASSUME Typed, NEW c \in Calls, Open(ops[c])
    PROVE  /\ WriteMessage(c) => Open(ops'[c]) /\ WellFormed(ops'[c])
           /\ WriteRaises(c) => Open(ops'[c]) /\ WellFormed(ops'[c])
           /\ Complete(c) => WellFormed(ops'[c]) /\ "trailers" \in ToSet(ops'[c])
<1> DEFINE s == ops[c]
<1>1. ops \in [Calls -> Seq(Op)] /\ s \in Seq(Op)
  BY DEF Typed, MethodTypes
<1>2. Headers(c) = First(s)
  BY DEF Headers, First
<1>3. /\ s \o First(s) \in Seq(Op) /\ s \o First(s) # <<>> /\ Open(s \o First(s))
      /\ WellFormed(s \o First(s))
  BY <1>1, HeadersFirst, OpenWellFormed
<1>4. Open(s \o First(s) \o <<"data">>) /\ WellFormed(s \o First(s) \o <<"data">>)
  BY <1>3, DataAfter, OpenWellFormed
<1>5. WriteMessage(c) => ops'[c] = s \o First(s) \o <<"data">>
  BY <1>1, <1>2 DEF WriteMessage
<1>6. WriteRaises(c) => ops'[c] \in {s, s \o First(s)}
  BY <1>1, <1>2 DEF WriteRaises
<1>7. Complete(c) => ops'[c] = Append(s, "trailers")
  BY <1>1 DEF Complete
<1> QED
  BY <1>1, <1>3, <1>4, <1>5, <1>6, <1>7, OpenWellFormed, TrailersLast

\* Every step of a listener, a method or the pool keeps the answers in form.
LEMMA NextAnswering == Typed /\ Answering /\ [Next]_vars => Answering'
<1> SUFFICES ASSUME Typed, Answering, [Next]_vars PROVE Answering'
  OBVIOUS
<1>T. /\ pool \in Seq(Calls) /\ method \in [Calls -> Place]
      /\ resume \in [Calls -> {"func", "iterate"}]
      /\ writeDone \in [Calls -> BOOLEAN] /\ ops \in [Calls -> Seq(Op)]
      /\ peer \in [Calls -> {"idle", "open", "ended", "reset"}]
  BY DEF Typed, ListenerTypes, MethodTypes
<1>A. \A c \in Calls : Answer(c)
  BY DEF Answering
<1>1. ASSUME NEW c \in Calls, RefuseHeaders(c) PROVE Answering'
  <2>1. Only(c) /\ ops'[c] = <<"trailers">> /\ peer'[c] # "idle"
        /\ method'[c] = "none" /\ ~writeDone'[c]
    BY <1>T, <1>A, <1>1 DEF RefuseHeaders, Only, Answer
  <2>2. WellFormed(<<"trailers">>)
    BY DEF WellFormed
  <2>3. Answer(c)'
    BY <2>1, <2>2 DEF Answer
  <2> QED
    BY <2>1, <2>3, OnlyOne
<1>2. ASSUME NEW c \in Calls,
             UNCHANGED methodVars, \A d \in Calls : peer'[d] = "idle" => peer[d] = "idle"
      PROVE  Answering'
  BY <1>2 DEF methodVars, Answering, Answer, Submitted
<1>3. ASSUME NEW c \in Calls,
             \/ IgnoreHeaders(c) \/ OnCancelByRemote(c) \/ Listener(c)
             \/ \E n \in 0..Len(wire[c]), end \in BOOLEAN : OnData(c, n, end)
      PROVE  Answering'
  <2>1. UNCHANGED methodVars /\ \A d \in Calls : peer'[d] = "idle" => peer[d] = "idle"
    BY <1>T, <1>3 DEF IgnoreHeaders, OnCancelByRemote, OnData, Listener, DecodeHeader,
                      OnMessage, DecodeEnds, PutEof
  <2> QED
    BY <1>2, <2>1
<1>4. ASSUME NEW c \in Calls, OnHeaders(c) PROVE Answering'
  <2>1. /\ \A d \in Calls \ {c} : /\ peer'[d] = peer[d] /\ ops'[d] = ops[d]
                                  /\ method'[d] = method[d] /\ writeDone'[d] = writeDone[d]
        /\ peer'[c] # "idle" /\ method'[c] = "queued" /\ ops'[c] = <<>>
        /\ writeDone'[c] = writeDone[c] /\ ~writeDone[c]
    BY <1>T, <1>A, <1>4 DEF OnHeaders, Answer
  <2>2. Open(<<>>) /\ WellFormed(<<>>)
    BY DEF Open, WellFormed
  <2>3. \A d \in Calls : Answer(d)'
    BY <1>A, <2>1, <2>2 DEF Answer
  <2>4. /\ DOMAIN pool' = 1..(Len(pool) + 1) /\ DOMAIN pool = 1..Len(pool)
        /\ \A i \in DOMAIN pool : pool'[i] = pool[i] /\ pool[i] \in Calls
        /\ pool'[Len(pool) + 1] = c /\ Len(pool) \in Nat
    BY <1>T, <1>4 DEF OnHeaders
  <2>5. Submitted'
    BY <2>1, <2>4 DEF Answering, Submitted
  <2> QED
    BY <2>3, <2>5 DEF Answering
<1>5. CASE Start
  <2> DEFINE c == Head(pool)
  <2>1. /\ c \in Calls /\ c = pool[1] /\ 1 \in DOMAIN pool
        /\ \A i \in DOMAIN pool' : /\ pool'[i] = pool[i + 1] /\ i + 1 \in DOMAIN pool
                                   /\ pool[i + 1] \in Calls
    BY <1>T, <1>5 DEF Start
  <2>2. /\ UNCHANGED <<peer, ops, writeDone>>
        /\ \A d \in Calls \ {c} : method'[d] = method[d]
        /\ method'[c] \in {"func", "read"} /\ method[c] # "none"
    BY <1>T, <1>5, <2>1 DEF Start, Goto, listenerVars, Answering, Submitted
  <2>3. \A d \in Calls : Answer(d)'
    BY <1>A, <2>1, <2>2 DEF Answer
  <2>4. Submitted'
    BY <2>1, <2>2 DEF Answering, Submitted
  <2> QED
    BY <2>3, <2>4 DEF Answering
<1>6. ASSUME NEW c \in Calls, method[c] # "none", method' \in [Calls -> Place],
             \A d \in Calls \ {c} : method'[d] = method[d],
             method'[c] \notin {"none", "done"}, UNCHANGED <<peer, pool, ops, writeDone>>
      PROVE  Answering'
  <2>1. Only(c) /\ Answer(c)'
    BY <1>A, <1>6 DEF Only, Answer
  <2> QED
    BY <2>1, OnlyOne
<1>7. ASSUME NEW c \in Calls,
             Read(c) \/ Get(c) \/ UserReads(c) \/ UserRaises(c) \/ IterationEnds(c)
      PROVE  Answering'
  <2>1. /\ method[c] # "none" /\ UNCHANGED <<peer, pool, ops, writeDone>>
        /\ \E place \in {resume[c], "read", "get", "error", "finish"} : Goto(c, place)
    <3>1. CASE Read(c) \/ Get(c)
      BY <3>1 DEF Read, Get, Got, listenerVars
    <3>2. CASE UserReads(c) \/ UserRaises(c) \/ IterationEnds(c)
      BY <3>2 DEF UserReads, UserRaises, IterationEnds, InUserCode, listenerVars
    <3> QED
      BY <1>7, <3>1, <3>2
  <2>2. /\ method' \in [Calls -> Place] /\ method'[c] \notin {"none", "done"}
        /\ \A d \in Calls \ {c} : method'[d] = method[d]
    <3>1. PICK place \in {resume[c], "read", "get", "error", "finish"} : Goto(c, place)
      BY <2>1
    <3>2. place \in Place \ {"none", "done"}
      BY <1>T, <3>1 DEF Place
    <3>3. method' = [method EXCEPT ![c] = place] /\ method \in [Calls -> Place]
      BY <1>T, <3>1 DEF Goto
    <3> QED
      BY <3>2, <3>3
  <2> QED
    BY <1>6, <2>1, <2>2
<1>8. ASSUME NEW c \in Calls, UserWrites(c) \/ WriteResult(c) PROVE Answering'
  <2>1. /\ method[c] # "none" /\ method'[c] \notin {"none", "done"}
        /\ WriteMessage(c) \/ WriteRaises(c)
        /\ peer' = peer /\ pool' = pool
        /\ \A d \in Calls \ {c} : method'[d] = method[d]
    BY <1>T, <1>8 DEF UserWrites, WriteResult, InUserCode, Goto, listenerVars
  <2>2. writeDone' = writeDone /\ \A d \in Calls \ {c} : ops'[d] = ops[d]
    BY <1>T, <2>1 DEF WriteMessage, WriteRaises
  <2>3. CASE writeDone[c]
    <3>1. ops' = ops
      BY <2>1, <2>3 DEF WriteMessage, WriteRaises
    <3> QED
      BY <1>A, <2>1, <2>2, <3>1, OnlyOne DEF Only, Answer
  <2>4. CASE ~writeDone[c]
    <3>1. Open(ops'[c]) /\ WellFormed(ops'[c])
      BY <1>A, <2>1, <2>4, Writes DEF Answer
    <3>2. Answer(c)'
      BY <1>A, <2>1, <2>2, <2>4, <3>1 DEF Answer
    <3> QED
      BY <2>1, <2>2, <3>2, OnlyOne DEF Only
  <2> QED
    BY <2>3, <2>4
<1>9. ASSUME NEW c \in Calls, method[c] \notin {"none", "done"}, ~writeDone[c], Complete(c),
             UNCHANGED <<peer, pool>>, \A d \in Calls \ {c} : method'[d] = method[d],
             method'[c] # "none"
      PROVE  Answering'
  <2>1. WellFormed(ops'[c]) /\ "trailers" \in ToSet(ops'[c])
    BY <1>A, <1>9, Writes DEF Answer
  <2>2. writeDone'[c] /\ \A d \in Calls \ {c} : ops'[d] = ops[d] /\ writeDone'[d] = writeDone[d]
    BY <1>T, <1>9 DEF Complete
  <2>3. Only(c) /\ Answer(c)'
    BY <1>A, <1>9, <2>1, <2>2 DEF Only, Answer
  <2> QED
    BY <2>3, OnlyOne
<1>10. ASSUME NEW c \in Calls, UserCompletes(c) \/ FinishResult(c) \/ HandleException(c)
       PROVE  Answering'
  <2>1. /\ method[c] \notin {"none", "done"} /\ method'[c] # "none" /\ UNCHANGED <<peer, pool>>
        /\ \A d \in Calls \ {c} : method'[d] = method[d]
    BY <1>T, <1>10 DEF UserCompletes, FinishResult, HandleException, InUserCode, Goto, listenerVars
  <2>2. \/ ~writeDone[c] /\ Complete(c)
        \/ writeDone[c] /\ UNCHANGED <<ops, writeDone>>
    BY <1>10 DEF UserCompletes, FinishResult, HandleException, MayAnswerError
  <2>3. CASE writeDone[c] /\ UNCHANGED <<ops, writeDone>>
    BY <1>A, <2>1, <2>3, OnlyOne DEF Only, Answer
  <2> QED
    BY <1>9, <2>1, <2>2, <2>3
<1>11. ASSUME NEW c \in Calls, UserReturns(c) PROVE Answering'
  <2>1. /\ method[c] \notin {"none", "done"} /\ method'[c] # "none"
        /\ method'[c] = "done" => writeDone[c]
        /\ \A d \in Calls \ {c} : method'[d] = method[d]
        /\ UNCHANGED <<peer, pool, ops, writeDone>>
    BY <1>T, <1>11 DEF UserReturns, NothingToWrite, Goto, listenerVars
  <2>2. Only(c) /\ Answer(c)'
    BY <1>A, <2>1 DEF Only, Answer
  <2> QED
    BY <2>2, OnlyOne
<1>12. CASE UNCHANGED vars
  BY <1>12 DEF vars, listenerVars, methodVars, Answering, Answer, Submitted
<1> QED
  BY <1>1, <1>3, <1>4, <1>5, <1>7, <1>8, <1>10, <1>11, <1>12 DEF Next, UserCode, Runner

\* The form of the answers is an invariant.
LEMMA AnsweringHolds == Spec => []Answering
<1>1. Init => Answering
  BY DEF Init, Answering, Answer, Submitted, Open, WellFormed
<1> QED
  BY <1>1, NextAnswering, TypesHold, PTL DEF Spec

\* A method that ran to its end, returning or raising, before or after it wrote
\* or completed anything itself, has left trailers on its stream.
THEOREM EndedIsAnsweredCorrect == Spec => []EndedIsAnswered
<1>1. Answering => EndedIsAnswered
  BY DEF Answering, Answer, EndedIsAnswered
<1> QED
  BY <1>1, AnsweringHolds, PTL

\* Headers first and once, trailers last and once: no method, and no exception,
\* makes the stream's sending side refuse what it is given.
THEOREM AnswerWellFormedCorrect == Spec => []AnswerWellFormed
<1>1. Answering => AnswerWellFormed
  BY DEF Answering, Answer, WellFormed, AnswerWellFormed
<1> QED
  BY <1>1, AnsweringHolds, PTL

----------------------------------------------------------------------------
(* The decoder follows the request *)

Decoding(m, w, d, g, k) ==
    /\ g = Taken(m, k)
    /\ \/ d.state = "HEADER" /\ Left(m, k, d.accumulate \o w)
       \/ /\ d.state = "PAYLOAD" /\ k < Len(m) /\ d.required = Len(m[k + 1].payload)
          /\ Left(m, k, HeaderOf(m[k + 1]) \o (d.accumulate \o w))

LEMMA Feeding ==
    ASSUME NEW m, NEW w \in Seq(Nat), NEW d \in Decoders, NEW g, NEW k, Decoding(m, w, d, g, k),
           NEW n \in 0..Len(w)
    PROVE  Decoding(m, SubSeq(w, n + 1, Len(w)), Feed(d, SubSeq(w, 1, n)), g, k)
<1> DEFINE s == SubSeq(w, 1, n)
           t == SubSeq(w, n + 1, Len(w))
           a == d.accumulate
<1>1. a \in Seq(Nat) /\ s \in Seq(Nat) /\ t \in Seq(Nat)
  BY SubSeqBytes DEF Decoders
<1>2. s \o t = w
  <2>1. 1 \in 1..Len(w) + 1 /\ n \in 1 - 1..Len(w) /\ Len(w) \in n..Len(w)
    OBVIOUS
  <2>2. SubSeq(w, 1, n) \o SubSeq(w, n + 1, Len(w)) = SubSeq(w, 1, Len(w))
    BY <2>1, ConcatAdjacentSubSeq, Zenon
  <2> QED
    BY <2>2, SubSeqFull, Zenon
<1>3. Feed(d, s).state = d.state /\ Feed(d, s).required = d.required /\ Feed(d, s).accumulate = a \o s
  BY DEF Feed, Decoders
<1> HIDE DEF s, t, a
<1>4. Regrouped(a, s, t)
  BY <1>1, Associative, Zenon
<1>5. Feed(d, s).accumulate \o t = d.accumulate \o w
  BY <1>2, <1>3, <1>4, Zenon DEF a, Regrouped
<1>6. Decoding(m, t, Feed(d, s), g, k)
  BY <1>3, <1>5, Zenon DEF Decoding
<1> QED
  BY <1>6 DEF s, t

\* The header that is decoded is that of the next message.
LEMMA HeaderDecoded ==
    ASSUME NEW m \in Seq(Message), NEW w \in Seq(Nat), NEW d \in Decoders, NEW g, NEW k \in 0..Len(m),
           Decoding(m, w, d, g, k), AtHeader(d)
    PROVE  Decoding(m, w, ProcessHeader(d), g, k)
<1> DEFINE a == d.accumulate
           b == a \o w
           h == HeaderOf(m[k + 1])
           p == m[k + 1].payload
<1>1. /\ a \in Seq(Nat) /\ b \in Seq(Nat) /\ Len(b) >= 2 /\ Len(a) >= 2
      /\ d.required = 2 /\ d.state = "HEADER" /\ g = Taken(m, k)
  BY DEF Decoders, AtHeader, HasEnoughBytes, HEADER_LENGTH, Decoding
<1>2. Left(m, k, b)
  BY <1>1 DEF Decoding
<1> HIDE DEF b
<1>3. k < Len(m) /\ k + 1 \in 1..Len(m)
  <2>1. b # <<>>
    BY <1>1
  <2>2. k # Len(m)
    BY <1>1, <1>2, <2>1, NextMessage
  <2> QED
    BY <2>2
<1>4. PICK rest \in Seq(Nat) : Joint(b, Encoded(m)[k + 1], rest)
  BY <1>1, <1>2, <1>3, NextMessage
<1>5. h \in Seq(Nat) /\ p \in Seq(Nat)
  BY <1>3, RequestTypes
<1>6. Encoded(m)[k + 1] = h \o p
  BY <1>3, RequestTypes
<1>7. Len(h) = 2 /\ h[2] = Len(p)
  BY DEF HeaderOf
<1> HIDE DEF h, p, a
<1>8. p \o rest \in Seq(Nat) /\ b = h \o (p \o rest)
  <2>1. Regrouped(h, p, rest)
    BY <1>5, Associative, Zenon
  <2>2. p \o rest \in Seq(Nat)
    BY <1>5, ConcatProperties
  <2> QED
    BY <1>4, <1>6, <2>1, <2>2, Zenon DEF Joint, Regrouped
<1> DEFINE last == SubSeq(a, Len(h) + 1, Len(a))
           then == p \o rest
<1>9. last \in Seq(Nat) /\ Cuts(a, w, h, then)
  <2>1. Len(h) <= Len(a) /\ then \in Seq(Nat)
    BY <1>1, <1>7, <1>8
  <2> HIDE DEF then
  <2> QED
    BY <1>1, <1>5, <2>1, CutOff
<1>10. SubSeq(a, 1, Len(h)) = h /\ last \o w = p \o rest
  BY <1>8, <1>9, Zenon DEF Cuts, b, a
<1>11. Cut(d) = h /\ Rest(d) = last
  BY <1>1, <1>7, <1>10 DEF Cut, Rest, a
<1>12. /\ ProcessHeader(d).state = "PAYLOAD" /\ ProcessHeader(d).required = Len(p)
       /\ ProcessHeader(d).accumulate = last
  BY <1>7, <1>11 DEF ProcessHeader, HEADER_LENGTH
<1>13. Left(m, k, h \o (last \o w))
  BY <1>2, <1>8, <1>10, Zenon
<1> QED
  BY <1>1, <1>3, <1>12, <1>13, Zenon DEF Decoding, h, p

\* The payload that is decoded is that of the next message.
LEMMA PayloadDecoded ==
    ASSUME NEW m \in Seq(Message), NEW w \in Seq(Nat), NEW d \in Decoders, NEW g, NEW k \in 0..Len(m),
           Decoding(m, w, d, g, k), AtPayload(d)
    PROVE  /\ k + 1 \in 0..Len(m) /\ Cut(d) = m[k + 1].payload
           /\ Taken(m, k + 1) = IF Cut(d) = <<>> THEN g ELSE Append(g, Cut(d))
           /\ Decoding(m, w, ProcessPayload(d), Taken(m, k + 1), k + 1)
<1> DEFINE a == d.accumulate
           b == a \o w
           h == HeaderOf(m[k + 1])
           p == m[k + 1].payload
           all == h \o b
<1>1. /\ a \in Seq(Nat) /\ b \in Seq(Nat) /\ Len(a) >= d.required /\ d.state = "PAYLOAD"
      /\ k < Len(m) /\ d.required = Len(p) /\ g = Taken(m, k)
  BY DEF Decoders, AtPayload, HasEnoughBytes, Decoding
<1>2. Left(m, k, all)
  BY <1>1, Zenon DEF Decoding
<1>3. k + 1 \in 1..Len(m)
  BY <1>1
<1>4. h \in Seq(Nat) /\ p \in Seq(Nat)
  BY <1>3, RequestTypes
<1>5. Encoded(m)[k + 1] = h \o p
  BY <1>3, RequestTypes
<1> HIDE DEF h, p, b
<1>6. all \in Seq(Nat)
  BY <1>1, <1>4, ConcatProperties
<1> HIDE DEF all
<1>7. PICK rest \in Seq(Nat) : Joint(all, Encoded(m)[k + 1], rest) /\ Left(m, k + 1, rest)
  BY <1>1, <1>2, <1>6, NextMessage
<1>8. Cancels(h, p, rest, b)
  BY <1>1, <1>4, CancelFirst
<1>9. p \o rest = b
  BY <1>5, <1>7, <1>8, Zenon DEF Cancels, all, Joint
<1> HIDE DEF a
<1> DEFINE last == SubSeq(a, Len(p) + 1, Len(a))
<1>10. last \in Seq(Nat) /\ Cuts(a, w, p, rest)
  BY <1>1, <1>4, CutOff
<1>11. SubSeq(a, 1, Len(p)) = p /\ last \o w = rest
  BY <1>9, <1>10, Zenon DEF Cuts, b
<1>12. Cut(d) = p /\ Rest(d) = last
  BY <1>1, <1>11 DEF Cut, Rest, a
<1>13. ProcessPayload(d).state = "HEADER" /\ ProcessPayload(d).accumulate = last
  BY <1>12 DEF ProcessPayload
<1>14. Decoding(m, w, ProcessPayload(d), Taken(m, k + 1), k + 1)
  BY <1>7, <1>11, <1>13, Zenon DEF Decoding
<1>15. Taken(m, k + 1) = IF p = <<>> THEN g ELSE Append(g, p)
  BY <1>1, TakenNext DEF p
<1> QED
  BY <1>3, <1>12, <1>14, <1>15 DEF p

\* When the bytes end where the decoder asks for more, all messages were taken.
LEMMA AllDecoded ==
    ASSUME NEW m \in Seq(Message), NEW d \in Decoders, NEW g, NEW k \in 0..Len(m),
           Decoding(m, <<>>, d, g, k), ~HasEnoughBytes(d)
    PROVE  g = Wanted(m)
<1> DEFINE a == d.accumulate
           h == HeaderOf(m[k + 1])
           p == m[k + 1].payload
<1>1. /\ a \in Seq(Nat) /\ Len(a) \in Nat /\ Len(a) < d.required /\ d.required \in Nat
      /\ g = Taken(m, k) /\ Len(m) \in Nat
      /\ d.state = "HEADER" => d.required = 2
  BY DEF Decoders, HasEnoughBytes, Decoding, HEADER_LENGTH
<1>2. a \o <<>> = a
  BY <1>1, ConcatEmptySeq
<1>3. \/ d.state = "HEADER" /\ Left(m, k, a)
      \/ k < Len(m) /\ d.required = Len(p) /\ Left(m, k, h \o a)
  BY <1>2, Zenon DEF Decoding
<1>4. ASSUME k < Len(m)
      PROVE  /\ h \in Seq(Nat) /\ p \in Seq(Nat) /\ Encoded(m)[k + 1] = h \o p /\ Len(h) = 2
  <2>1. k + 1 \in 1..Len(m)
    BY <1>1, <1>4
  <2>2. Len(h) = 2
    BY DEF HeaderOf
  <2> QED
    BY <2>1, <2>2, RequestTypes
<1> HIDE DEF a, h, p
<1>5. k = Len(m)
  <2> SUFFICES ASSUME k < Len(m) PROVE FALSE
    BY <1>1
  <2>1. CASE d.state = "HEADER" /\ Left(m, k, a)
    <3>1. PICK rest \in Seq(Nat) : Joint(a, Encoded(m)[k + 1], rest)
      BY <1>1, <2>1, NextMessage
    <3>4. a = (h \o p) \o rest
      BY <1>4, <3>1, Zenon DEF Joint
    <3>2. Len((h \o p) \o rest) = Len(h) + Len(p) + Len(rest)
      BY <1>4
    <3>3. Len(p) \in Nat /\ Len(rest) \in Nat
      BY <1>4
    <3>5. Len(a) = Len(h) + Len(p) + Len(rest)
      BY <3>2, <3>4, Zenon
    <3>6. Len(a) >= Len(h)
      BY <3>3, <3>5, <1>4
    <3>7. d.required = 2 /\ Len(h) = 2
      BY <1>1, <1>4, <2>1, Zenon
    <3> QED
      BY <1>1, <3>6, <3>7
  <2>2. CASE d.required = Len(p) /\ Left(m, k, h \o a)
    <3> DEFINE b == h \o a
    <3>1. b \in Seq(Nat) /\ Left(m, k, b)
      BY <1>1, <1>4, <2>2, ConcatProperties
    <3> HIDE DEF b
    <3>2. PICK rest \in Seq(Nat) : Joint(b, Encoded(m)[k + 1], rest)
      BY <3>1, NextMessage
    <3>3. Cancels(h, p, rest, a)
      BY <1>1, <1>4, CancelFirst
    <3>4. p \o rest = a
      BY <1>4, <3>2, <3>3, Zenon DEF Cancels, b, Joint
    <3>5. Len(p \o rest) = Len(p) + Len(rest) /\ Len(p) \in Nat /\ Len(rest) \in Nat
      BY <1>4
    <3>6. Len(a) >= Len(p)
      BY <3>4, <3>5
    <3> QED
      BY <1>1, <2>2, <3>6
  <2> QED
    BY <1>3, <2>1, <2>2
<1> QED
  BY <1>1, <1>5, TakenNext

----------------------------------------------------------------------------
(* A method is given the messages of its request *)

Follows(m, w, p, l, e, d, g) ==
    /\ IsPrefix(g, Wanted(m))
    /\ p = "idle" => l = "none"
    /\ l \in {"none", "idle", "decoding"} => \E k \in 0..Len(m) : Decoding(m, w, d, g, k)
    /\ l \in {"ends", "done"} => p = "reset" \/ (p = "ended" /\ (w # <<>> \/ g = Wanted(m)))
    /\ l = "decoding" /\ e => p = "ended"

\* The end is put last, and read last.
EofLast(l, flag, s, r) ==
    /\ flag <=> l \in {"ends", "done"}
    /\ l # "done" => \A i \in DOMAIN s : s[i] # EOF
    /\ ~flag => \A i \in DOMAIN r : r[i] # EOF
    /\ \A i \in DOMAIN s : s[i] = EOF => i = Len(s)
    /\ \A i \in DOMAIN r : r[i] = EOF => /\ \A j \in DOMAIN r : j >= i => r[j] = EOF
                                         /\ \A j \in DOMAIN s : s[j] = EOF

FollowsAt(c) ==
    Follows(request[c], wire[c], peer[c], listener[c], ending[c], decoder[c], Given(c))

EofLastAt(c) == EofLast(listener[c], readDone[c], storage[c], reads[c])

Following ==
    /\ reads \in [Calls -> Seq(Item)]
    /\ \A c \in Calls : FollowsAt(c) /\ EofLastAt(c)

\* A payload is not the end.
LEMMA EofIsNoMessage == /\ EOF \in Item /\ EOF \notin Seq(Nat) /\ Seq(Nat) \subseteq Item
<1>1. EOF \in Item /\ Seq(Nat) \subseteq Item
  BY DEF Item
<1>2. EOF[1] = -1 /\ Len(EOF) = 1
  BY DEF EOF
<1>3. ASSUME NEW s \in Seq(Nat), Len(s) = 1 PROVE s[1] \in Nat
  <2>1. 1 \in 1..Len(s)
    BY <1>3
  <2> QED
    BY <2>1, ElementOfSeq
<1> QED
  BY <1>1, <1>2, <1>3

\* What was given, when something is put at the end, moved from the queue to the
\* method, or read after the end.
LEMMA GivenThen ==
    ASSUME NEW r \in Seq(Item), NEW s \in Seq(Item), NEW x \in Item
    PROVE  /\ x = EOF => Without(r \o Append(s, x), EOF) = Without(r \o s, EOF)
           /\ x # EOF => Without(r \o Append(s, x), EOF) = Append(Without(r \o s, EOF), x)
           /\ s # <<>> => Append(r, Head(s)) \o Tail(s) = r \o s
           /\ s = <<>> => Without(Append(r, EOF) \o s, EOF) = Without(r \o s, EOF)
<1> DEFINE u == r \o s
<1>1. u \in Seq(Item)
  BY ConcatProperties
<1>2. r \o Append(s, x) = Append(u, x)
  OBVIOUS
<1>3. ASSUME s # <<>> PROVE Append(r, Head(s)) \o Tail(s) = r \o s
  BY <1>3
<1>4. ASSUME s = <<>> PROVE Append(r, EOF) \o s = Append(u, EOF)
  <2>1. u = r
    BY <1>4, ConcatEmptySeq
  <2>2. Append(r, EOF) \in Seq(Item)
    BY EofIsNoMessage
  <2>3. Append(r, EOF) \o <<>> = Append(r, EOF)
    BY <2>2, ConcatEmptySeq
  <2> QED
    BY <1>4, <2>1, <2>3
<1> HIDE DEF u
<1>5. /\ x = EOF => Without(Append(u, x), EOF) = Without(u, EOF)
      /\ x # EOF => Without(Append(u, x), EOF) = Append(Without(u, EOF), x)
      /\ Without(Append(u, EOF), EOF) = Without(u, EOF)
  BY <1>1, EofIsNoMessage, WithoutAppend
<1> QED
  BY <1>2, <1>3, <1>4, <1>5, Zenon DEF u

\* Before anything is sent.
LEMMA Begins ==
    ASSUME NEW m \in Seq(Message)
    PROVE  Follows(m, Bytes(m), "idle", "none", FALSE, NewDecoder, <<>>)
<1>1. 0 \in 0..Len(m) /\ Taken(m, 0) = <<>> /\ IsPrefix(Taken(m, 0), Wanted(m))
  <2>1. 0 \in 0..Len(m)
    BY RequestTypes
  <2> QED
    BY <2>1, TakenNext
<1>2. Decoding(m, Bytes(m), NewDecoder, <<>>, 0)
  <2>1. NewDecoder.state = "HEADER" /\ NewDecoder.accumulate = <<>>
    BY DEF NewDecoder
  <2>2. Encoded(m) \in Seq(Seq(Nat)) /\ Bytes(m) \in Seq(Nat) /\ Bytes(m) = FlattenSeq(Encoded(m))
    BY RequestTypes
  <2>3. Upto(Encoded(m), 0) = <<>>
    <3>1. 0 \in 0..Len(Encoded(m))
      BY <2>2
    <3> QED
      BY <2>2, <3>1, UptoNext
  <2>4. <<>> \o Bytes(m) = Bytes(m)
    BY <2>2, ConcatEmptySeq
  <2> QED
    BY <1>1, <2>1, <2>2, <2>3, <2>4, Zenon DEF Decoding, Left, Remains
<1> QED
  BY <1>1, <1>2 DEF Follows

\* The frame's bytes are fed to the decoder.
LEMMA FollowsFed ==
    ASSUME NEW m, NEW w \in Seq(Nat), NEW p, NEW e, NEW d \in Decoders, NEW g,
           Follows(m, w, p, "idle", e, d, g), NEW n \in 0..Len(w), NEW end \in BOOLEAN
    PROVE  Follows(m, SubSeq(w, n + 1, Len(w)), IF end THEN "ended" ELSE "open", "decoding", end,
                   Feed(d, SubSeq(w, 1, n)), g)
<1>1. PICK k \in 0..Len(m) : Decoding(m, w, d, g, k)
  BY DEF Follows
<1>2. Decoding(m, SubSeq(w, n + 1, Len(w)), Feed(d, SubSeq(w, 1, n)), g, k)
  BY <1>1, Feeding
<1> HIDE DEF Decoding
<1> QED
  BY <1>2 DEF Follows

\* A header is decoded, or refused.
LEMMA FollowsHeader ==
    ASSUME NEW m \in Seq(Message), NEW w \in Seq(Nat), NEW p, NEW e, NEW d \in Decoders, NEW g,
           Follows(m, w, p, "decoding", e, d, g), AtHeader(d)
    PROVE  Follows(m, w, p, "decoding", e, ProcessHeader(d), g)
<1>1. PICK k \in 0..Len(m) : Decoding(m, w, d, g, k)
  BY DEF Follows
<1>2. Decoding(m, w, ProcessHeader(d), g, k)
  BY <1>1, HeaderDecoded
<1> QED
  BY <1>2 DEF Follows

\* A message is decoded: it is the next one.
LEMMA FollowsPayload ==
    ASSUME NEW m \in Seq(Message), NEW w \in Seq(Nat), NEW p, NEW e, NEW d \in Decoders, NEW g,
           Follows(m, w, p, "decoding", e, d, g), AtPayload(d)
    PROVE  Follows(m, w, p, "decoding", e, ProcessPayload(d), IF Cut(d) = <<>> THEN g ELSE Append(g, Cut(d)))
<1>1. PICK k \in 0..Len(m) : Decoding(m, w, d, g, k)
  BY DEF Follows
<1>2. /\ k + 1 \in 0..Len(m)
      /\ Taken(m, k + 1) = IF Cut(d) = <<>> THEN g ELSE Append(g, Cut(d))
      /\ Decoding(m, w, ProcessPayload(d), Taken(m, k + 1), k + 1)
  BY <1>1, PayloadDecoded
<1>3. IsPrefix(Taken(m, k + 1), Wanted(m))
  BY <1>2, TakenNext
<1> DEFINE n == k + 1
           h == Taken(m, n)
<1>4. n \in 0..Len(m) /\ IsPrefix(h, Wanted(m)) /\ Decoding(m, w, ProcessPayload(d), h, n)
      /\ h = IF Cut(d) = <<>> THEN g ELSE Append(g, Cut(d))
  BY <1>2, <1>3
<1> HIDE DEF n, h
<1>5. Follows(m, w, p, "decoding", e, ProcessPayload(d), h)
  BY <1>4 DEF Follows
<1> QED
  BY <1>4, <1>5, Zenon

\* The bytes are used up: of the frame, or of the request.
LEMMA FollowsEnds ==
    ASSUME NEW m \in Seq(Message), NEW w, NEW p, NEW e, NEW d \in Decoders, NEW g,
           Follows(m, w, p, "decoding", e, d, g), ~HasEnoughBytes(d)
    PROVE  /\ Follows(m, w, p, "idle", e, d, g)
           /\ e => Follows(m, w, p, "ends", e, d, g)
<1>1. PICK k \in 0..Len(m) : Decoding(m, w, d, g, k)
  BY DEF Follows
<1>2. ASSUME w = <<>> PROVE g = Wanted(m)
  BY <1>1, <1>2, AllDecoded
<1>3. p # "idle"
  BY DEF Follows
<1> QED
  BY <1>2, <1>3 DEF Follows

\* The first of the queue is read: if it is the end, nothing is queued after it.
LEMMA EofTaken ==
    ASSUME NEW l, NEW flag, NEW s \in Seq(Item), NEW r \in Seq(Item), s # <<>>, EofLast(l, flag, s, r)
    PROVE  EofLast(l, flag, Tail(s), Append(r, Head(s)))
<1> DEFINE x == Head(s)
           t == Tail(s)
           u == Append(r, x)
<1>1. /\ Len(s) \in Nat \ {0} /\ DOMAIN s = 1..Len(s) /\ x = s[1] /\ x \in Item
      /\ DOMAIN t = 1..(Len(s) - 1) /\ Len(t) = Len(s) - 1
      /\ \A i \in 1..(Len(s) - 1) : t[i] = s[i + 1]
  OBVIOUS
<1>2. /\ Len(r) \in Nat /\ DOMAIN r = 1..Len(r) /\ DOMAIN u = 1..(Len(r) + 1)
      /\ \A i \in 1..Len(r) : u[i] = r[i]
      /\ u[Len(r) + 1] = x
  BY <1>1
<1> HIDE DEF x, t, u
<1>3. /\ flag <=> l \in {"ends", "done"}
      /\ l # "done" => \A i \in DOMAIN s : s[i] # EOF
      /\ ~flag => \A i \in DOMAIN r : r[i] # EOF
      /\ \A i \in DOMAIN s : s[i] = EOF => i = Len(s)
      /\ \A i \in DOMAIN r : r[i] = EOF => /\ \A j \in DOMAIN r : j >= i => r[j] = EOF
                                           /\ \A j \in DOMAIN s : s[j] = EOF
  BY DEF EofLast
<1>4. l # "done" => \A i \in DOMAIN t : t[i] # EOF
  <2>1. \A i \in DOMAIN t : i + 1 \in DOMAIN s /\ t[i] = s[i + 1]
    BY <1>1
  <2> QED
    BY <1>3, <2>1, Zenon
<1>5. ~flag => \A i \in DOMAIN u : u[i] # EOF
  BY <1>1, <1>2, <1>3
<1>6. \A i \in DOMAIN t : t[i] = EOF => i = Len(t)
  BY <1>1, <1>3
<1>7. x = EOF => Len(s) = 1
  <2>1. 1 \in DOMAIN s
    BY <1>1
  <2> QED
    BY <1>1, <1>3, <2>1
<1>8. ASSUME NEW i \in DOMAIN u, u[i] = EOF
      PROVE  /\ \A j \in DOMAIN u : j >= i => u[j] = EOF
             /\ \A j \in DOMAIN t : t[j] = EOF
  <2>1. CASE i = Len(r) + 1
    BY <1>1, <1>2, <1>7, <1>8, <2>1
  <2>2. CASE i \in 1..Len(r)
    <3>1. /\ \A j \in DOMAIN r : j >= i => r[j] = EOF
          /\ \A j \in DOMAIN s : s[j] = EOF
      BY <1>2, <1>3, <1>8, <2>2
    <3>2. x = EOF /\ \A j \in DOMAIN t : t[j] = EOF
      <4>1. 1 \in DOMAIN s /\ \A j \in DOMAIN t : j + 1 \in DOMAIN s
        BY <1>1
      <4>2. x = EOF
        BY <1>1, <3>1, <4>1
      <4>3. ASSUME NEW j \in DOMAIN t PROVE t[j] = EOF
        BY <1>1, <3>1, <4>1, <4>3
      <4> QED
        BY <4>2, <4>3
    <3>3. \A j \in DOMAIN u : j >= i => u[j] = EOF
      BY <1>2, <3>1, <3>2
    <3> QED
      BY <3>2, <3>3
  <2> QED
    BY <1>2, <2>1, <2>2
<1>9. EofLast(l, flag, t, u)
  BY <1>3, <1>4, <1>5, <1>6, <1>8 DEF EofLast
<1> QED
  BY <1>9 DEF x, t, u

\* After the end it can be read again.
LEMMA EofAgain ==
    ASSUME NEW l, NEW flag, NEW r \in Seq(Item), flag, EofLast(l, flag, <<>>, r)
    PROVE  EofLast(l, flag, <<>>, Append(r, EOF))
<1> DEFINE u == Append(r, EOF)
<1>1. /\ Len(r) \in Nat /\ DOMAIN r = 1..Len(r) /\ DOMAIN u = 1..(Len(r) + 1)
      /\ \A i \in 1..Len(r) : u[i] = r[i]
      /\ u[Len(r) + 1] = EOF
  BY EofIsNoMessage
<1>2. DOMAIN <<>> = {}
  OBVIOUS
<1> HIDE DEF u
<1>3. ASSUME NEW i \in DOMAIN u, u[i] = EOF, NEW j \in DOMAIN u, j >= i PROVE u[j] = EOF
  BY <1>1, <1>3 DEF EofLast
<1>4. EofLast(l, flag, <<>>, u)
  BY <1>1, <1>2, <1>3 DEF EofLast
<1> QED
  BY <1>4 DEF u

\* What one call does leaves the others alone.
Alone(c) == \A d \in Calls \ {c} :
    /\ request'[d] = request[d] /\ wire'[d] = wire[d] /\ peer'[d] = peer[d]
    /\ listener'[d] = listener[d] /\ ending'[d] = ending[d] /\ decoder'[d] = decoder[d]
    /\ readDone'[d] = readDone[d] /\ storage'[d] = storage[d] /\ reads'[d] = reads[d]

LEMMA OneFollows ==
    ASSUME Following, NEW c \in Calls, Alone(c), reads' \in [Calls -> Seq(Item)],
           FollowsAt(c)', EofLastAt(c)'
    PROVE  Following'
<1>1. ASSUME NEW d \in Calls \ {c} PROVE FollowsAt(d)' /\ EofLastAt(d)'
  <2>1. /\ request'[d] = request[d] /\ wire'[d] = wire[d] /\ peer'[d] = peer[d]
        /\ listener'[d] = listener[d] /\ ending'[d] = ending[d] /\ decoder'[d] = decoder[d]
        /\ readDone'[d] = readDone[d] /\ storage'[d] = storage[d] /\ reads'[d] = reads[d]
    BY DEF Alone
  <2>2. FollowsAt(d) /\ EofLastAt(d)
    BY DEF Following
  <2>3. FollowsAt(d)'
    BY <2>1, <2>2, Zenon DEF FollowsAt, Given
  <2>4. EofLastAt(d)'
    BY <2>1, <2>2, Zenon DEF EofLastAt
  <2> QED
    BY <2>3, <2>4
<1> QED
  BY <1>1 DEF Following

\* The types of what a call's listener and reader share.
LEMMA CallTypes ==
    ASSUME Typed, Following, NEW c \in Calls
    PROVE  /\ request[c] \in Seq(Message) /\ wire[c] \in Seq(Nat) /\ decoder[c] \in Decoders
           /\ storage[c] \in Seq(Item) /\ reads[c] \in Seq(Item)
           /\ readDone[c] \in BOOLEAN /\ ending[c] \in BOOLEAN
           /\ FollowsAt(c) /\ EofLastAt(c)
<1>1. request[c] \in Requests[c] /\ Requests[c] \subseteq Seq(Message)
  BY RequestsAreMessages DEF Typed, ListenerTypes, Message
<1> QED
  BY <1>1 DEF Typed, ListenerTypes, Following

\* Every step of a listener or a reader keeps a method's messages in order.
LEMMA NextFollowing == Typed /\ Following /\ [Next]_vars => Following'
<1> SUFFICES ASSUME Typed, Following, [Next]_vars PROVE Following'
  OBVIOUS
<1>T. /\ wire \in [Calls -> Seq(Nat)]
      /\ peer \in [Calls -> {"idle", "open", "ended", "reset"}]
      /\ listener \in [Calls -> {"none", "idle", "decoding", "ends", "failed", "done"}]
      /\ ending \in [Calls -> BOOLEAN] /\ readDone \in [Calls -> BOOLEAN]
      /\ decoder \in [Calls -> Decoders] /\ storage \in [Calls -> Seq(Item)]
      /\ reads \in [Calls -> Seq(Item)]
  BY DEF Typed, ListenerTypes, Following
<1>1. ASSUME NEW c \in Calls, RefuseHeaders(c) \/ IgnoreHeaders(c) PROVE Following'
  <2>1. /\ Alone(c) /\ reads' = reads /\ peer[c] = "idle" /\ peer'[c] # "idle"
        /\ UNCHANGED <<request, wire, listener, ending, decoder, readDone, storage, reads>>
    BY <1>T, <1>1 DEF RefuseHeaders, IgnoreHeaders, Alone, methodVars
  <2>2. EofLastAt(c)'
    BY <2>1, CallTypes DEF EofLastAt
  <2>3. FollowsAt(c)'
    BY <2>1, CallTypes DEF FollowsAt, Follows, Given
  <2> QED
    BY <1>T, <2>1, <2>2, <2>3, OneFollows
<1>2. ASSUME NEW c \in Calls, OnHeaders(c) PROVE Following'
  <2>1. /\ Alone(c) /\ reads' = reads /\ peer[c] = "idle" /\ peer'[c] # "idle" /\ listener'[c] = "idle"
        /\ UNCHANGED <<request, wire, ending, decoder, readDone, storage, reads>>
    BY <1>T, <1>2 DEF OnHeaders, Alone, Listen
  <2>2. listener[c] = "none"
    BY <2>1, CallTypes DEF FollowsAt, Follows
  <2>3. EofLastAt(c)'
    BY <2>1, <2>2, CallTypes DEF EofLastAt, EofLast
  <2>4. FollowsAt(c)'
    BY <2>1, <2>2, CallTypes DEF FollowsAt, Follows, Given
  <2> QED
    BY <1>T, <2>1, <2>3, <2>4, OneFollows
<1>3. ASSUME NEW c \in Calls, NEW n \in 0..Len(wire[c]), NEW end \in BOOLEAN, OnData(c, n, end)
      PROVE  Following'
  <2>1. /\ Alone(c) /\ reads' = reads /\ listener[c] = "idle" /\ listener'[c] = "decoding"
        /\ wire'[c] = SubSeq(wire[c], n + 1, Len(wire[c]))
        /\ decoder'[c] = Feed(decoder[c], SubSeq(wire[c], 1, n))
        /\ peer'[c] = (IF end THEN "ended" ELSE "open") /\ ending'[c] = end
        /\ UNCHANGED <<request, readDone, storage, reads>>
    BY <1>T, <1>3, Zenon DEF OnData, Alone, Listen, methodVars
  <2>2. EofLastAt(c)'
    BY <2>1, CallTypes DEF EofLastAt, EofLast
  <2>3. Follows(request[c], SubSeq(wire[c], n + 1, Len(wire[c])), IF end THEN "ended" ELSE "open",
                "decoding", end, Feed(decoder[c], SubSeq(wire[c], 1, n)), Given(c))
    <3>1. /\ wire[c] \in Seq(Nat) /\ decoder[c] \in Decoders
          /\ Follows(request[c], wire[c], peer[c], "idle", ending[c], decoder[c], Given(c))
      BY <2>1, CallTypes DEF FollowsAt
    <3> QED
      BY <3>1, FollowsFed, Zenon
  <2>4. FollowsAt(c)'
    BY <2>1, <2>3, Zenon DEF FollowsAt, Given
  <2> QED
    BY <1>T, <2>1, <2>2, <2>4, OneFollows
<1>4. ASSUME NEW c \in Calls, DecodeHeader(c) PROVE Following'
  <2>1. /\ Alone(c) /\ reads' = reads /\ listener[c] = "decoding" /\ AtHeader(decoder[c])
        /\ UNCHANGED <<request, wire, peer, ending, readDone, storage, reads>>
        /\ \/ listener'[c] = "failed" /\ decoder'[c] = decoder[c]
           \/ listener'[c] = "decoding" /\ decoder'[c] = ProcessHeader(decoder[c])
    BY <1>T, <1>4 DEF DecodeHeader, Alone, Listen, methodVars
  <2>2. EofLastAt(c)'
    BY <2>1, CallTypes DEF EofLastAt, EofLast
  <2>3. CASE listener'[c] = "failed" /\ decoder'[c] = decoder[c]
    <3>1. FollowsAt(c)'
      BY <2>1, <2>3, CallTypes DEF FollowsAt, Follows, Given
    <3> QED
      BY <1>T, <2>1, <2>2, <3>1, OneFollows
  <2>4. CASE listener'[c] = "decoding" /\ decoder'[c] = ProcessHeader(decoder[c])
    <3>1. FollowsAt(c)'
      BY <2>1, <2>4, CallTypes, FollowsHeader, Zenon DEF FollowsAt, Given
    <3> QED
      BY <1>T, <2>1, <2>2, <3>1, OneFollows
  <2> QED
    BY <2>1, <2>3, <2>4
<1>5. ASSUME NEW c \in Calls, OnMessage(c) PROVE Following'
  <2> DEFINE payload == Cut(decoder[c])
  <2>1. /\ Alone(c) /\ reads' = reads /\ listener[c] = "decoding" /\ AtPayload(decoder[c])
        /\ UNCHANGED <<request, wire, peer, ending, readDone, reads>>
        /\ decoder'[c] = ProcessPayload(decoder[c])
    BY <1>T, <1>5 DEF OnMessage, Alone, Listen, methodVars
  <2>2. \/ payload = <<>> /\ listener'[c] = "decoding" /\ storage'[c] = storage[c]
        \/ listener'[c] = "failed" /\ storage'[c] = storage[c]
        \/ payload # <<>> /\ listener'[c] = "decoding" /\ storage'[c] = Append(storage[c], payload)
    BY <1>T, <1>5 DEF OnMessage, Listen
  <2>3. payload \in Seq(Nat) /\ payload \in Item /\ payload # EOF
    BY <2>1, CallTypes, DecoderTypes, EofIsNoMessage DEF AtPayload
  <2> HIDE DEF payload
  <2>4. CASE payload = <<>> /\ listener'[c] = "decoding" /\ storage'[c] = storage[c]
    <3>1. FollowsAt(c)'
      BY <2>1, <2>4, CallTypes, FollowsPayload, ZenonT(60) DEF FollowsAt, Given, payload
    <3>2. EofLastAt(c)'
      BY <2>1, <2>4, CallTypes DEF EofLastAt, EofLast
    <3> QED
      BY <1>T, <2>1, <3>1, <3>2, OneFollows
  <2>5. CASE listener'[c] = "failed" /\ storage'[c] = storage[c]
    <3>1. FollowsAt(c)'
      BY <2>1, <2>5, CallTypes DEF FollowsAt, Follows, Given
    <3>2. EofLastAt(c)'
      BY <2>1, <2>5, CallTypes DEF EofLastAt, EofLast
    <3> QED
      BY <1>T, <2>1, <3>1, <3>2, OneFollows
  <2>6. CASE payload # <<>> /\ listener'[c] = "decoding" /\ storage'[c] = Append(storage[c], payload)
    <3>1. Given(c)' = Append(Given(c), payload)
      BY <2>1, <2>3, <2>6, CallTypes, GivenThen DEF Given
    <3>2. FollowsAt(c)'
      BY <2>1, <2>6, <3>1, CallTypes, FollowsPayload, ZenonT(60) DEF FollowsAt, payload
    <3>3. EofLastAt(c)'
      <4>1. /\ ~readDone[c] /\ storage[c] \in Seq(Item)
            /\ \A i \in DOMAIN storage[c] : storage[c][i] # EOF
            /\ \A i \in DOMAIN reads[c] : reads[c][i] # EOF
        BY <2>1, CallTypes DEF EofLastAt, EofLast
      <4>2. \A i \in DOMAIN storage'[c] : storage'[c][i] # EOF
        BY <2>3, <2>6, <4>1
      <4> QED
        BY <2>1, <2>6, <4>1, <4>2 DEF EofLastAt, EofLast
    <3> QED
      BY <1>T, <2>1, <3>2, <3>3, OneFollows
  <2> QED
    BY <2>2, <2>4, <2>5, <2>6
<1>6. ASSUME NEW c \in Calls, DecodeEnds(c) PROVE Following'
  <2>1. /\ Alone(c) /\ reads' = reads /\ listener[c] = "decoding" /\ ~HasEnoughBytes(decoder[c])
        /\ UNCHANGED <<request, wire, peer, ending, decoder, storage, reads>>
        /\ \/ ending[c] /\ listener'[c] = "ends" /\ readDone'[c] = TRUE
           \/ listener'[c] = "idle" /\ readDone'[c] = readDone[c]
    BY <1>T, <1>6 DEF DecodeEnds, Closes, EndReading, Alone, Listen, methodVars
  <2>2. EofLastAt(c)'
    BY <2>1, CallTypes DEF EofLastAt, EofLast
  <2>3. /\ Follows(request[c], wire[c], peer[c], "idle", ending[c], decoder[c], Given(c))
        /\ ending[c] => Follows(request[c], wire[c], peer[c], "ends", ending[c], decoder[c], Given(c))
    BY <2>1, CallTypes, FollowsEnds DEF FollowsAt
  <2>4. FollowsAt(c)'
    BY <2>1, <2>3, Zenon DEF FollowsAt, Given
  <2> QED
    BY <1>T, <2>1, <2>2, <2>4, OneFollows
<1>7. ASSUME NEW c \in Calls, OnCancelByRemote(c) PROVE Following'
  <2>1. /\ Alone(c) /\ reads' = reads /\ listener[c] = "idle" /\ listener'[c] = "ends"
        /\ peer'[c] = "reset" /\ readDone'[c] = TRUE
        /\ UNCHANGED <<request, wire, ending, decoder, storage, reads>>
    BY <1>T, <1>7 DEF OnCancelByRemote, EndReading, Alone, Listen, methodVars
  <2>2. EofLastAt(c)'
    BY <2>1, CallTypes DEF EofLastAt, EofLast
  <2>3. FollowsAt(c)'
    BY <2>1, CallTypes DEF FollowsAt, Follows, Given
  <2> QED
    BY <1>T, <2>1, <2>2, <2>3, OneFollows
<1>8. ASSUME NEW c \in Calls, PutEof(c) PROVE Following'
  <2>1. /\ Alone(c) /\ reads' = reads /\ listener[c] = "ends" /\ listener'[c] = "done"
        /\ UNCHANGED <<request, wire, peer, ending, decoder, readDone, reads>>
        /\ storage'[c] = storage[c] \/ storage'[c] = Append(storage[c], EOF)
    BY <1>T, <1>8 DEF PutEof, Alone, Listen, methodVars
  <2>2. Given(c)' = Given(c)
    <3>1. Without(reads[c] \o Append(storage[c], EOF), EOF) = Without(reads[c] \o storage[c], EOF)
      BY CallTypes, EofIsNoMessage, GivenThen
    <3> QED
      BY <2>1, <3>1, Zenon DEF Given
  <2>3. FollowsAt(c)'
    BY <2>1, <2>2, CallTypes DEF FollowsAt, Follows
  <2>4. EofLastAt(c)'
    <3>1. /\ readDone[c] /\ storage[c] \in Seq(Item)
          /\ \A i \in DOMAIN storage[c] : storage[c][i] # EOF
          /\ \A i \in DOMAIN reads[c] : reads[c][i] = EOF =>
                /\ \A j \in DOMAIN reads[c] : j >= i => reads[c][j] = EOF
                /\ \A j \in DOMAIN storage[c] : storage[c][j] = EOF
      BY <2>1, CallTypes DEF EofLastAt, EofLast
    <3>2. CASE storage'[c] = storage[c]
      BY <2>1, <3>1, <3>2 DEF EofLastAt, EofLast
    <3>3. CASE storage'[c] = Append(storage[c], EOF)
      <4>1. /\ DOMAIN storage'[c] = 1..(Len(storage[c]) + 1) /\ Len(storage'[c]) = Len(storage[c]) + 1
            /\ DOMAIN storage[c] = 1..Len(storage[c]) /\ Len(storage[c]) \in Nat
            /\ \A i \in 1..Len(storage[c]) : storage'[c][i] = storage[c][i]
            /\ storage'[c][Len(storage[c]) + 1] = EOF
        BY <3>1, <3>3, EofIsNoMessage
      <4>2. \A i \in DOMAIN storage'[c] : storage'[c][i] = EOF => i = Len(storage'[c])
        BY <3>1, <4>1
      <4>3. \A i \in DOMAIN reads[c] : reads[c][i] = EOF =>
              \A j \in DOMAIN storage'[c] : storage'[c][j] = EOF
        BY <3>1, <4>1
      <4> QED
        BY <2>1, <3>1, <4>2, <4>3 DEF EofLastAt, EofLast
    <3> QED
      BY <2>1, <3>2, <3>3
  <2> QED
    BY <1>T, <2>1, <2>3, <2>4, OneFollows
<1>9. ASSUME NEW c \in Calls, Get(c) PROVE Following'
  <2> DEFINE x == Head(storage[c])
  <2>1. /\ storage[c] # <<>> /\ storage' = [storage EXCEPT ![c] = Tail(@)]
        /\ reads' = [reads EXCEPT ![c] = Append(@, x)]
        /\ UNCHANGED <<listenerVars, readDone>>
    BY <1>9 DEF Get, Got
  <2>2. x \in Item /\ Append(reads[c], x) \in Seq(Item)
    BY <2>1, CallTypes
  <2>3. /\ Alone(c) /\ reads' \in [Calls -> Seq(Item)]
        /\ storage'[c] = Tail(storage[c]) /\ reads'[c] = Append(reads[c], x)
        /\ UNCHANGED <<request, wire, peer, listener, ending, decoder, readDone>>
    BY <1>T, <2>1, <2>2 DEF Alone, listenerVars
  <2>4. Given(c)' = Given(c)
    <3>1. Append(reads[c], x) \o Tail(storage[c]) = reads[c] \o storage[c]
      <4>1. reads[c] \in Seq(Item) /\ storage[c] \in Seq(Item) /\ EOF \in Item
        BY CallTypes, EofIsNoMessage
      <4> QED
        BY <2>1, <4>1, GivenThen, Zenon
    <3> QED
      BY <2>3, <3>1, Zenon DEF Given
  <2>5. FollowsAt(c)'
    BY <2>3, <2>4, CallTypes, Zenon DEF FollowsAt
  <2>6. EofLastAt(c)'
    <3>1. EofLast(listener[c], readDone[c], storage[c], reads[c])
      BY CallTypes DEF EofLastAt
    <3>2. EofLast(listener[c], readDone[c], Tail(storage[c]), Append(reads[c], x))
      BY <2>1, <3>1, CallTypes, EofTaken
    <3> QED
      BY <2>3, <3>2, Zenon DEF EofLastAt
  <2> QED
    BY <2>3, <2>5, <2>6, OneFollows
<1>10. ASSUME NEW c \in Calls, Read(c), reads' # reads PROVE Following'
  <2>1. /\ storage[c] = <<>> /\ readDone[c]
        /\ reads' = [reads EXCEPT ![c] = Append(@, EOF)]
        /\ UNCHANGED <<listenerVars, readDone, storage>>
    BY <1>10 DEF Read, Got, MayWait
  <2>2. Append(reads[c], EOF) \in Seq(Item)
    BY CallTypes, EofIsNoMessage
  <2>3. /\ Alone(c) /\ reads' \in [Calls -> Seq(Item)] /\ reads'[c] = Append(reads[c], EOF)
        /\ UNCHANGED <<request, wire, peer, listener, ending, decoder, readDone, storage>>
    BY <1>T, <2>1, <2>2 DEF Alone, listenerVars
  <2>4. Given(c)' = Given(c)
    <3>1. Without(Append(reads[c], EOF) \o storage[c], EOF) = Without(reads[c] \o storage[c], EOF)
      BY <2>1, CallTypes, EofIsNoMessage, GivenThen
    <3> QED
      BY <2>3, <3>1, Zenon DEF Given
  <2>5. FollowsAt(c)'
    BY <2>3, <2>4, CallTypes, Zenon DEF FollowsAt
  <2>6. EofLastAt(c)'
    <3>1. EofLast(listener[c], readDone[c], <<>>, reads[c])
      BY <2>1, CallTypes DEF EofLastAt
    <3>2. EofLast(listener[c], readDone[c], <<>>, Append(reads[c], EOF))
      BY <2>1, <3>1, CallTypes, EofAgain
    <3> QED
      BY <2>1, <2>3, <3>2, Zenon DEF EofLastAt
  <2> QED
    BY <2>3, <2>5, <2>6, OneFollows
<1>11. ASSUME UNCHANGED <<listenerVars, storage, readDone, reads>> PROVE Following'
  <2>1. \A c \in Calls : FollowsAt(c)' /\ EofLastAt(c)'
    BY <1>11, Zenon DEF Following, FollowsAt, EofLastAt, Given, listenerVars
  <2> QED
    BY <1>11, <2>1 DEF Following
<1>12. ASSUME NEW c \in Calls, Read(c), reads' = reads PROVE Following'
  <2>1. UNCHANGED <<listenerVars, storage, readDone, reads>>
    BY <1>12 DEF Read, Got
  <2> QED
    BY <1>11, <2>1
<1>13. ASSUME NEW c \in Calls, UserCode(c) \/ WriteResult(c) \/ FinishResult(c) \/ HandleException(c)
       PROVE  Following'
  <2>1. UNCHANGED <<listenerVars, storage, readDone, reads>>
    BY <1>13 DEF UserCode, UserReads, UserWrites, UserCompletes, UserRaises, UserReturns,
                 IterationEnds, WriteResult, FinishResult, HandleException
  <2> QED
    BY <1>11, <2>1
<1>14. CASE Start \/ UNCHANGED vars
  BY <1>11, <1>14 DEF Start, vars, methodVars
<1> QED
  BY <1>1, <1>2, <1>3, <1>4, <1>5, <1>6, <1>7, <1>8, <1>9, <1>10, <1>12, <1>13, <1>14
  DEF Next, Listener, Runner

\* The calls begin with nothing sent and nothing read.
LEMMA InitFollowing == Init => Following
<1> SUFFICES ASSUME Init PROVE Following
  OBVIOUS
<1>1. ASSUME NEW c \in Calls PROVE FollowsAt(c) /\ EofLastAt(c)
  <2>1. /\ request[c] \in Seq(Message) /\ wire[c] = Bytes(request[c]) /\ peer[c] = "idle"
        /\ listener[c] = "none" /\ ending[c] = FALSE /\ decoder[c] = NewDecoder
        /\ storage[c] = <<>> /\ readDone[c] = FALSE /\ reads[c] = <<>>
    BY RequestsAreMessages DEF Init, Message
  <2>2. Given(c) = <<>>
    <3>1. <<>> \o <<>> = <<>> /\ <<>> \in Seq(Item)
      BY EmptySeq, ConcatEmptySeq
    <3>2. Without(<<>>, EOF) = <<>>
      BY DEF Without, FlattenSeq
    <3> QED
      BY <2>1, <3>1, <3>2, Zenon DEF Given
  <2>3. FollowsAt(c)
    BY <2>1, <2>2, Begins, Zenon DEF FollowsAt
  <2>4. EofLastAt(c)
    BY <2>1 DEF EofLastAt, EofLast
  <2> QED
    BY <2>3, <2>4
<1>2. reads \in [Calls -> Seq(Item)]
  BY DEF Init
<1> QED
  BY <1>1, <1>2 DEF Following

\* However the bytes of a request are cut into frames, and however the listener
\* and the method take turns, the method is given the request's messages in
\* order and no others, and the end only after all of them.
THEOREM GivenInOrderCorrect == Spec => []GivenInOrder
<1>1. ASSUME Following, NEW c \in Calls
      PROVE  /\ IsPrefix(Given(c), Messages(c))
             /\ \A i \in DOMAIN reads[c] : reads[c][i] = EOF =>
                  /\ \A j \in DOMAIN reads[c] : j >= i => reads[c][j] = EOF
                  /\ \/ peer[c] = "reset"
                     \/ peer[c] = "ended" /\ wire[c] # <<>>
                     \/ Given(c) = Messages(c)
  <2>1. Messages(c) = Wanted(request[c])
    BY Zenon DEF Messages, Wanted, Payloads
  <2>2. FollowsAt(c) /\ EofLastAt(c)
    BY <1>1 DEF Following
  <2>3. IsPrefix(Given(c), Wanted(request[c]))
    BY <2>2 DEF FollowsAt, Follows
  <2>4. listener[c] \in {"ends", "done"} =>
          peer[c] = "reset" \/ (peer[c] = "ended" /\ (wire[c] # <<>> \/ Given(c) = Wanted(request[c])))
    BY <2>2 DEF FollowsAt, Follows
  <2>5. ASSUME NEW i \in DOMAIN reads[c], reads[c][i] = EOF
        PROVE  /\ listener[c] \in {"ends", "done"}
               /\ \A j \in DOMAIN reads[c] : j >= i => reads[c][j] = EOF
    BY <2>2, <2>5 DEF EofLastAt, EofLast
  <2> QED
    BY <2>1, <2>3, <2>4, <2>5
<1>2. Following => GivenInOrder
  BY <1>1 DEF GivenInOrder
<1> QED
  BY <1>2, InitFollowing, NextFollowing, TypesHold, PTL DEF Spec
=============================================================================
