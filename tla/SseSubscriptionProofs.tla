------------------------ MODULE SseSubscriptionProofs ------------------------
(***************************************************************************)
(* Theorems about SseSubscription for every number of browsers,            *)
(* connections and events, and every store limit, timeout and stall.       *)
(***************************************************************************)
EXTENDS SseSubscription, SequenceTheorems, FiniteSetTheorems, TLAPS

-----------------------------------------------------------------------------
(* Induction, for sets of numbers.  The library's induction theorems have  *)
(* an operator as a parameter, which no prover here can instantiate; this  *)
(* one has a set, and it follows from the pigeonhole principle: were n the *)
(* first number missing, adding one would map D into D without 0.          *)

LEMMA SetInduction ==
    ASSUME NEW n \in Nat, NEW D \in SUBSET (0 .. n), 0 \in D,
           \A i \in D : i < n => i + 1 \in D
    PROVE  n \in D
<1> SUFFICES ASSUME n \notin D PROVE FALSE
  OBVIOUS
<1> DEFINE f == [i \in D |-> i + 1]
<1>1. IsFiniteSet(D)
  <2>1. IsFiniteSet(0 .. n)
    BY FS_Interval
  <2> QED BY <2>1, FS_Subset
<1>2. /\ IsFiniteSet(D \ {0}) /\ Cardinality(D \ {0}) = Cardinality(D) - 1
      /\ Cardinality(D) \in Nat
  BY <1>1, FS_RemoveElement, FS_CardinalityType
<1>3. \A i \in D : i + 1 \in D \ {0}
  OBVIOUS
<1>4. f \in [D -> D \ {0}]
  BY <1>3
<1>5. \A i, j \in D : f[i] = f[j] => i = j
  OBVIOUS
<1> HIDE DEF f
<1>6. f \in Injection(D, D \ {0})
  BY <1>4, <1>5 DEF Injection, IsInjective
<1>7. Cardinality(D) <= Cardinality(D \ {0})
  BY <1>2, <1>6, FS_Injection
<1> QED BY <1>2, <1>7

-----------------------------------------------------------------------------
(* The filter of a replay.                                                 *)

\* The equation by which Filter is defined.
Keeps(s, I, g, n) ==
    g = [i \in 0 .. n |->
           IF i = 0 THEN <<>>
           ELSE IF i \in I THEN Append(g[i - 1], s[i])
           ELSE g[i - 1]]

LEMMA KeepsExists ==
    ASSUME NEW s, NEW I, NEW n \in Nat
    PROVE  \E g : Keeps(s, I, g, n)
<1> DEFINE D == {k \in 0 .. n : \E g : Keeps(s, I, g, k)}
<1>1. 0 \in D
  <2> DEFINE g == [i \in 0 .. 0 |-> <<>>]
  <2>1. Keeps(s, I, g, 0)
    BY DEF Keeps
  <2> QED BY <2>1
<1>2. ASSUME NEW k \in D, k < n PROVE k + 1 \in D
  <2>1. PICK g : Keeps(s, I, g, k)
    OBVIOUS
  <2> DEFINE x == IF k + 1 \in I THEN Append(g[k], s[k + 1]) ELSE g[k]
             h == [i \in 0 .. k + 1 |-> IF i = k + 1 THEN x ELSE g[i]]
             t == [i \in 0 .. k + 1 |->
                     IF i = 0 THEN <<>>
                     ELSE IF i \in I THEN Append(h[i - 1], s[i])
                     ELSE h[i - 1]]
  <2>2. /\ k \in Nat /\ k + 1 # 0 /\ k \in 0 .. k + 1 /\ k # k + 1 /\ (k + 1) - 1 = k
        /\ \A i \in 0 .. k + 1 : i # k + 1 => i \in 0 .. k
        /\ \A i \in 0 .. k : i # 0 => i - 1 \in 0 .. k + 1 /\ i - 1 # k + 1
    OBVIOUS
  <2>3. ASSUME NEW i \in 0 .. k + 1 PROVE h[i] = t[i]
    <3>1. CASE i = k + 1
      <4>1. h[i] = x /\ h[i - 1] = g[k]
        BY <2>2, <3>1
      <4> HIDE DEF h
      <4> QED BY <2>2, <3>1, <4>1
    <3>2. CASE i # k + 1
      <4>1. i \in 0 .. k /\ h[i] = g[i] /\ (i # 0 => h[i - 1] = g[i - 1])
        BY <2>2, <3>2
      <4> HIDE DEF h
      <4> QED BY <2>1, <4>1 DEF Keeps
    <3> QED BY <3>1, <3>2
  <2>4. h = t
    BY <2>3
  <2>5. Keeps(s, I, h, k + 1)
    BY <2>4 DEF Keeps
  <2>6. k + 1 \in 0 .. n
    BY <1>2
  <2> QED BY <2>5, <2>6
<1> HIDE DEF D
<1>3. D \in SUBSET (0 .. n) /\ \A k \in D : k < n => k + 1 \in D
  BY <1>2 DEF D
<1>4. n \in D
  BY <1>1, <1>3, SetInduction
<1> QED BY <1>4 DEF D

LEMMA FilterUnfolds ==
    ASSUME NEW s, Len(s) \in Nat, NEW I
    PROVE  \E g : Keeps(s, I, g, Len(s)) /\ Filter(s, I) = g[Len(s)]
<1> DEFINE g == CHOOSE g : Keeps(s, I, g, Len(s))
<1>1. Keeps(s, I, g, Len(s))
  BY KeepsExists
<1>2. Filter(s, I) = g[Len(s)]
  BY DEF Filter, Keeps
<1> QED BY <1>1, <1>2

LEMMA SeqFacts ==
    ASSUME NEW S, NEW s \in Seq(S)
    PROVE  /\ Len(s) \in Nat /\ DOMAIN s = 1 .. Len(s)
           /\ \A i \in 1 .. Len(s) : s[i] \in S
  BY ElementOfSeq

LEMMA AppendElements ==
    ASSUME NEW S, NEW s \in Seq(S), NEW e \in S
    PROVE  /\ Append(s, e) \in Seq(S)
           /\ Elements(Append(s, e)) = Elements(s) \cup {e}
<1>1. /\ Append(s, e) \in Seq(S) /\ Len(Append(s, e)) = Len(s) + 1
      /\ \A i \in 1 .. Len(s) : Append(s, e)[i] = s[i]
      /\ Append(s, e)[Len(s) + 1] = e
  BY AppendProperties
<1>2. Len(s) \in Nat /\ DOMAIN s = 1 .. Len(s)
      /\ DOMAIN Append(s, e) = 1 .. (Len(s) + 1)
  BY <1>1, SeqFacts
<1>3. 1 .. (Len(s) + 1) = (1 .. Len(s)) \cup {Len(s) + 1}
  BY <1>2
<1> HIDE DEF Elements
<1> QED BY <1>1, <1>2, <1>3 DEF Elements

\* What Filter leaves are elements of the sequence, those at the positions asked
\* for and no others.
LEMMA FilterElements ==
    ASSUME NEW S, NEW s \in Seq(S), NEW I
    PROVE  /\ Filter(s, I) \in Seq(S)
           /\ Elements(Filter(s, I)) = {s[i] : i \in I \cap DOMAIN s}
<1> DEFINE n == Len(s)
<1>1. n \in Nat /\ DOMAIN s = 1 .. n /\ \A i \in 1 .. n : s[i] \in S
  BY SeqFacts
<1>2. PICK g : Keeps(s, I, g, n) /\ Filter(s, I) = g[n]
  BY <1>1, FilterUnfolds
<1> HIDE DEF n
<1> DEFINE D == {k \in 0 .. n : /\ g[k] \in Seq(S)
                                /\ Elements(g[k]) = {s[i] : i \in I \cap (1 .. k)}}
<1>3. 0 \in D
  <2>1. g[0] = <<>> /\ 0 \in 0 .. n
    BY <1>1, <1>2 DEF Keeps
  <2>2. <<>> \in Seq(S) /\ Elements(<<>>) = {} /\ 1 .. 0 = {}
    BY DEF Elements
  <2> QED BY <2>1, <2>2
<1>4. ASSUME NEW k \in D, k < n PROVE k + 1 \in D
  <2>1. /\ k \in Nat /\ k + 1 \in 0 .. n /\ k + 1 \in 1 .. n
        /\ k + 1 # 0 /\ (k + 1) - 1 = k
        /\ 1 .. (k + 1) = (1 .. k) \cup {k + 1}
    BY <1>1, <1>4
  <2>2. g[k + 1] = IF k + 1 \in I THEN Append(g[k], s[k + 1]) ELSE g[k]
    BY <1>2, <2>1 DEF Keeps
  <2>3. g[k] \in Seq(S) /\ Elements(g[k]) = {s[i] : i \in I \cap (1 .. k)}
    OBVIOUS
  <2>4. CASE k + 1 \in I
    <3>1. /\ g[k + 1] \in Seq(S)
          /\ Elements(g[k + 1]) = Elements(g[k]) \cup {s[k + 1]}
      BY <1>1, <2>1, <2>2, <2>3, <2>4, AppendElements
    <3>2. I \cap (1 .. (k + 1)) = (I \cap (1 .. k)) \cup {k + 1}
      BY <2>1, <2>4
    <3>3. Elements(g[k + 1]) = {s[i] : i \in I \cap (1 .. (k + 1))}
      BY <2>3, <3>1, <3>2
    <3> QED BY <2>1, <3>1, <3>3
  <2>5. CASE k + 1 \notin I
    <3>1. I \cap (1 .. (k + 1)) = I \cap (1 .. k)
      BY <2>1, <2>5
    <3> QED BY <2>1, <2>2, <2>3, <2>5, <3>1
  <2> QED BY <2>4, <2>5
<1> HIDE DEF D
<1>5. D \in SUBSET (0 .. n) /\ \A k \in D : k < n => k + 1 \in D
  BY <1>4 DEF D
<1>6. n \in D
  BY <1>1, <1>3, <1>5, SetInduction
<1> QED BY <1>1, <1>2, <1>6 DEF D

Sorted(s) == \A i, j \in DOMAIN s : i < j => s[i] <= s[j]

LEMMA AppendSorted ==
    ASSUME NEW s \in Seq(Nat), NEW e \in Nat, Sorted(s), \A x \in Elements(s) : x <= e
    PROVE  Sorted(Append(s, e))
<1> DEFINE t == Append(s, e)
           n == Len(s)
<1>1. /\ Len(t) = n + 1
      /\ \A i \in 1 .. n : t[i] = s[i]
      /\ t[n + 1] = e
      /\ n \in Nat /\ DOMAIN s = 1 .. n /\ DOMAIN t = 1 .. Len(t)
  BY AppendProperties, SeqFacts
<1>2. \A i \in 1 .. n : s[i] <= e
  BY <1>1 DEF Elements
<1> HIDE DEF t, n
<1>3. ASSUME NEW i \in DOMAIN t, NEW j \in DOMAIN t, i < j PROVE t[i] <= t[j]
  <2>1. i \in 1 .. n /\ t[i] = s[i] /\ (j \in 1 .. n \/ j = n + 1)
    BY <1>1, <1>3
  <2>2. CASE j \in 1 .. n
    BY <1>1, <1>3, <2>1, <2>2 DEF Sorted
  <2>3. CASE j = n + 1
    BY <1>1, <1>2, <2>1, <2>3
  <2> QED BY <2>1, <2>2, <2>3
<1> QED BY <1>3 DEF Sorted, t

\* Filter keeps the order.
LEMMA FilterSorted ==
    ASSUME NEW s \in Seq(Nat), NEW I, Sorted(s)
    PROVE  Sorted(Filter(s, I))
<1> DEFINE n == Len(s)
<1>1. n \in Nat /\ DOMAIN s = 1 .. n /\ \A i \in 1 .. n : s[i] \in Nat
  BY SeqFacts
<1>2. PICK g : Keeps(s, I, g, n) /\ Filter(s, I) = g[n]
  BY <1>1, FilterUnfolds
<1> HIDE DEF n
<1> DEFINE D == {k \in 0 .. n : /\ g[k] \in Seq(Nat) /\ Sorted(g[k])
                                /\ \A x \in Elements(g[k]) : \E i \in 1 .. k : x = s[i]}
<1>3. 0 \in D
  <2>1. g[0] = <<>> /\ 0 \in 0 .. n
    BY <1>1, <1>2 DEF Keeps
  <2>2. <<>> \in Seq(Nat) /\ Elements(<<>>) = {} /\ Sorted(<<>>)
    BY DEF Elements, Sorted
  <2> QED BY <2>1, <2>2
<1>4. ASSUME NEW k \in D, k < n PROVE k + 1 \in D
  <2>1. /\ k \in Nat /\ k + 1 \in 0 .. n /\ k + 1 \in 1 .. n
        /\ k + 1 # 0 /\ (k + 1) - 1 = k
        /\ \A i \in 1 .. k : i \in 1 .. (k + 1) /\ i \in 1 .. n /\ i < k + 1
    BY <1>1, <1>4
  <2>2. g[k + 1] = IF k + 1 \in I THEN Append(g[k], s[k + 1]) ELSE g[k]
    BY <1>2, <2>1 DEF Keeps
  <2>3. /\ g[k] \in Seq(Nat) /\ Sorted(g[k])
        /\ \A x \in Elements(g[k]) : \E i \in 1 .. k : x = s[i]
    OBVIOUS
  <2>4. CASE k + 1 \in I
    <3>1. \A x \in Elements(g[k]) : x <= s[k + 1]
      BY <1>1, <2>1, <2>3 DEF Sorted
    <3>2. /\ g[k + 1] \in Seq(Nat)
          /\ Elements(g[k + 1]) = Elements(g[k]) \cup {s[k + 1]}
      BY <1>1, <2>1, <2>2, <2>3, <2>4, AppendElements
    <3>3. Sorted(g[k + 1])
      BY <1>1, <2>1, <2>2, <2>3, <2>4, <3>1, AppendSorted
    <3>4. \A x \in Elements(g[k + 1]) : \E i \in 1 .. (k + 1) : x = s[i]
      BY <2>1, <2>3, <3>2
    <3> QED BY <2>1, <3>2, <3>3, <3>4
  <2>5. CASE k + 1 \notin I
    <3>1. \A x \in Elements(g[k + 1]) : \E i \in 1 .. (k + 1) : x = s[i]
      BY <2>1, <2>2, <2>3, <2>5
    <3> QED BY <2>1, <2>2, <2>3, <2>5, <3>1
  <2> QED BY <2>4, <2>5
<1> HIDE DEF D
<1>5. D \in SUBSET (0 .. n) /\ \A k \in D : k < n => k + 1 \in D
  BY <1>4 DEF D
<1>6. n \in D
  BY <1>1, <1>3, <1>5, SetInduction
<1> QED BY <1>2, <1>6 DEF D

-----------------------------------------------------------------------------
(* The store: the events since the last restart, each twice, up to its     *)
(* limit.  Read from its end, the event at distance x is published less    *)
(* half of x.                                                              *)

StoreOK ==
    LET m == Len(recentEvents) IN
    /\ recentEvents \in Seq(Ids)
    /\ epoch \in 0 .. published
    /\ m = IF 2 * (published - epoch) <= StoreLimit
           THEN 2 * (published - epoch) ELSE StoreLimit
    /\ \A i \in 1 .. m : /\ 2 * (published - recentEvents[i]) <= m - i
                         /\ m - i <= 2 * (published - recentEvents[i]) + 1

\* The event that is stored is the last one, before it come those that were there,
\* without the first if there is no room.
LEMMA StoreEventFacts ==
    ASSUME NEW S, NEW s \in Seq(S), NEW e \in S, Len(s) <= StoreLimit
    PROVE  LET t == StoreEvent(s, e)
               n == Len(s)
               m == Len(t)
           IN  /\ t \in Seq(S)
               /\ m = IF n < StoreLimit THEN n + 1 ELSE StoreLimit
               /\ t[m] = e
               /\ \A i \in 1 .. m : i # m => t[i] = s[i + (n + 1 - m)]
<1> DEFINE a == Append(s, e)
           t == StoreEvent(s, e)
           n == Len(s)
           m == Len(t)
<1>1. /\ a \in Seq(S) /\ Len(a) = n + 1 /\ n \in Nat
      /\ \A i \in 1 .. n : a[i] = s[i]
      /\ a[n + 1] = e
  BY AppendProperties, SeqFacts
<1>2. t = IF n + 1 > StoreLimit THEN Tail(a) ELSE a
  BY <1>1 DEF StoreEvent
<1>3. StoreLimit \in Nat /\ StoreLimit # 0
  BY SseAssumption
<1> SUFFICES /\ t \in Seq(S)
             /\ m = IF n < StoreLimit THEN n + 1 ELSE StoreLimit
             /\ t[m] = e
             /\ \A i \in 1 .. m : i # m => t[i] = s[i + (n + 1 - m)]
  OBVIOUS
<1> HIDE DEF a, t, n
<1>4. CASE n + 1 > StoreLimit
  <2>1. n = StoreLimit
    BY <1>1, <1>3, <1>4 DEF n
  <2>2. a # <<>>
    BY <1>1
  <2>3. /\ t \in Seq(S) /\ m = n
        /\ \A i \in 1 .. n : t[i] = a[i + 1]
    BY <1>1, <1>2, <1>4, <2>2, HeadTailProperties
  <2>4. \A i \in 1 .. n : i # n => t[i] = s[i + 1]
    BY <1>1, <2>3
  <2>5. n \in 1 .. n
    BY <1>1, <1>3, <2>1
  <2> QED BY <1>1, <2>1, <2>3, <2>4, <2>5
<1>5. CASE n + 1 <= StoreLimit
  <2>1. t = a /\ m = n + 1
    BY <1>1, <1>2, <1>3, <1>5
  <2>2. \A i \in 1 .. m : i # m => i \in 1 .. n /\ i + (n + 1 - m) = i
    BY <1>1, <2>1
  <2> QED BY <1>1, <1>3, <1>5, <2>1, <2>2
<1> QED BY <1>1, <1>3, <1>4, <1>5

LEMMA StoreTwiceOK ==
    ASSUME StoreOK, StoreTwice(published + 1), published \in Nat,
           published' = published + 1, epoch' = epoch
    PROVE  StoreOK'
<1> DEFINE p == published
           e == p + 1
           r == recentEvents
           u == StoreEvent(r, e)
           v == StoreEvent(u, e)
           n == Len(r)
           k == Len(u)
           m == Len(v)
<1>0. StoreLimit \in Nat /\ StoreLimit # 0
  BY SseAssumption
<1>1. r \in Seq(Ids') /\ e \in Ids' /\ n \in Nat /\ n <= StoreLimit /\ epoch \in 0 .. p
  <2>1. Ids \subseteq Ids' /\ e \in Ids'
    BY DEF Ids
  <2>2. n \in Nat
    BY SeqFacts DEF StoreOK
  <2> QED BY <1>0, <2>1, <2>2, SeqMonotonic DEF StoreOK
<1>2. /\ u \in Seq(Ids')
      /\ k = IF n < StoreLimit THEN n + 1 ELSE StoreLimit
      /\ u[k] = e
      /\ \A i \in 1 .. k : i # k => u[i] = r[i + (n + 1 - k)]
  BY <1>1, StoreEventFacts
<1>3. k \in Nat /\ k <= StoreLimit
  BY <1>0, <1>1, <1>2
<1>4. /\ v \in Seq(Ids')
      /\ m = IF k < StoreLimit THEN k + 1 ELSE StoreLimit
      /\ v[m] = e
      /\ \A i \in 1 .. m : i # m => v[i] = u[i + (k + 1 - m)]
  <2>1. u \in Seq(Ids') /\ e \in Ids' /\ Len(u) <= StoreLimit
    BY <1>1, <1>2, <1>3
  <2> HIDE DEF u, e
  <2> QED BY <2>1, StoreEventFacts
<1>5. recentEvents' = v
  BY DEF StoreTwice
<1>6. /\ n = IF 2 * (p - epoch) <= StoreLimit THEN 2 * (p - epoch) ELSE StoreLimit
      /\ \A i \in 1 .. n : /\ 2 * (p - r[i]) <= n - i
                           /\ n - i <= 2 * (p - r[i]) + 1
  BY DEF StoreOK
<1>7. p \in Nat /\ published' = e /\ epoch' = epoch /\ \A i \in 1 .. n : r[i] \in Nat
  <2>1. \A i \in 1 .. n : r[i] \in Ids'
    BY <1>1, SeqFacts
  <2> QED BY <2>1 DEF Ids
<1> HIDE DEF p, r, u, v, n, k, m
<1>8. m = IF 2 * (e - epoch) <= StoreLimit THEN 2 * (e - epoch) ELSE StoreLimit
  BY <1>0, <1>1, <1>2, <1>4, <1>6, <1>7
<1>9. ASSUME NEW i \in 1 .. m
      PROVE  2 * (e - v[i]) <= m - i /\ m - i <= 2 * (e - v[i]) + 1
  <2> DEFINE j == i + (k + 1 - m)
  <2>0. m \in Nat /\ k \in Nat
    BY <1>0, <1>1, <1>2, <1>4
  <2>1. CASE i = m
    BY <1>4, <1>7, <2>0, <2>1
  <2>2. CASE i # m
    <3>1. v[i] = u[j]
      BY <1>4, <2>2
    <3>2. j \in 1 .. k /\ m - i = k - j + 1
      BY <1>0, <1>3, <1>4, <2>0, <2>2
    <3> HIDE DEF j
    <3>3. CASE j = k
      <4>1. v[i] = p + 1
        BY <1>2, <3>1, <3>3
      <4>2. m - i = 1
        BY <2>0, <3>2, <3>3
      <4> QED BY <1>7, <4>1, <4>2
    <3>4. CASE j # k
      <4> DEFINE l == j + (n + 1 - k)
      <4>1. u[j] = r[l]
        BY <1>2, <3>2, <3>4
      <4>2. l \in 1 .. n /\ k - j = n - l + 1
        BY <1>0, <1>1, <1>2, <2>0, <3>2, <3>4
      <4> HIDE DEF l
      <4>3. /\ 2 * (p - r[l]) <= n - l /\ n - l <= 2 * (p - r[l]) + 1
            /\ r[l] \in Nat
        BY <1>6, <1>7, <4>2
      <4> DEFINE q == r[l]
                 w == n - l
      <4>4. v[i] = q /\ m - i = w + 2
        BY <1>1, <2>0, <3>1, <3>2, <4>1, <4>2
      <4>5. q \in Nat /\ w \in Int /\ 2 * (p - q) <= w /\ w <= 2 * (p - q) + 1
        BY <1>1, <4>2, <4>3
      <4> HIDE DEF q, w
      <4>6. 2 * (p + 1 - q) <= w + 2 /\ w + 2 <= 2 * (p + 1 - q) + 1
        BY <1>7, <4>5
      <4>7. v[i] \in Nat /\ v[i] = q /\ m - i \in Int /\ m - i = w + 2
        BY <2>0, <4>4, <4>5
      <4> QED BY <1>7, <4>5, <4>6, <4>7
    <3> QED BY <3>3, <3>4
  <2> QED BY <2>1, <2>2
<1>10. epoch \in 0 .. e
  BY <1>1, <1>7
<1> QED BY <1>4, <1>5, <1>7, <1>8, <1>9, <1>10 DEF StoreOK, m

LEMMA StoreTypes ==
    ASSUME StoreOK, published \in Nat
    PROVE  /\ Len(recentEvents) \in Nat /\ DOMAIN recentEvents = 1 .. Len(recentEvents)
           /\ \A i \in 1 .. Len(recentEvents) :
                 recentEvents[i] \in Nat /\ recentEvents[i] \in Ids
           /\ recentEvents \in Seq(Nat)
           /\ epoch \in Nat /\ epoch <= published
<1>1. recentEvents \in Seq(Ids) /\ Ids \subseteq Nat
  BY DEF StoreOK, Ids
<1>2. recentEvents \in Seq(Nat)
  BY <1>1, SeqMonotonic
<1>3. epoch \in Nat /\ epoch <= published
  BY DEF StoreOK
<1> QED BY <1>1, <1>2, <1>3, SeqFacts

LEMMA StoreSorted ==
    ASSUME StoreOK, published \in Nat
    PROVE  Sorted(recentEvents)
<1> DEFINE r == recentEvents
           m == Len(r)
           p == published
<1>1. /\ m \in Nat /\ DOMAIN r = 1 .. m /\ \A i \in 1 .. m : r[i] \in Nat
      /\ \A i \in 1 .. m : 2 * (p - r[i]) <= m - i /\ m - i <= 2 * (p - r[i]) + 1
      /\ p \in Nat
  BY StoreTypes DEF StoreOK
<1> HIDE DEF r, m, p
<1>2. ASSUME NEW i \in 1 .. m, NEW j \in 1 .. m, i < j PROVE r[i] <= r[j]
  <2> DEFINE a == r[i]
             b == r[j]
  <2>1. /\ a \in Nat /\ b \in Nat
        /\ m - i <= 2 * (p - a) + 1 /\ 2 * (p - b) <= m - j
    BY <1>1
  <2> HIDE DEF a, b
  <2>2. a <= b
    BY <1>1, <1>2, <2>1
  <2> QED BY <2>2 DEF a, b
<1> QED BY <1>1, <1>2 DEF Sorted, r

LEMMA CapacityType == Capacity \in Nat /\ 2 * Capacity <= StoreLimit
  BY SseAssumption DEF Capacity

\* As far as the store reaches, every event since the restart is in it.
LEMMA StoreHolds ==
    ASSUME StoreOK, published \in Nat, NEW e \in Nat,
           epoch < e, e <= published, published - e < Capacity
    PROVE  e \in Elements(recentEvents)
<1> DEFINE r == recentEvents
           m == Len(r)
           p == published
           i == m - 2 * (p - e)
<1>1. /\ m \in Nat /\ DOMAIN r = 1 .. m
      /\ m = IF 2 * (p - epoch) <= StoreLimit THEN 2 * (p - epoch) ELSE StoreLimit
      /\ p \in Nat /\ epoch \in Nat
  BY StoreTypes DEF StoreOK
<1>2. StoreLimit \in Nat
  BY SseAssumption
<1>3. i \in 1 .. m
  BY <1>1, <1>2, CapacityType
<1>4. r[i] \in Nat /\ 2 * (p - r[i]) <= m - i /\ m - i <= 2 * (p - r[i]) + 1
  BY <1>3, StoreTypes DEF StoreOK
<1> DEFINE q == r[i]
<1>5. q \in Nat /\ 2 * (p - q) <= 2 * (p - e) /\ 2 * (p - e) <= 2 * (p - q) + 1
  <2>1. m - i = 2 * (p - e)
    <3> DEFINE x == 2 * (p - e)
    <3>1. m \in Int /\ x \in Int
      BY <1>1
    <3> HIDE DEF m, x
    <3>2. m - (m - x) = x
      BY <3>1
    <3> QED BY <3>2 DEF x
  <2> HIDE DEF i
  <2> QED BY <1>4, <2>1
<1> HIDE DEF q
<1>6. q = e
  BY <1>1, <1>5
<1> QED BY <1>1, <1>3, <1>6 DEF q, Elements

\* An id that is stored has a first position: its second copy is the next entry.
LEMMA FirstPosition ==
    ASSUME StoreOK, published \in Nat, NEW id, Positions(id) # {}
    PROVE  \E f \in Positions(id) : \A j \in Positions(id) : f <= j
<1> DEFINE r == recentEvents
           m == Len(r)
           p == published
<1>1. /\ m \in Nat /\ DOMAIN r = 1 .. m /\ \A i \in 1 .. m : r[i] \in Nat
      /\ \A i \in 1 .. m : 2 * (p - r[i]) <= m - i /\ m - i <= 2 * (p - r[i]) + 1
      /\ p \in Nat
  BY StoreTypes DEF StoreOK
<1>2. PICK i \in 1 .. m : r[i] = id
  BY <1>1 DEF Positions
<1>3. id \in Nat
  BY <1>1, <1>2
<1> HIDE DEF r, m, p
<1>4. Positions(id) = {j \in 1 .. m : r[j] = id}
  BY <1>1 DEF Positions, r
<1>5. \A j \in Positions(id) : /\ j \in 1 .. m
                               /\ 2 * (p - id) <= m - j /\ m - j <= 2 * (p - id) + 1
  BY <1>1, <1>4
<1>6. CASE i - 1 \in Positions(id)
  <2>1. ASSUME NEW j \in Positions(id) PROVE i - 1 <= j
    <3>1. j \in Int /\ i \in Int /\ m \in Int /\ 2 * (p - id) \in Int
      BY <1>1, <1>2, <1>3, <1>5
    <3>2. m - j <= 2 * (p - id) + 1 /\ 2 * (p - id) <= m - i
      BY <1>2, <1>4, <1>5
    <3> QED BY <3>1, <3>2
  <2> QED BY <1>6, <2>1
<1>7. CASE i - 1 \notin Positions(id)
  <2>1. ASSUME NEW j \in Positions(id) PROVE i <= j
    <3>1. j \in 1 .. m /\ m - j <= 2 * (p - id) + 1 /\ 2 * (p - id) <= m - i
      BY <1>2, <1>4, <1>5
    <3>2. j # i - 1
      BY <1>7
    <3> QED BY <1>1, <1>2, <1>3, <3>1, <3>2
  <2> QED BY <1>2, <1>4, <2>1
<1> QED BY <1>6, <1>7

\* What follows an id: stored events in their order, every stored event that is
\* later than the id, and every stored event if the id is none.
LEMMA EventsSince ==
    ASSUME StoreOK, published \in Nat, NEW id
    PROVE  LET s == GetEventsSince(id)
           IN  /\ s \in Seq(Ids) /\ Sorted(s)
               /\ \A e \in Elements(recentEvents) :
                     e \in Elements(s) \/ (id \in Ids /\ e <= id)
<1> DEFINE r == recentEvents
           m == Len(r)
           s == GetEventsSince(id)
<1>1. /\ m \in Nat /\ DOMAIN r = 1 .. m /\ \A i \in 1 .. m : r[i] \in Nat /\ r[i] \in Ids
      /\ r \in Seq(Ids) /\ Sorted(r)
  BY StoreTypes, StoreSorted DEF StoreOK
<1>2. CASE Positions(id) = {}
  BY <1>1, <1>2 DEF GetEventsSince
<1>3. CASE Positions(id) # {}
  <2> DEFINE f == CHOOSE i \in Positions(id) : \A j \in Positions(id) : i <= j
  <2>1. f \in Positions(id)
    BY <1>3, FirstPosition
  <2>2. f \in 1 .. m /\ r[f] = id
    BY <1>1, <2>1 DEF Positions
  <2>3. s = SubSeq(r, f + 1, m)
    BY <1>3 DEF GetEventsSince
  <2> HIDE DEF f, s
  <2>4. /\ s \in Seq(Ids) /\ Len(s) = m - f
        /\ \A i \in 1 .. (m - f) : s[i] = r[f + i]
    <3>1. f + 1 \in Int /\ m \in Int /\ \A i \in f + 1 .. m : r[i] \in Ids
      BY <1>1, <2>2
    <3>2. /\ s \in Seq(Ids)
          /\ Len(s) = IF f + 1 <= m THEN m - (f + 1) + 1 ELSE 0
          /\ \A i \in 1 .. m - (f + 1) + 1 : s[i] = r[(f + 1) + i - 1]
      BY <2>3, <3>1, SubSeqProperties
    <3>3. /\ m - (f + 1) + 1 = m - f
          /\ \A i \in 1 .. (m - f) : (f + 1) + i - 1 = f + i
      BY <1>1, <2>2
    <3>4. Len(s) = m - f
      <4>1. CASE f + 1 <= m
        BY <3>2, <3>3, <4>1
      <4>2. CASE ~(f + 1 <= m)
        <5>1. f = m /\ m - f = 0
          <6>1. f \in Int /\ m \in Int /\ f <= m /\ ~(f + 1 <= m)
            BY <1>1, <2>2, <4>2
          <6> HIDE DEF m
          <6> QED BY <6>1
        <5> QED BY <3>2, <4>2, <5>1
      <4> QED BY <4>1, <4>2
    <3>5. ASSUME NEW i \in 1 .. (m - f) PROVE s[i] = r[f + i]
      <4>1. s[i] = r[(f + 1) + i - 1]
        BY <3>2, <3>3
      <4> QED BY <3>3, <4>1
    <3> QED BY <3>2, <3>4, <3>5
  <2>5. DOMAIN s = 1 .. (m - f) /\ m - f \in Nat
    BY <1>1, <2>2, <2>4, SeqFacts
  <2> HIDE DEF r, m
  <2>6. Sorted(s)
    <3> SUFFICES ASSUME NEW i \in 1 .. (m - f), NEW j \in 1 .. (m - f), i < j
                 PROVE  s[i] <= s[j]
      BY <2>5 DEF Sorted
    <3>1. f + i \in 1 .. m /\ f + j \in 1 .. m /\ f + i < f + j
      BY <1>1, <2>2
    <3>2. r[f + i] <= r[f + j]
      BY <1>1, <3>1 DEF Sorted
    <3> QED BY <2>4, <3>2
  <2>7. ASSUME NEW e \in Elements(r)
        PROVE  e \in Elements(s) \/ (id \in Ids /\ e <= id)
    <3>1. PICK i \in 1 .. m : e = r[i]
      BY <1>1 DEF Elements
    <3>2. id \in Ids /\ id \in Nat
      BY <1>1, <2>2
    <3>3. CASE i <= f
      <4>1. i = f \/ i < f
        BY <1>1, <2>2, <3>3
      <4>2. r[i] <= r[f]
        <5>1. CASE i = f
          BY <3>1, <3>2, <2>2, <5>1
        <5>2. CASE i < f
          <6>1. i \in DOMAIN r /\ f \in DOMAIN r /\ Sorted(r)
            BY <1>1, <2>2, <3>1
          <6> HIDE DEF r, m
          <6> QED BY <5>2, <6>1 DEF Sorted
        <5> QED BY <4>1, <5>1, <5>2
      <4> QED BY <2>2, <3>1, <3>2, <4>2
    <3>4. CASE ~(i <= f)
      <4>1. i - f \in 1 .. (m - f) /\ f + (i - f) = i
        BY <1>1, <2>2, <3>4
      <4>2. s[i - f] = e
        BY <2>4, <3>1, <4>1
      <4> QED BY <2>5, <4>1, <4>2 DEF Elements
    <3> QED BY <3>3, <3>4
  <2> QED BY <2>4, <2>6, <2>7 DEF s, r
<1> QED BY <1>2, <1>3

-----------------------------------------------------------------------------
(* What a new stream opens with.                                           *)

\* What shareReplay holds is the event published last.
LastOK == last = None \/ (last = published /\ last \in Ids)

LEMMA ReplayFacts ==
    ASSUME StoreOK, published \in Nat, NEW b
    PROVE  /\ Replay(b) \in Seq(Ids) /\ Sorted(Replay(b))
           /\ \A e \in Elements(recentEvents) :
                 browser[b].cursor # None /\ Matches(b, e)
                    => \/ e \in Elements(Replay(b))
                       \/ browser[b].cursor \in Ids /\ e <= browser[b].cursor
<1>1. CASE browser[b].cursor = None
  BY <1>1 DEF Replay, Sorted
<1>2. CASE browser[b].cursor # None
  <2> DEFINE c == browser[b].cursor
             s == GetEventsSince(c)
             I == {i \in DOMAIN s : Matches(b, s[i])}
  <2>1. /\ s \in Seq(Ids) /\ Sorted(s)
        /\ \A e \in Elements(recentEvents) : e \in Elements(s) \/ (c \in Ids /\ e <= c)
    BY EventsSince
  <2>2. Replay(b) = Filter(s, I)
    BY <1>2 DEF Replay
  <2> HIDE DEF c, s
  <2>3. /\ Replay(b) \in Seq(Ids)
        /\ Elements(Replay(b)) = {s[i] : i \in I \cap DOMAIN s}
    BY <2>1, <2>2, FilterElements
  <2>4. s \in Seq(Nat)
    BY <2>1, SeqMonotonic DEF Ids
  <2>5. Sorted(Replay(b))
    BY <2>1, <2>2, <2>4, FilterSorted
  <2>6. \A e \in Elements(s) : Matches(b, e) => e \in Elements(Replay(b))
    BY <2>3 DEF Elements
  <2> QED BY <2>1, <2>3, <2>5, <2>6 DEF c
<1> QED BY <1>1, <1>2

LEMMA OpeningFacts ==
    ASSUME StoreOK, published \in Nat, LastOK, NEW b
    PROVE  /\ Opening(b) \in Seq(Ids) /\ Sorted(Opening(b))
           /\ Elements(Replay(b)) \subseteq Elements(Opening(b))
<1> DEFINE r == Replay(b)
<1>1. r \in Seq(Ids) /\ Sorted(r) /\ r \in Seq(Nat)
  BY ReplayFacts, SeqMonotonic DEF Ids
<1>2. CASE Buffered(b) = <<>>
  <2>1. Opening(b) = r
    BY <1>1, <1>2, ConcatEmptySeq DEF Opening
  <2> QED BY <1>1, <2>1
<1>3. CASE Buffered(b) = <<last>> /\ last # None
  <2>1. last \in Ids /\ last = published /\ last \in Nat
    BY <1>3 DEF LastOK
  <2>2. Opening(b) = Append(r, last)
    BY <1>1, <1>3, <2>1, AppendIsConcat DEF Opening
  <2>3. /\ Append(r, last) \in Seq(Ids)
        /\ Elements(Append(r, last)) = Elements(r) \cup {last}
    BY <1>1, <2>1, AppendElements
  <2>4. \A x \in Elements(r) : x <= last
    <3>1. \A x \in Elements(r) : x \in Ids
      BY <1>1, SeqFacts DEF Elements
    <3> QED BY <2>1, <3>1 DEF Ids
  <2>5. Sorted(Append(r, last))
    BY <1>1, <2>1, <2>4, AppendSorted
  <2> QED BY <2>2, <2>3, <2>5
<1> QED BY <1>2, <1>3 DEF Buffered

-----------------------------------------------------------------------------
(* The invariant.                                                          *)

BrowserStates(n) ==
    [using : Connections \cup {None}, cursor : (1 .. n) \cup {None, Foreign},
     got : SUBSET (1 .. n), joined : 0 .. n, filter : Topics \cup {Everything}]

\* A running stream is not idle for longer than its heartbeat is overdue.
ConnOK ==
    /\ conn \in [Connections -> ConnectionStates]
    /\ \A k \in Connections :
          /\ conn[k].client => conn[k].open /\ conn[k].idle <= conn[k].due
          /\ conn[k].open => conn[k].browser \in Browsers

\* The connection that a browser uses is open and its own.
BrowserOK ==
    /\ browser \in [Browsers -> BrowserStates(published)]
    /\ \A b \in Browsers : browser[b].using # None =>
          conn[browser[b].using].open /\ conn[browser[b].using].browser = b

TopicsOK == topics \in Seq(Topics) /\ published <= MaxEvents

Inv == TopicsOK /\ StoreOK /\ LastOK /\ ConnOK /\ BrowserOK /\ ActiveConnectionsExact

LEMMA PublishedType == ASSUME TopicsOK PROVE published \in Nat
  BY SeqFacts DEF TopicsOK, published

LEMMA ClientsType ==
    /\ IsFiniteSet(Clients) /\ Cardinality(Clients) \in Nat
    /\ \A S \in SUBSET Clients :
          /\ IsFiniteSet(S) /\ Cardinality(S) \in Nat
          /\ Cardinality(Clients \ S) = Cardinality(Clients) - Cardinality(S)
<1>1. IsFiniteSet(Clients) /\ Cardinality(Clients) \in Nat
  BY SseAssumption, FS_Subset, FS_CardinalityType DEF Clients
<1>2. ASSUME NEW S \in SUBSET Clients
      PROVE  /\ IsFiniteSet(S) /\ Cardinality(S) \in Nat
             /\ Cardinality(Clients \ S) = Cardinality(Clients) - Cardinality(S)
  <2>1. IsFiniteSet(S) /\ Cardinality(S) \in Nat
    BY <1>1, FS_Subset, FS_CardinalityType
  <2>2. Clients \cap S = S
    OBVIOUS
  <2>3. Cardinality(Clients \ S) = Cardinality(Clients) - Cardinality(Clients \cap S)
    BY <1>1, FS_Difference
  <2> QED BY <2>1, <2>2, <2>3
<1> QED BY <1>1, <1>2

LEMMA InvTypeOK == ASSUME Inv PROVE TypeOK
<1>1. published \in Nat /\ Len(recentEvents) <= StoreLimit
  <2>1. published \in Nat /\ StoreLimit \in Nat
    BY PublishedType, SseAssumption DEF Inv
  <2>2. Len(recentEvents) \in Nat
    BY <2>1, StoreTypes DEF Inv
  <2> QED BY <2>1, <2>2 DEF Inv, StoreOK
<1>2. activeConnections \in Nat
  BY ClientsType DEF Inv, ActiveConnectionsExact
<1>3. browser \in [Browsers ->
          [using : Connections \cup {None}, cursor : Ids \cup {None, Foreign},
           got : SUBSET Ids, joined : 0 .. published,
           filter : Topics \cup {Everything}]]
  BY DEF Inv, BrowserOK, BrowserStates, Ids
<1> QED
  BY <1>1, <1>2, <1>3 DEF Inv, TypeOK, TopicsOK, StoreOK, LastOK, ConnOK

\* The browser that takes events in.
LEMMA ReceiveFacts ==
    ASSUME NEW n \in Nat, NEW x \in BrowserStates(n), NEW s \in Seq(1 .. n)
    PROVE  LET y == Receive(x, s)
           IN  /\ y \in BrowserStates(n)
               /\ y.using = x.using /\ y.joined = x.joined /\ y.filter = x.filter
               /\ y.got = x.got \cup Elements(s)
               /\ s = <<>> => y = x
<1>1. CASE s = <<>>
  <2>1. Elements(s) = {}
    BY <1>1 DEF Elements
  <2> QED BY <1>1, <2>1 DEF Receive
<1>2. CASE s # <<>>
  <2>1. Len(s) \in 1 .. Len(s) /\ \A i \in DOMAIN s : s[i] \in 1 .. n
    BY <1>2, SeqFacts, EmptySeq
  <2>2. s[Len(s)] \in 1 .. n /\ Elements(s) \subseteq 1 .. n
    BY <2>1, SeqFacts DEF Elements
  <2>3. Receive(x, s) = [x EXCEPT !.cursor = s[Len(s)], !.got = x.got \cup Elements(s)]
    BY <1>2 DEF Receive
  <2> QED BY <1>2, <2>2, <2>3 DEF BrowserStates
<1> QED BY <1>1, <1>2

LEMMA StatesGrow ==
    ASSUME NEW n \in Nat, NEW x \in BrowserStates(n)
    PROVE  x \in BrowserStates(n + 1)
  BY DEF BrowserStates

LEMMA InvInit == ASSUME Init PROVE Inv
<1> USE DEF Init
<1>1. published = 0 /\ Ids = {}
  BY DEF published, Ids
<1>2. TopicsOK
  BY <1>1, SseAssumption DEF TopicsOK
<1>3. StoreOK
  <2>1. recentEvents \in Seq(Ids) /\ Len(recentEvents) = 0 /\ epoch = 0
    OBVIOUS
  <2>2. StoreLimit \in Nat
    BY SseAssumption
  <2> QED BY <1>1, <2>1, <2>2 DEF StoreOK
<1>4. LastOK
  BY DEF LastOK
<1>5. ConnOK
  BY SseAssumption DEF ConnOK, ConnectionStates, Closed
<1>6. BrowserOK
  BY <1>1 DEF BrowserOK, BrowserStates
<1>7. ActiveConnectionsExact
  <2>1. Clients = {}
    BY DEF Clients, Closed
  <2> QED BY <2>1, FS_EmptySet DEF ActiveConnectionsExact
<1> QED BY <1>2, <1>3, <1>4, <1>5, <1>6, <1>7 DEF Inv

\* The events published and stored stay as they are.
LEMMA EventsKept ==
    ASSUME Inv, UNCHANGED <<topics, recentEvents, epoch>>, last' \in {last, None}
    PROVE  TopicsOK' /\ StoreOK' /\ LastOK' /\ published' = published
<1>1. published' = published /\ Ids' = Ids
  BY DEF published, Ids
<1> QED BY <1>1 DEF Inv, TopicsOK, StoreOK, LastOK

LEMMA ClosedType == Closed \in ConnectionStates
  BY SseAssumption DEF Closed, ConnectionStates

Opened(c, b) == [c EXCEPT !.open = TRUE, !.client = TRUE, !.browser = b]

LEMMA OpenedType ==
    ASSUME NEW c \in ConnectionStates, NEW b \in Browsers
    PROVE  LET r == Opened(c, b)
           IN  /\ r \in ConnectionStates
               /\ r.open /\ r.client /\ r.browser = b
               /\ r.idle = c.idle /\ r.due = c.due
<1> DEFINE yes == TRUE
           r == [c EXCEPT !.open = yes, !.client = yes, !.browser = b]
<1>1. yes \in BOOLEAN
  OBVIOUS
<1> HIDE DEF yes
<1>2. /\ r \in ConnectionStates
      /\ r.open = yes /\ r.client = yes /\ r.browser = b
      /\ r.idle = c.idle /\ r.due = c.due
  BY <1>1 DEF ConnectionStates
<1>3. r = Opened(c, b)
  BY DEF Opened, yes
<1> HIDE DEF r
<1> QED BY <1>2, <1>3 DEF yes

Joined(x, k, j) == [x EXCEPT !.using = k, !.joined = j]

LEMMA JoinedType ==
    ASSUME NEW n \in Nat, NEW x \in BrowserStates(n), NEW k \in Connections,
           NEW j \in 0 .. n
    PROVE  LET y == Joined(x, k, j)
           IN  /\ y \in BrowserStates(n)
               /\ y.using = k /\ y.joined = j
               /\ y.cursor = x.cursor /\ y.got = x.got /\ y.filter = x.filter
  BY DEF BrowserStates, Joined

LEMMA SubscribeInv ==
    ASSUME Inv, NEW b \in Browsers, NEW k \in Connections, SubscribeToEvents(b, k)
    PROVE  Inv'
<1> DEFINE x == [browser[b] EXCEPT
                   !.using = k,
                   !.joined = IF browser[b].cursor = None THEN published
                              ELSE browser[b].joined]
           y == Receive(x, Opening(b))
           r == [Closed EXCEPT !.open = TRUE, !.client = TRUE, !.browser = b]
<1>1. /\ browser[b].using = None /\ ~conn[k].open
      /\ conn' = [conn EXCEPT ![k] = r]
      /\ browser' = [browser EXCEPT ![b] = y]
      /\ activeConnections' = activeConnections + 1
      /\ UNCHANGED <<topics, recentEvents, last, epoch>>
  BY DEF SubscribeToEvents
<1>2. TopicsOK' /\ StoreOK' /\ LastOK' /\ published' = published
  BY <1>1, EventsKept
<1>3. r \in ConnectionStates /\ r.open /\ r.client /\ r.browser = b /\ r.idle <= r.due
  <2>1. Closed.idle = 0 /\ Closed.due = 0
    BY DEF Closed
  <2>2. LET t == Opened(Closed, b)
        IN  /\ t \in ConnectionStates /\ t.open /\ t.client /\ t.browser = b
            /\ t.idle = Closed.idle /\ t.due = Closed.due
    BY ClosedType, OpenedType
  <2>3. r = Opened(Closed, b)
    BY DEF Opened
  <2> HIDE DEF r
  <2> QED BY <2>1, <2>2, <2>3
<1> HIDE DEF r
<1>4. ConnOK'
  BY <1>1, <1>3 DEF Inv, ConnOK
<1>5. published \in Nat
  BY PublishedType DEF Inv
<1>6. x \in BrowserStates(published) /\ x.using = k
  <2> DEFINE j == IF browser[b].cursor = None THEN published ELSE browser[b].joined
  <2>1. browser[b] \in BrowserStates(published)
    BY DEF Inv, BrowserOK
  <2>2. j \in 0 .. published
    BY <1>5, <2>1 DEF BrowserStates
  <2> HIDE DEF j
  <2>3. LET opened == Joined(browser[b], k, j)
        IN  opened \in BrowserStates(published) /\ opened.using = k
    BY <1>5, <2>1, <2>2, JoinedType
  <2> QED BY <2>3 DEF j, Joined
<1>7. Opening(b) \in Seq(1 .. published)
  BY <1>5, OpeningFacts DEF Inv, Ids
<1> HIDE DEF x
<1>8. y \in BrowserStates(published) /\ y.using = k
  BY <1>5, <1>6, <1>7, ReceiveFacts
<1> HIDE DEF y
<1>9. BrowserOK'
  <2>1. browser' \in [Browsers -> BrowserStates(published')]
    BY <1>1, <1>2, <1>8 DEF Inv, BrowserOK
  <2>2. ASSUME NEW a \in Browsers, browser'[a].using # None
        PROVE  /\ conn'[browser'[a].using].open
               /\ conn'[browser'[a].using].browser = a
    <3>1. CASE a = b
      BY <1>1, <1>3, <1>8, <3>1 DEF Inv, BrowserOK, ConnOK
    <3>2. CASE a # b
      <4>1. browser'[a] = browser[a]
        BY <1>1, <3>2 DEF Inv, BrowserOK
      <4>2. conn[browser[a].using].open /\ conn[browser[a].using].browser = a
        BY <2>2, <4>1 DEF Inv, BrowserOK
      <4>3. browser[a].using # k /\ browser[a].using \in Connections
        BY <1>1, <2>2, <4>1, <4>2 DEF Inv, BrowserOK, BrowserStates
      <4>4. conn'[browser[a].using] = conn[browser[a].using]
        BY <1>1, <4>3 DEF Inv, ConnOK
      <4> QED BY <4>1, <4>2, <4>4
    <3> QED BY <3>1, <3>2
  <2> QED BY <2>1, <2>2 DEF BrowserOK
<1>10. ActiveConnectionsExact'
  <2>1. Clients' = Clients \cup {k} /\ k \notin Clients
    BY <1>1, <1>3 DEF Clients, Inv, ConnOK
  <2>2. Cardinality(Clients') = Cardinality(Clients) + 1
    BY <2>1, ClientsType, FS_AddElement
  <2> QED BY <1>1, <2>2 DEF ActiveConnectionsExact, Inv
<1> QED BY <1>2, <1>4, <1>9, <1>10 DEF Inv

LEMMA PublishEffect ==
    ASSUME Inv, NEW topic \in Topics, PublishCacheInvalidation(topic)
    PROVE  /\ published \in Nat /\ published' = published + 1
           /\ topics'[published + 1] = topic
           /\ \A e \in Ids : topics'[e] = topics[e]
           /\ topics' \in Seq(Topics)
<1>1. topics \in Seq(Topics) /\ topics' = Append(topics, topic)
  BY DEF Inv, TopicsOK, PublishCacheInvalidation
<1> QED BY <1>1, AppendProperties, SeqFacts DEF published, Ids

\* A browser that an event reaches.
LEMMA ReceiveOne ==
    ASSUME NEW n \in Nat, NEW x \in BrowserStates(n)
    PROVE  LET y == Receive(x, <<n + 1>>)
           IN  /\ y \in BrowserStates(n + 1)
               /\ y.using = x.using /\ y.joined = x.joined /\ y.filter = x.filter
               /\ y.got = x.got \cup {n + 1}
<1>1. <<n + 1>> \in Seq(1 .. n + 1) /\ n + 1 \in Nat
  OBVIOUS
<1>2. Elements(<<n + 1>>) = {n + 1}
  BY DEF Elements
<1>3. x \in BrowserStates(n + 1)
  BY StatesGrow
<1> DEFINE m == n + 1
           s == <<m>>
<1>4. m \in Nat /\ x \in BrowserStates(m) /\ s \in Seq(1 .. m) /\ Elements(s) = {m}
  BY <1>1, <1>2, <1>3
<1> HIDE DEF m, s
<1>5. LET y == Receive(x, s)
      IN  /\ y \in BrowserStates(m)
          /\ y.using = x.using /\ y.joined = x.joined /\ y.filter = x.filter
          /\ y.got = x.got \cup {m}
  BY <1>4, ReceiveFacts
<1> QED BY <1>5 DEF m, s

LEMMA PublishInv ==
    ASSUME Inv, NEW topic \in Topics, PublishCacheInvalidation(topic)
    PROVE  Inv'
<1>1. /\ published \in Nat /\ published' = published + 1 /\ topics' \in Seq(Topics)
  BY PublishEffect
<1>2. /\ published < MaxEvents /\ StoreTwice(published + 1)
      /\ last' = IF Clients = {} THEN None ELSE published + 1
      /\ browser' = [b \in Browsers |->
            IF /\ browser[b].using \in Clients
               /\ browser[b].filter \in {Everything, topic}
            THEN Receive(browser[b], <<published + 1>>) ELSE browser[b]]
      /\ UNCHANGED <<activeConnections, conn, epoch>>
  BY DEF PublishCacheInvalidation
<1>3. TopicsOK'
  BY <1>1, <1>2, SseAssumption DEF TopicsOK
<1>4. StoreOK'
  BY <1>1, <1>2, StoreTwiceOK DEF Inv
<1>5. LastOK'
  BY <1>1, <1>2 DEF LastOK, Ids
<1>6. ConnOK' /\ ActiveConnectionsExact'
  BY <1>2 DEF Inv, ConnOK, ActiveConnectionsExact, Clients
<1>7. BrowserOK'
  <2>1. \A b \in Browsers : /\ browser'[b] \in BrowserStates(published + 1)
                            /\ browser'[b].using = browser[b].using
    <3> TAKE b \in Browsers
    <3>1. browser[b] \in BrowserStates(published)
      BY DEF Inv, BrowserOK
    <3> QED BY <1>1, <1>2, <3>1, ReceiveOne, StatesGrow
  <2>2. browser' \in [Browsers -> BrowserStates(published')]
    BY <1>1, <1>2, <2>1
  <2> QED BY <1>2, <2>1, <2>2 DEF Inv, BrowserOK
<1> QED BY <1>3, <1>4, <1>5, <1>6, <1>7 DEF Inv

Timed(c, due, idle) == [c EXCEPT !.due = due, !.idle = idle]

LEMMA TimedType ==
    ASSUME NEW c \in ConnectionStates, NEW due \in 0 .. 1 + Stall,
           NEW idle \in 0 .. Timeout + 1
    PROVE  LET r == Timed(c, due, idle)
           IN  /\ r \in ConnectionStates
               /\ r.open = c.open /\ r.client = c.client /\ r.browser = c.browser
               /\ r.due = due /\ r.idle = idle
  BY DEF ConnectionStates, Timed

\* Nothing but the times of connections changes.
LEMMA TimesOnly ==
    ASSUME Inv, conn' \in [Connections -> ConnectionStates],
           \A k \in Connections :
              /\ conn'[k].open = conn[k].open /\ conn'[k].browser = conn[k].browser
              /\ conn'[k].client = conn[k].client
              /\ conn[k].client => conn'[k].idle <= conn'[k].due,
           browser' \in [Browsers -> BrowserStates(published)],
           \A b \in Browsers : browser'[b].using = browser[b].using,
           UNCHANGED <<topics, recentEvents, last, activeConnections, epoch>>
    PROVE  Inv'
<1>1. TopicsOK' /\ StoreOK' /\ LastOK' /\ published' = published
  BY EventsKept
<1>2. ConnOK'
  BY DEF Inv, ConnOK
<1>3. Clients' = Clients
  BY DEF Clients
<1>4. ActiveConnectionsExact'
  BY <1>3 DEF Inv, ActiveConnectionsExact
<1>5. BrowserOK'
  BY <1>1 DEF Inv, BrowserOK, BrowserStates
<1> QED BY <1>1, <1>2, <1>4, <1>5 DEF Inv

LEMMA HeartbeatInv ==
    ASSUME Inv, NEW k \in Connections, Heartbeat(k)
    PROVE  Inv'
<1> DEFINE idle == IF conn[k].client THEN 0 ELSE conn[k].idle
           r == Timed(conn[k], 0, idle)
<1>1. conn[k] \in ConnectionStates
  BY DEF Inv, ConnOK
<1>2. 0 \in 0 .. 1 + Stall /\ 0 \in 0 .. Timeout + 1 /\ idle \in 0 .. Timeout + 1
  BY <1>1, SseAssumption DEF ConnectionStates
<1>3. conn' = [conn EXCEPT ![k] = r]
  BY DEF Heartbeat, Timed
<1>4. conn[k].client => idle <= 0
  OBVIOUS
<1> HIDE DEF idle
<1>5. /\ r \in ConnectionStates
      /\ r.open = conn[k].open /\ r.client = conn[k].client /\ r.browser = conn[k].browser
      /\ r.due = 0 /\ r.idle = idle
  BY <1>1, <1>2, TimedType
<1> HIDE DEF r
<1>6. /\ conn' \in [Connections -> ConnectionStates]
      /\ \A j \in Connections :
            /\ conn'[j].open = conn[j].open /\ conn'[j].browser = conn[j].browser
            /\ conn'[j].client = conn[j].client
            /\ conn[j].client => conn'[j].idle <= conn'[j].due
  BY <1>3, <1>4, <1>5 DEF Inv, ConnOK
<1>7. /\ browser' \in [Browsers -> BrowserStates(published)]
      /\ \A b \in Browsers : browser'[b].using = browser[b].using
  <2>1. CASE UNCHANGED browser
    BY <2>1 DEF Inv, BrowserOK
  <2>2. CASE browser' = [browser EXCEPT ![conn[k].browser].cursor = Foreign]
    <3> DEFINE c == conn[k].browser
    <3>1. browser' = [browser EXCEPT ![c].cursor = Foreign]
      BY <2>2
    <3> HIDE DEF c
    <3>2. \A b \in Browsers : /\ browser'[b] \in BrowserStates(published)
                              /\ browser'[b].using = browser[b].using
      <4> TAKE b \in Browsers
      <4>1. browser[b] \in BrowserStates(published)
        BY DEF Inv, BrowserOK
      <4>2. browser'[b] = browser[b] \/ browser'[b] = [browser[b] EXCEPT !.cursor = Foreign]
        BY <3>1 DEF Inv, BrowserOK
      <4> QED BY <4>1, <4>2 DEF BrowserStates
    <3>3. browser' = [b \in Browsers |-> browser'[b]]
      BY <3>1 DEF Inv, BrowserOK
    <3> QED BY <3>2, <3>3
  <2> QED BY <2>1, <2>2 DEF Heartbeat
<1>8. UNCHANGED <<topics, recentEvents, last, activeConnections, epoch>>
  BY DEF Heartbeat
<1> QED BY <1>6, <1>7, <1>8, TimesOnly

LEMMA TickInv == ASSUME Inv, Tick PROVE Inv'
<1> DEFINE due(k) == conn[k].due + 1
           idle(k) == Later(conn[k].idle)
<1>1. ASSUME NEW k \in Connections
      PROVE  /\ conn'[k] \in ConnectionStates
             /\ conn'[k].open = conn[k].open /\ conn'[k].client = conn[k].client
             /\ conn[k].client => conn'[k].idle <= conn'[k].due
             /\ conn[k].open => conn'[k].browser = conn[k].browser
  <2>1. conn[k] \in ConnectionStates
    BY DEF Inv, ConnOK
  <2>2. CASE ~conn[k].open
    <3>1. conn'[k] = Closed /\ ~conn[k].client
      BY <2>2 DEF Tick, Inv, ConnOK
    <3>2. Closed.open = FALSE /\ Closed.client = FALSE
      BY DEF Closed
    <3>3. conn[k].open \in BOOLEAN /\ conn[k].client \in BOOLEAN
      BY <2>1 DEF ConnectionStates
    <3> QED BY <2>2, <3>1, <3>2, <3>3, ClosedType
  <2>3. CASE conn[k].open
    <3>1. conn'[k] = Timed(conn[k], due(k), idle(k)) /\ conn[k].due < 1 + Stall
      BY <2>3 DEF Tick, Timed
    <3>2. conn[k].due \in 0 .. 1 + Stall /\ conn[k].idle \in 0 .. Timeout + 1
      BY <2>1 DEF ConnectionStates
    <3>3. due(k) \in 0 .. 1 + Stall
      BY <3>1, <3>2, SseAssumption
    <3>4. idle(k) \in 0 .. Timeout + 1 /\ idle(k) <= conn[k].idle + 1
      BY <3>2, SseAssumption DEF Later
    <3>5. conn[k].client => idle(k) <= due(k)
      <4>1. conn[k].client => conn[k].idle <= conn[k].due
        BY DEF Inv, ConnOK
      <4> DEFINE i == idle(k)
                 x == conn[k].idle
                 d == conn[k].due
      <4>2. i \in Int /\ x \in Int /\ d \in Int /\ i <= x + 1
            /\ (conn[k].client => x <= d)
        BY <3>2, <3>4, <4>1
      <4> HIDE DEF i, x, d
      <4>3. conn[k].client => i <= d + 1
        BY <4>2
      <4> QED BY <4>3 DEF i, d
    <3> HIDE DEF due, idle
    <3> QED BY <2>1, <3>1, <3>3, <3>4, <3>5, TimedType
  <2> QED BY <2>2, <2>3
<1>2. conn' \in [Connections -> ConnectionStates]
  BY <1>1 DEF Tick
<1>3. UNCHANGED <<topics, recentEvents, last, activeConnections, browser, epoch>>
  BY DEF Tick
<1>4. TopicsOK' /\ StoreOK' /\ LastOK' /\ published' = published
  BY <1>3, EventsKept
<1>5. ConnOK'
  BY <1>1, <1>2 DEF Inv, ConnOK
<1>6. Clients' = Clients
  BY <1>1 DEF Clients
<1>7. ActiveConnectionsExact'
  BY <1>3, <1>6 DEF Inv, ActiveConnectionsExact
<1>8. BrowserOK'
  BY <1>1, <1>3, <1>4 DEF Inv, BrowserOK, BrowserStates
<1> QED BY <1>4, <1>5, <1>7, <1>8 DEF Inv

Ended(c) == [c EXCEPT !.client = FALSE]

LEMMA EndedType ==
    ASSUME NEW c \in ConnectionStates
    PROVE  LET r == Ended(c)
           IN  /\ r \in ConnectionStates
               /\ r.open = c.open /\ ~r.client /\ r.browser = c.browser
               /\ r.due = c.due /\ r.idle = c.idle
<1> DEFINE no == FALSE
           r == [c EXCEPT !.client = no]
<1>1. no \in BOOLEAN
  OBVIOUS
<1> HIDE DEF no
<1>2. /\ r \in ConnectionStates
      /\ r.open = c.open /\ r.client = no /\ r.browser = c.browser
      /\ r.due = c.due /\ r.idle = c.idle
  BY <1>1 DEF ConnectionStates
<1>3. r = Ended(c)
  BY DEF Ended, no
<1> HIDE DEF r
<1> QED BY <1>2, <1>3 DEF no

LEMMA TimeoutEffect ==
    ASSUME Inv, CheckClientTimeouts, NEW k \in Connections
    PROVE  conn'[k] = IF k \in TimedOut THEN Ended(conn[k]) ELSE conn[k]
  BY DEF CheckClientTimeouts, Ended

LEMMA TimeoutInv == ASSUME Inv, CheckClientTimeouts PROVE Inv'
<1>1. UNCHANGED <<topics, recentEvents, browser, epoch>> /\ last' \in {last, None}
      /\ activeConnections' = activeConnections - Cardinality(TimedOut)
  BY DEF CheckClientTimeouts, Remaining
<1>2. TopicsOK' /\ StoreOK' /\ LastOK' /\ published' = published
  BY <1>1, EventsKept
<1>3. ASSUME NEW k \in Connections
      PROVE  /\ conn'[k] \in ConnectionStates
             /\ conn'[k].open = conn[k].open /\ conn'[k].browser = conn[k].browser
             /\ conn'[k].client = (conn[k].client /\ k \notin TimedOut)
             /\ conn'[k].due = conn[k].due /\ conn'[k].idle = conn[k].idle
  <2>1. conn[k] \in ConnectionStates
    BY DEF Inv, ConnOK
  <2>2. CASE k \in TimedOut
    <3>1. conn'[k] = Ended(conn[k])
      BY <2>2, TimeoutEffect
    <3>2. ~conn'[k].client /\ conn'[k].client \in BOOLEAN
      BY <2>1, <3>1, EndedType DEF ConnectionStates
    <3> QED BY <2>1, <2>2, <3>1, <3>2, EndedType
  <2>3. CASE k \notin TimedOut
    <3>1. conn[k].client \in BOOLEAN
      BY <2>1 DEF ConnectionStates
    <3> QED BY <2>1, <2>3, <3>1, TimeoutEffect
  <2> QED BY <2>2, <2>3
<1>4. conn' \in [Connections -> ConnectionStates]
  BY <1>3 DEF CheckClientTimeouts
<1>5. ConnOK'
  BY <1>3, <1>4 DEF Inv, ConnOK
<1>6. BrowserOK'
  BY <1>1, <1>2, <1>3 DEF Inv, BrowserOK, BrowserStates
<1>7. ActiveConnectionsExact'
  <2>1. TimedOut \in SUBSET Clients
    BY DEF TimedOut
  <2>2. Clients' = Clients \ TimedOut
    BY <1>3 DEF Clients
  <2> QED BY <1>1, <2>1, <2>2, ClientsType DEF Inv, ActiveConnectionsExact
<1> QED BY <1>2, <1>5, <1>6, <1>7 DEF Inv

LEMMA CloseInv ==
    ASSUME Inv, NEW k \in Connections, CloseConnection(k)
    PROVE  Inv'
<1>1. UNCHANGED <<topics, recentEvents, epoch>> /\ last' \in {last, None}
      /\ conn' = [conn EXCEPT ![k] = Closed]
  BY DEF CloseConnection, Remaining
<1>2. TopicsOK' /\ StoreOK' /\ LastOK' /\ published' = published
  BY <1>1, EventsKept
<1>3. ~Closed.open /\ ~Closed.client
  BY DEF Closed
<1>4. ConnOK'
  BY <1>1, <1>3, ClosedType DEF Inv, ConnOK
<1>5. \A a \in Browsers : /\ browser'[a] \in BrowserStates(published)
                          /\ \/ browser'[a] = browser[a] /\ browser[a].using # k
                             \/ browser'[a].using = None
  <2> TAKE a \in Browsers
  <2>1. browser[a] \in BrowserStates(published)
    BY DEF Inv, BrowserOK
  <2>2. CASE browser[a].using = k
    <3>1. k # None
      BY SseAssumption
    <3>2. conn[k].open /\ conn[k].browser = a
      BY <2>2, <3>1 DEF Inv, BrowserOK
    <3>3. browser' = [browser EXCEPT ![a].using = None]
      BY <2>2, <3>2 DEF CloseConnection, Attended
    <3> QED BY <2>1, <3>3 DEF Inv, BrowserOK, BrowserStates
  <2>3. CASE browser[a].using # k
    <3>1. CASE Attended(k)
      <4>1. browser' = [browser EXCEPT ![conn[k].browser].using = None]
            /\ browser[conn[k].browser].using = k
        BY <3>1 DEF CloseConnection, Attended
      <4>2. browser'[a] = browser[a]
        BY <2>3, <4>1 DEF Inv, BrowserOK
      <4> QED BY <2>1, <2>3, <4>2
    <3>2. CASE ~Attended(k)
      BY <2>1, <2>3, <3>2 DEF CloseConnection
    <3> QED BY <3>1, <3>2
  <2> QED BY <2>2, <2>3
<1>6. BrowserOK'
  <2>1. browser' \in [Browsers -> BrowserStates(published')]
    BY <1>2, <1>5 DEF CloseConnection, Inv, BrowserOK
  <2>2. ASSUME NEW a \in Browsers, browser'[a].using # None
        PROVE  conn'[browser'[a].using].open /\ conn'[browser'[a].using].browser = a
    <3>1. browser'[a] = browser[a] /\ browser[a].using # k
      BY <1>5, <2>2
    <3>2. conn[browser[a].using].open /\ conn[browser[a].using].browser = a
          /\ browser[a].using \in Connections
      BY <2>2, <3>1 DEF Inv, BrowserOK, BrowserStates
    <3>3. conn'[browser[a].using] = conn[browser[a].using]
      BY <1>1, <3>1, <3>2 DEF Inv, ConnOK
    <3> QED BY <3>1, <3>2, <3>3
  <2> QED BY <2>1, <2>2 DEF BrowserOK
<1>7. ActiveConnectionsExact'
  <2>1. Clients' = Clients \ {k}
    BY <1>1, <1>3 DEF Clients, Inv, ConnOK
  <2>2. Cardinality(Clients') = IF k \in Clients THEN Cardinality(Clients) - 1
                                ELSE Cardinality(Clients)
    BY <2>1, ClientsType, FS_RemoveElement
  <2>3. activeConnections' = IF k \in Clients THEN activeConnections - 1
                             ELSE activeConnections
    BY DEF CloseConnection, EndStream, Clients
  <2> QED BY <2>2, <2>3 DEF Inv, ActiveConnectionsExact
<1> QED BY <1>2, <1>4, <1>6, <1>7 DEF Inv

LEMMA VanishInv ==
    ASSUME Inv, NEW b \in Browsers, PeerVanishes(b)
    PROVE  Inv'
<1>1. UNCHANGED <<topics, recentEvents, last, activeConnections, conn, epoch>>
      /\ browser' = [browser EXCEPT ![b].using = None]
  BY DEF PeerVanishes
<1>2. TopicsOK' /\ StoreOK' /\ LastOK' /\ published' = published
  BY <1>1, EventsKept
<1>3. ConnOK' /\ ActiveConnectionsExact'
  BY <1>1 DEF Inv, ConnOK, ActiveConnectionsExact, Clients
<1>4. BrowserOK'
  BY <1>1, <1>2 DEF Inv, BrowserOK, BrowserStates
<1> QED BY <1>2, <1>3, <1>4 DEF Inv

LEMMA RestartInv == ASSUME Inv, Restart PROVE Inv'
<1> USE DEF Restart
<1>1. published' = published /\ published \in Nat /\ Ids' = Ids
  BY PublishedType DEF Inv, published, Ids
<1>2. TopicsOK'
  BY <1>1 DEF Inv, TopicsOK
<1>3. StoreOK'
  <2>1. recentEvents' \in Seq(Ids') /\ Len(recentEvents') = 0 /\ epoch' = published'
    BY <1>1
  <2>2. StoreLimit \in Nat
    BY SseAssumption
  <2> QED BY <1>1, <2>1, <2>2 DEF StoreOK
<1>4. LastOK'
  BY DEF LastOK
<1>5. ConnOK'
  <2>1. ~Closed.open /\ ~Closed.client
    BY DEF Closed
  <2> QED BY <2>1, ClosedType DEF ConnOK
<1>6. BrowserOK'
  <2>1. ASSUME NEW b \in Browsers
        PROVE  /\ browser'[b] \in BrowserStates(published)
               /\ browser'[b].using = None
    <3>1. browser[b] \in BrowserStates(published)
      BY DEF Inv, BrowserOK
    <3>2. browser'[b] = [browser[b] EXCEPT !.using = None]
      OBVIOUS
    <3> QED BY <3>1, <3>2 DEF BrowserStates
  <2>2. browser' = [b \in Browsers |-> browser'[b]]
    OBVIOUS
  <2> QED BY <1>1, <2>1, <2>2 DEF BrowserOK
<1>7. ActiveConnectionsExact'
  <2>1. Clients' = {}
    BY DEF Clients, Closed
  <2> QED BY <2>1, FS_EmptySet DEF ActiveConnectionsExact
<1> QED BY <1>2, <1>3, <1>4, <1>5, <1>6, <1>7 DEF Inv

LEMMA InvNext == ASSUME Inv, [Next]_vars PROVE Inv'
<1>1. CASE UNCHANGED vars
  BY <1>1 DEF vars, Inv, TopicsOK, StoreOK, LastOK, ConnOK, BrowserOK,
              ActiveConnectionsExact, Clients, published, Ids
<1> QED
  BY <1>1, SubscribeInv, PublishInv, HeartbeatInv, TimeoutInv, CloseInv, VanishInv,
     RestartInv, TickInv DEF Next

LEMMA InvHolds == Spec => []Inv
<1>1. Init => Inv
  BY InvInit
<1>2. Inv /\ [Next]_vars => Inv'
  BY InvNext
<1> QED BY <1>1, <1>2, PTL DEF Spec

\* The events, the store, the connections and the subscribers keep their types: no
\* subscriber knows an id before it is published, however it connects, vanishes,
\* times out or comes back, and only an open connection is a client.
THEOREM TypeCorrect == Spec => []TypeOK
<1>1. Inv => TypeOK
  BY InvTypeOK
<1> QED BY <1>1, InvHolds, PTL

\* The counter behind GET /sse/stats is the number of streams that run: the close
\* handler and the timeout check, in either order, count each stream down once.
THEOREM ActiveConnectionsExactHolds == Spec => []ActiveConnectionsExact
<1>1. Inv => ActiveConnectionsExact
  BY DEF Inv
<1> QED BY <1>1, InvHolds, PTL

\* Whatever id a subscriber presents, its new stream opens with events in the order
\* in which they were published, the buffered one behind the replayed ones.
THEOREM OpensInOrderHolds == Spec => []OpensInOrder
<1>1. Inv => OpensInOrder
  BY PublishedType, OpeningFacts DEF Inv, OpensInOrder, Sorted
<1> QED BY <1>1, InvHolds, PTL

\* checkClientTimeouts ends the stream of an open connection only when the
\* heartbeat of that connection is itself overdue: a running stream is never idle
\* for longer than that, for every timeout and every stall of the timers.
THEOREM CutOffOnlyOverdueHolds == Spec => CutOffOnlyOverdue
<1>1. ASSUME Inv, [Next]_vars, NEW k \in Connections,
             conn[k].client, conn'[k].open, ~conn'[k].client
      PROVE  conn[k].due > Timeout
  <2>0. conn[k] \in ConnectionStates /\ conn \in [Connections -> ConnectionStates]
    BY <1>1 DEF Inv, ConnOK
  <2>1. CASE CheckClientTimeouts
    <3>1. k \in TimedOut
      BY <1>1, <2>1, TimeoutEffect
    <3>2. conn[k].idle > Timeout /\ conn[k].idle <= conn[k].due
      BY <1>1, <3>1 DEF TimedOut, Clients, Inv, ConnOK
    <3>3. conn[k].idle \in Int /\ conn[k].due \in Int
      BY <2>0 DEF ConnectionStates
    <3> QED BY <3>2, <3>3, SseAssumption
  <2>2. ASSUME NEW b \in Browsers, NEW j \in Connections, SubscribeToEvents(b, j)
        PROVE  FALSE
    <3>1. /\ ~conn[j].open
          /\ conn' = [conn EXCEPT ![j] =
                [Closed EXCEPT !.open = TRUE, !.client = TRUE, !.browser = b]]
      BY <2>2 DEF SubscribeToEvents
    <3>2. j # k
      BY <1>1, <3>1 DEF Inv, ConnOK
    <3>3. conn'[k] = conn[k]
      BY <2>0, <3>1, <3>2
    <3> QED BY <1>1, <3>3
  <2>3. ASSUME NEW j \in Connections, Heartbeat(j) PROVE FALSE
    <3>1. conn'[k].client = conn[k].client
      <4>1. CASE j = k
        BY <2>0, <2>3, <4>1 DEF Heartbeat, ConnectionStates
      <4>2. CASE j # k
        BY <2>0, <2>3, <4>2 DEF Heartbeat
      <4> QED BY <4>1, <4>2
    <3> QED BY <1>1, <3>1
  <2>4. ASSUME NEW j \in Connections, CloseConnection(j) PROVE FALSE
    BY <1>1, <2>0, <2>4 DEF CloseConnection, Closed
  <2>5. CASE Restart
    BY <1>1, <2>5 DEF Restart, Closed
  <2>6. ASSUME Tick PROVE FALSE
    <3>1. conn[k].open
      BY <1>1 DEF Inv, ConnOK
    <3>2. conn'[k].client = conn[k].client
      BY <2>0, <2>6, <3>1 DEF Tick, ConnectionStates
    <3> QED BY <1>1, <3>2
  <2>7. CASE UNCHANGED conn
    BY <1>1, <2>7
  <2> QED
    BY <1>1, <2>1, <2>2, <2>3, <2>4, <2>5, <2>6, <2>7
    DEF Next, PublishCacheInvalidation, PeerVanishes, vars
<1>2. Inv /\ [Next]_vars =>
        \A k \in Connections :
           conn[k].client /\ conn'[k].open /\ ~conn'[k].client => conn[k].due > Timeout
  BY <1>1
<1> QED BY <1>2, InvHolds, PTL DEF Spec, CutOffOnlyOverdue

-----------------------------------------------------------------------------
(* No subscriber has a hole.                                               *)

\* b wants e, has not got it, and the store still has it.
Missed(b, e) ==
    /\ e \in (browser[b].joined + 1) .. published
    /\ Matches(b, e)
    /\ e \notin browser[b].got
    /\ e > epoch
    /\ published - e < Capacity

\* Such an event is still to come to b: b has no running stream, and the id that it
\* will present does not hide the event from the replay.
Ahead(b) ==
    \A e \in Ids : Missed(b, e) =>
       /\ browser[b].using \notin Clients
       /\ ~(browser[b].cursor \in Ids /\ e <= browser[b].cursor)

HoleInv == \A b \in Browsers : Ahead(b)

LEMMA BrowserType ==
    ASSUME Inv, NEW b \in Browsers
    PROVE  /\ published \in Nat /\ epoch \in Nat
           /\ browser[b] \in BrowserStates(published)
           /\ browser[b].joined \in Nat /\ browser[b].joined <= published
           /\ None \notin Clients /\ None \notin Nat /\ Foreign \notin Nat
<1>1. published \in Nat /\ epoch \in Nat
  BY PublishedType, StoreTypes DEF Inv
<1>2. browser[b] \in BrowserStates(published)
  BY DEF Inv, BrowserOK
<1>3. browser[b].joined \in Nat /\ browser[b].joined <= published
  BY <1>1, <1>2 DEF BrowserStates
<1> QED BY <1>1, <1>2, <1>3, SseAssumption DEF Clients

\* A step that brings b nothing, and no id that would hide something.
LEMMA AheadKept ==
    ASSUME Inv, Inv', NEW b \in Browsers, Ahead(b),
           UNCHANGED topics, epoch <= epoch',
           browser'[b].got = browser[b].got, browser'[b].joined = browser[b].joined,
           browser'[b].filter = browser[b].filter,
           browser'[b].using \in Clients' => browser[b].using \in Clients,
           browser'[b].cursor = browser[b].cursor \/ browser'[b].cursor \notin Ids
    PROVE  Ahead(b)'
<1>1. published' = published /\ Ids' = Ids /\ Capacity' = Capacity
  BY DEF published, Ids, Capacity
<1>2. epoch \in Nat /\ epoch' \in Nat
  BY StoreTypes, PublishedType DEF Inv, StoreOK
<1>3. ASSUME NEW e \in Ids, Missed(b, e)' PROVE Missed(b, e)
  <2>1. e \in Nat /\ epoch < e
    BY <1>2, <1>3 DEF Missed, Ids
  <2> QED BY <1>1, <1>3, <2>1 DEF Missed, Matches
<1> QED BY <1>1, <1>3 DEF Ahead

LEMMA SubscribeAhead ==
    ASSUME Inv, Inv', HoleInv, NEW b \in Browsers, NEW k \in Connections,
           SubscribeToEvents(b, k)
    PROVE  HoleInv'
<1> DEFINE j == IF browser[b].cursor = None THEN published ELSE browser[b].joined
           x == Joined(browser[b], k, j)
           y == Receive(x, Opening(b))
<1>1. /\ ~conn[k].open
      /\ browser' = [browser EXCEPT ![b] = y]
      /\ conn' = [conn EXCEPT ![k] =
            [Closed EXCEPT !.open = TRUE, !.client = TRUE, !.browser = b]]
      /\ UNCHANGED <<topics, epoch, recentEvents>>
  BY DEF SubscribeToEvents, Joined
<1>2. published' = published /\ Ids' = Ids /\ Capacity' = Capacity
  BY <1>1 DEF published, Ids, Capacity
<1>3. ASSUME NEW a \in Browsers, a # b PROVE Ahead(a)'
  <2>1. browser'[a] = browser[a]
    BY <1>1, <1>3 DEF Inv, BrowserOK
  <2>2. ASSUME browser[a].using \in Clients' PROVE browser[a].using \in Clients
    <3>1. browser[a].using \in Connections
      BY <2>2 DEF Clients
    <3>2. browser[a].using # None
      BY <3>1, SseAssumption
    <3>3. browser[a].using # k
      BY <1>1, <3>2 DEF Inv, BrowserOK
    <3> QED BY <1>1, <2>2, <3>1, <3>3 DEF Clients, Inv, ConnOK
  <2>3. epoch' = epoch /\ epoch \in Nat /\ Ahead(a)
    BY <1>1, BrowserType DEF HoleInv
  <2> QED BY <1>1, <2>1, <2>2, <2>3, AheadKept
<1>4. Ahead(b)'
  <2>1. published \in Nat /\ browser[b] \in BrowserStates(published)
        /\ browser[b].joined \in Nat /\ browser[b].joined <= published
    BY BrowserType
  <2>2. j \in 0 .. published
    BY <2>1
  <2> HIDE DEF j
  <2>3. /\ x \in BrowserStates(published) /\ x.joined = j
        /\ x.got = browser[b].got /\ x.filter = browser[b].filter
    BY <2>1, <2>2, JoinedType
  <2> HIDE DEF x
  <2>4. Opening(b) \in Seq(1 .. published)
        /\ Elements(Replay(b)) \subseteq Elements(Opening(b))
    BY <2>1, OpeningFacts DEF Inv, Ids
  <2>5. /\ y.joined = j /\ y.filter = browser[b].filter
        /\ y.got = browser[b].got \cup Elements(Opening(b))
    BY <2>1, <2>3, <2>4, ReceiveFacts
  <2> HIDE DEF y
  <2>6. browser'[b] = y
    BY <1>1 DEF Inv, BrowserOK
  <2>7. ASSUME NEW e \in Ids, Missed(b, e)' PROVE FALSE
    <3>1. e \in Nat /\ e \in (j + 1) .. published /\ Matches(b, e)
          /\ e \notin browser[b].got /\ e \notin Elements(Opening(b))
          /\ e > epoch /\ published - e < Capacity
      BY <1>1, <1>2, <2>5, <2>6, <2>7 DEF Missed, Matches, Ids
    <3>2. browser[b].cursor # None /\ j = browser[b].joined
      BY <2>1, <3>1 DEF j
    <3>3. Missed(b, e)
      BY <3>1, <3>2 DEF Missed
    <3>4. ~(browser[b].cursor \in Ids /\ e <= browser[b].cursor)
      BY <3>3 DEF HoleInv, Ahead
    <3>5. e \in Elements(recentEvents)
      <4>1. epoch < e /\ e <= published
        BY <2>1, <3>1, BrowserType
      <4> QED BY <2>1, <3>1, <4>1, StoreHolds DEF Inv
    <3>6. e \in Elements(Replay(b))
      BY <2>1, <3>1, <3>2, <3>4, <3>5, ReplayFacts DEF Inv
    <3> QED BY <2>4, <3>1, <3>6
  <2> QED BY <1>2, <2>7 DEF Ahead
<1> QED BY <1>3, <1>4 DEF HoleInv

LEMMA PublishAhead ==
    ASSUME Inv, Inv', HoleInv, NEW topic \in Topics, PublishCacheInvalidation(topic)
    PROVE  HoleInv'
<1> DEFINE p == published
<1>1. /\ p \in Nat /\ published' = p + 1 /\ topics'[p + 1] = topic
      /\ \A e \in Ids : topics'[e] = topics[e]
  BY PublishEffect
<1>2. /\ browser' = [b \in Browsers |->
            IF /\ browser[b].using \in Clients
               /\ browser[b].filter \in {Everything, topic}
            THEN Receive(browser[b], <<p + 1>>) ELSE browser[b]]
      /\ Clients' = Clients /\ epoch' = epoch
  BY DEF PublishCacheInvalidation, Clients
<1>3. SUFFICES ASSUME NEW b \in Browsers, NEW e \in Ids', Missed(b, e)'
               PROVE  /\ browser'[b].using \notin Clients'
                      /\ ~(browser'[b].cursor \in Ids' /\ e <= browser'[b].cursor)
  BY DEF HoleInv, Ahead
<1>4. /\ browser[b] \in BrowserStates(p) /\ epoch \in Nat /\ Capacity \in Nat
      /\ browser[b].joined \in Nat
  BY BrowserType, CapacityType
<1>5. LET y == Receive(browser[b], <<p + 1>>)
      IN  /\ y.using = browser[b].using /\ y.joined = browser[b].joined
          /\ y.filter = browser[b].filter /\ y.got = browser[b].got \cup {p + 1}
  BY <1>1, <1>4, ReceiveOne
<1>6. /\ browser'[b].using = browser[b].using /\ browser'[b].joined = browser[b].joined
      /\ browser'[b].filter = browser[b].filter
      /\ browser[b].got \subseteq browser'[b].got
  BY <1>2, <1>5
<1>7. /\ e \in Nat /\ (e \in Ids \/ e = p + 1)
      /\ e \in (browser[b].joined + 1) .. (p + 1)
      /\ browser[b].filter \in {Everything, topics'[e]}
      /\ e \notin browser'[b].got /\ e > epoch /\ (p + 1) - e < Capacity
  BY <1>1, <1>2, <1>3, <1>6 DEF Missed, Matches, Ids, Capacity
<1>8. CASE e \in Ids
  <2>1. e \in (browser[b].joined + 1) .. p /\ p - e < Capacity
    BY <1>1, <1>4, <1>7, <1>8 DEF Ids
  <2>2. Matches(b, e) /\ e \notin browser[b].got
    BY <1>1, <1>6, <1>7, <1>8 DEF Matches
  <2>3. Missed(b, e)
    BY <1>7, <2>1, <2>2 DEF Missed
  <2>4. /\ browser[b].using \notin Clients
        /\ ~(browser[b].cursor \in Ids /\ e <= browser[b].cursor)
    BY <1>8, <2>3 DEF HoleInv, Ahead
  <2>5. browser'[b] = browser[b]
    BY <1>2, <2>4
  <2>6. browser[b].cursor \in Ids' => browser[b].cursor \in Ids
    <3>1. browser[b].cursor \in Ids \cup {None, Foreign}
      BY <1>4 DEF BrowserStates, Ids
    <3>2. None \notin Ids' /\ Foreign \notin Ids'
      BY <1>1, BrowserType DEF Ids
    <3> QED BY <3>1, <3>2
  <2> QED BY <1>2, <2>4, <2>5, <2>6
<1>9. CASE e = p + 1
  <2>1. browser[b].filter \in {Everything, topic}
    BY <1>1, <1>7, <1>9
  <2>2. browser[b].using \notin Clients
    BY <1>2, <1>5, <1>7, <1>9, <2>1
  <2>3. browser'[b] = browser[b]
    BY <1>2, <2>2
  <2>4. ~(browser[b].cursor \in Ids' /\ p + 1 <= browser[b].cursor)
    <3>1. browser[b].cursor \in Ids \cup {None, Foreign}
      BY <1>4 DEF BrowserStates, Ids
    <3>2. None \notin Ids' /\ Foreign \notin Ids'
      BY <1>1, BrowserType DEF Ids
    <3>3. \A c \in Ids : ~(p + 1 <= c)
      BY <1>1 DEF Ids
    <3> QED BY <3>1, <3>2, <3>3
  <2> QED BY <1>2, <1>9, <2>2, <2>3, <2>4
<1> QED BY <1>7, <1>8, <1>9

\* A step that neither publishes nor brings a browser anything, nor a stream.
Quiet ==
    /\ UNCHANGED <<topics, epoch>>
    /\ \A b \in Browsers :
          /\ browser'[b].got = browser[b].got /\ browser'[b].joined = browser[b].joined
          /\ browser'[b].filter = browser[b].filter
          /\ browser'[b].using \in Clients' => browser[b].using \in Clients
          /\ browser'[b].cursor = browser[b].cursor \/ browser'[b].cursor = Foreign

\* Browsers that at most lose their connection.
LEMMA LeftAlone ==
    ASSUME Inv, Clients' \subseteq Clients, UNCHANGED <<topics, epoch>>,
           \A b \in Browsers : browser'[b] = browser[b]
                                  \/ browser'[b] = [browser[b] EXCEPT !.using = None]
    PROVE  Quiet
<1> SUFFICES ASSUME NEW b \in Browsers
             PROVE  /\ browser'[b].got = browser[b].got
                    /\ browser'[b].joined = browser[b].joined
                    /\ browser'[b].filter = browser[b].filter
                    /\ browser'[b].using \in Clients' => browser[b].using \in Clients
                    /\ browser'[b].cursor = browser[b].cursor
  BY DEF Quiet
<1>1. browser[b] \in BrowserStates(published) /\ None \notin Clients
  BY BrowserType
<1>2. /\ browser'[b].got = browser[b].got /\ browser'[b].joined = browser[b].joined
      /\ browser'[b].filter = browser[b].filter /\ browser'[b].cursor = browser[b].cursor
      /\ browser'[b].using = browser[b].using \/ browser'[b].using = None
  BY <1>1 DEF BrowserStates
<1> QED BY <1>1, <1>2

LEMMA QuietNext ==
    ASSUME Inv, Inv', [Next]_vars
    PROVE  \/ \E b \in Browsers, k \in Connections : SubscribeToEvents(b, k)
           \/ \E topic \in Topics : PublishCacheInvalidation(topic)
           \/ Restart
           \/ Quiet
<1>1. ASSUME NEW k \in Connections, Heartbeat(k) PROVE Quiet
  <2>1. Clients' = Clients
    <3>1. ASSUME NEW j \in Connections PROVE conn'[j].client = conn[j].client
      BY <1>1 DEF Heartbeat, Inv, ConnOK, ConnectionStates
    <3> QED BY <3>1 DEF Clients
  <2>2. UNCHANGED <<topics, epoch>>
    BY <1>1 DEF Heartbeat
  <2>3. ASSUME NEW b \in Browsers
        PROVE  /\ browser'[b].got = browser[b].got /\ browser'[b].joined = browser[b].joined
               /\ browser'[b].filter = browser[b].filter
               /\ browser'[b].using = browser[b].using
               /\ browser'[b].cursor = browser[b].cursor \/ browser'[b].cursor = Foreign
    <3>1. browser[b] \in BrowserStates(published)
      BY BrowserType
    <3>2. browser'[b] = browser[b] \/ browser'[b] = [browser[b] EXCEPT !.cursor = Foreign]
      BY <1>1 DEF Heartbeat, Inv, BrowserOK
    <3> QED BY <3>1, <3>2 DEF BrowserStates
  <2> QED BY <2>1, <2>2, <2>3 DEF Quiet
<1>2. ASSUME CheckClientTimeouts PROVE Quiet
  <2>1. Clients' \subseteq Clients
    <3>1. ASSUME NEW k \in Connections, ~conn[k].client PROVE conn'[k] = conn[k]
      BY <1>2, <3>1, TimeoutEffect DEF TimedOut, Clients
    <3> QED BY <3>1 DEF Clients
  <2>2. UNCHANGED <<topics, epoch, browser>>
    BY <1>2 DEF CheckClientTimeouts
  <2> QED BY <2>1, <2>2 DEF Quiet
<1>3. ASSUME NEW k \in Connections, CloseConnection(k) PROVE Quiet
  <2>1. Clients' \subseteq Clients
    BY <1>3 DEF CloseConnection, Clients, Closed, Inv, ConnOK
  <2>2. UNCHANGED <<topics, epoch>>
    BY <1>3 DEF CloseConnection
  <2>3. ASSUME NEW b \in Browsers
        PROVE  browser'[b] = browser[b] \/ browser'[b] = [browser[b] EXCEPT !.using = None]
    BY <1>3 DEF CloseConnection, Inv, BrowserOK
  <2> QED BY <2>1, <2>2, <2>3, LeftAlone
<1>4. ASSUME NEW a \in Browsers, PeerVanishes(a) PROVE Quiet
  <2>1. Clients' = Clients /\ UNCHANGED <<topics, epoch>>
    BY <1>4 DEF PeerVanishes, Clients
  <2>2. ASSUME NEW b \in Browsers
        PROVE  browser'[b] = browser[b] \/ browser'[b] = [browser[b] EXCEPT !.using = None]
    BY <1>4 DEF PeerVanishes, Inv, BrowserOK
  <2> QED BY <2>1, <2>2, LeftAlone
<1>5. ASSUME Tick PROVE Quiet
  <2>1. ASSUME NEW k \in Connections PROVE conn'[k].client => conn[k].client
    <3>1. CASE conn[k].open
      <4>1. conn[k] \in ConnectionStates
        BY DEF Inv, ConnOK
      <4>2. conn'[k] = [conn[k] EXCEPT !.due = @ + 1, !.idle = Later(@)]
        BY <1>5, <3>1 DEF Tick
      <4> QED BY <4>1, <4>2 DEF ConnectionStates
    <3>2. CASE ~conn[k].open
      BY <1>5, <3>2 DEF Tick, Closed
    <3> QED BY <3>1, <3>2
  <2>2. Clients' \subseteq Clients
    BY <2>1 DEF Clients
  <2>3. UNCHANGED <<topics, epoch, browser>>
    BY <1>5 DEF Tick
  <2> QED BY <2>2, <2>3 DEF Quiet
<1>6. CASE UNCHANGED vars
  BY <1>6 DEF vars, Clients, Quiet
<1> QED BY <1>1, <1>2, <1>3, <1>4, <1>5, <1>6 DEF Next

LEMMA HoleNext == ASSUME Inv, Inv', HoleInv, [Next]_vars PROVE HoleInv'
<1>0. epoch \in Nat /\ published \in Nat
  BY StoreTypes, PublishedType DEF Inv
<1>1. CASE Restart
  <2>1. epoch' = published' /\ published' \in Nat
    BY <1>0, <1>1 DEF Restart, published
  <2>2. ASSUME NEW b \in Browsers, NEW e \in Ids' PROVE ~Missed(b, e)'
    BY <2>1, <2>2 DEF Missed, Ids
  <2> QED BY <2>2 DEF HoleInv, Ahead
<1>2. CASE Quiet
  <2>1. UNCHANGED <<topics, epoch>> /\ epoch <= epoch'
    BY <1>0, <1>2 DEF Quiet
  <2>2. ASSUME NEW b \in Browsers PROVE Ahead(b)'
    <3>1. Foreign \notin Ids
      BY BrowserType DEF Ids
    <3> QED BY <1>2, <2>1, <3>1, AheadKept DEF HoleInv, Quiet
  <2> QED BY <2>2 DEF HoleInv
<1> QED BY <1>1, <1>2, QuietNext, SubscribeAhead, PublishAhead

\* A subscriber that comes back has no hole in what it received, whatever id it
\* presents (an old one, one the service never gave, one stored twice): an event it
\* wants is missing only if the server restarted after it, or so many events
\* followed that a store of StoreLimit, which holds each twice, has lost it.
THEOREM NoHoleHolds == Spec => []NoHole
<1>1. Init => HoleInv
  BY DEF Init, HoleInv, Ahead, Ids, published
<1>2. Inv /\ Inv' /\ HoleInv /\ [Next]_vars => HoleInv'
  BY HoleNext
<1>3. Inv /\ HoleInv => NoHole
  <2> SUFFICES ASSUME Inv, HoleInv, NEW b \in Browsers, browser[b].using \in Clients,
                      NEW e \in (browser[b].joined + 1) .. published,
                      Matches(b, e), e \notin browser[b].got, ~(e <= epoch),
                      ~(published - e >= Capacity)
               PROVE  FALSE
    BY DEF NoHole
  <2>1. /\ published \in Nat /\ epoch \in Nat /\ browser[b].joined \in Nat
        /\ Capacity \in Nat
    BY BrowserType, CapacityType
  <2>2. e \in Ids /\ e > epoch /\ published - e < Capacity
    BY <2>1 DEF Ids
  <2>3. Missed(b, e)
    BY <2>2 DEF Missed
  <2> QED BY <2>2, <2>3 DEF HoleInv, Ahead
<1> QED BY <1>1, <1>2, <1>3, InvHolds, PTL DEF Spec

-----------------------------------------------------------------------------
(* The refinement: the stream is a feed with replay.                       *)

Served == {b \in Browsers : browser[b].using \in Clients}

FeedGot == [b \in Browsers |-> browser[b].got]
FeedSince == [b \in Browsers |-> browser[b].joined]
FeedFilter == [b \in Browsers |-> browser[b].filter]

\* The variables of the feed, in terms of the stream.
FeedVars == <<topics, Forgotten, Served, FeedGot, FeedSince, FeedFilter>>

\* A new stream replays only what its subscription matches.
LEMMA OpeningMatches ==
    ASSUME Inv, NEW b \in Browsers, NEW e \in Elements(Opening(b))
    PROVE  e \in Ids /\ Matches(b, e)
<1>1. published \in Nat /\ StoreOK /\ LastOK
  BY BrowserType DEF Inv
<1>2. Opening(b) \in Seq(Ids)
  BY <1>1, OpeningFacts
<1>3. e \in Ids
  BY <1>2, SeqFacts DEF Elements
<1>4. Replay(b) \in Seq(Ids)
  BY <1>1, ReplayFacts
<1>5. \A x \in Elements(Replay(b)) : Matches(b, x)
  <2>1. CASE browser[b].cursor = None
    BY <2>1 DEF Replay, Elements
  <2>2. CASE browser[b].cursor # None
    <3> DEFINE s == GetEventsSince(browser[b].cursor)
               I == {i \in DOMAIN s : Matches(b, s[i])}
    <3>1. s \in Seq(Ids)
      BY <1>1, EventsSince
    <3>2. Replay(b) = Filter(s, I)
      BY <2>2 DEF Replay
    <3> HIDE DEF s
    <3>3. Elements(Replay(b)) = {s[i] : i \in I \cap DOMAIN s}
      BY <3>1, <3>2, FilterElements
    <3> QED BY <3>3
  <2> QED BY <2>1, <2>2
<1>6. CASE Buffered(b) = <<>>
  <2>1. Opening(b) = Replay(b)
    BY <1>4, <1>6, ConcatEmptySeq DEF Opening
  <2> QED BY <1>3, <1>5, <2>1
<1>7. CASE Buffered(b) = <<last>> /\ last # None /\ Matches(b, last)
  <2>1. last \in Ids
    BY <1>1, <1>7 DEF LastOK
  <2>2. Opening(b) = Append(Replay(b), last)
    BY <1>4, <1>7, <2>1, AppendIsConcat DEF Opening
  <2>3. Elements(Opening(b)) = Elements(Replay(b)) \cup {last}
    BY <1>4, <2>1, <2>2, AppendElements
  <2> QED BY <1>3, <1>5, <1>7, <2>3
<1> QED BY <1>6, <1>7 DEF Buffered

\* Who presents no id has received nothing.
Fresh == \A b \in Browsers : browser[b].cursor = None => browser[b].got = {}

LEMMA ReceiveFresh ==
    ASSUME NEW n, NEW x \in BrowserStates(n), NEW s \in Seq(Nat),
           Receive(x, s).cursor = None, x.cursor = None => x.got = {}
    PROVE  Receive(x, s).got = {}
<1>1. CASE s = <<>>
  BY <1>1 DEF Receive
<1>2. CASE s # <<>>
  <2>1. s[Len(s)] \in Nat
    BY <1>2, SeqFacts, EmptySeq
  <2>2. Receive(x, s).cursor = s[Len(s)]
    BY <1>2 DEF Receive, BrowserStates
  <2> QED BY <2>1, <2>2, SseAssumption
<1> QED BY <1>1, <1>2

LEMMA FreshNext == ASSUME Inv, Inv', Fresh, [Next]_vars PROVE Fresh'
<1> SUFFICES ASSUME NEW b \in Browsers, browser'[b].cursor = None
             PROVE  browser'[b].got = {}
  BY DEF Fresh
<1>0. browser[b] \in BrowserStates(published) /\ published \in Nat
      /\ (browser[b].cursor = None => browser[b].got = {})
  BY BrowserType DEF Fresh
<1>1. ASSUME NEW a \in Browsers, NEW k \in Connections, SubscribeToEvents(a, k)
      PROVE  browser'[b].got = {}
  <2> DEFINE j == IF browser[a].cursor = None THEN published ELSE browser[a].joined
             x == Joined(browser[a], k, j)
  <2>1. browser' = [browser EXCEPT ![a] = Receive(x, Opening(a))]
    BY <1>1 DEF SubscribeToEvents, Joined
  <2>2. CASE a # b
    BY <1>0, <2>1, <2>2 DEF Inv, BrowserOK
  <2>3. CASE a = b
    <3>1. j \in 0 .. published
      BY <1>0, <2>3 DEF BrowserStates
    <3> HIDE DEF j
    <3>2. x \in BrowserStates(published)
          /\ x.cursor = browser[b].cursor /\ x.got = browser[b].got
      BY <1>0, <2>3, <3>1, JoinedType
    <3> HIDE DEF x
    <3>3. Opening(a) \in Seq(Nat)
      <4>1. Opening(a) \in Seq(Ids)
        BY <1>0, OpeningFacts DEF Inv
      <4>2. Ids \subseteq Nat
        BY <1>0 DEF Ids
      <4> QED BY <4>1, <4>2, SeqMonotonic
    <3>4. browser'[b] = Receive(x, Opening(a))
      BY <2>1, <2>3 DEF Inv, BrowserOK
    <3> QED BY <1>0, <3>2, <3>3, <3>4, ReceiveFresh
  <2> QED BY <2>2, <2>3
<1>2. ASSUME NEW topic \in Topics, PublishCacheInvalidation(topic)
      PROVE  browser'[b].got = {}
  <2>1. browser'[b] \in {browser[b], Receive(browser[b], <<published + 1>>)}
    BY <1>2 DEF PublishCacheInvalidation
  <2>2. <<published + 1>> \in Seq(Nat)
    BY <1>0
  <2> QED BY <1>0, <1>2, <2>1, <2>2, ReceiveFresh
<1>3. ASSUME Restart PROVE browser'[b].got = {}
  BY <1>0, <1>3 DEF Restart, BrowserStates
<1>4. ASSUME Quiet PROVE browser'[b].got = {}
  BY <1>0, <1>4, SseAssumption DEF Quiet
<1> QED BY <1>1, <1>2, <1>3, <1>4, QuietNext

LEMMA JoinStep ==
    ASSUME Inv, Inv', HoleInv', Fresh, NEW b \in Browsers, NEW k \in Connections,
           SubscribeToEvents(b, k)
    PROVE  Feed!Join(b)
<1> DEFINE j == IF browser[b].cursor = None THEN published ELSE browser[b].joined
           x == Joined(browser[b], k, j)
           y == Receive(x, Opening(b))
           new == Elements(Opening(b))
           wanted == {e \in 1 .. Len(topics) : Feed!Wants(b, topics[e])}
<1>1. /\ ~conn[k].open /\ browser[b].using = None
      /\ browser' = [browser EXCEPT ![b] = y]
      /\ conn' = [conn EXCEPT ![k] =
            [Closed EXCEPT !.open = TRUE, !.client = TRUE, !.browser = b]]
      /\ UNCHANGED <<topics, epoch>>
  BY DEF SubscribeToEvents, Joined
<1>2. published' = published /\ Ids' = Ids /\ Capacity' = Capacity /\ Forgotten' = Forgotten
      /\ Ids = 1 .. Len(topics)
  BY <1>1 DEF published, Ids, Capacity, Forgotten
<1>3. /\ published \in Nat /\ epoch \in Nat /\ Capacity \in Nat
      /\ browser[b] \in BrowserStates(published) /\ j \in 0 .. published
      /\ None \notin Clients
  BY BrowserType, CapacityType
<1>4. /\ new \subseteq Ids /\ \A e \in new : Matches(b, e)
      /\ Opening(b) \in Seq(1 .. published)
  BY <1>3, OpeningMatches, OpeningFacts DEF Inv, Ids
<1>5. browser'[b] = y /\ \A a \in Browsers : a # b => browser'[a] = browser[a]
  BY <1>1 DEF Inv, BrowserOK
<1>6. y.using = k /\ y.joined = j /\ y.filter = browser[b].filter
      /\ y.got = browser[b].got \cup new
  <2> HIDE DEF j
  <2>1. /\ x \in BrowserStates(published) /\ x.joined = j /\ x.using = k
        /\ x.got = browser[b].got /\ x.filter = browser[b].filter
    BY <1>3, JoinedType DEF Joined, BrowserStates
  <2> HIDE DEF x
  <2> QED BY <1>3, <1>4, <2>1, ReceiveFacts
<1> HIDE DEF x, y
<1>7. Clients' = Clients \cup {k}
  BY <1>1 DEF Clients, Inv, ConnOK, Closed
<1>8. b \notin Served /\ Served' = Served \cup {b}
  <2>1. ASSUME NEW a \in Browsers, a # b PROVE browser[a].using # k
    <3>1. CASE browser[a].using = None
      BY <3>1, SseAssumption
    <3>2. CASE browser[a].using # None
      BY <1>1, <3>2 DEF Inv, BrowserOK
    <3> QED BY <3>1, <3>2
  <2>2. ASSUME NEW a \in Browsers, a # b
        PROVE  browser'[a].using \in Clients' <=> browser[a].using \in Clients
    BY <1>5, <1>7, <2>1, <2>2
  <2>3. browser'[b].using \in Clients' /\ browser[b].using \notin Clients
    BY <1>1, <1>3, <1>5, <1>6, <1>7
  <2> QED BY <2>2, <2>3 DEF Served
<1>9. FeedSince' = [FeedSince EXCEPT ![b] = j] /\ FeedFilter' = FeedFilter
      /\ FeedGot' = [FeedGot EXCEPT ![b] = @ \cup new]
  BY <1>5, <1>6 DEF FeedSince, FeedFilter, FeedGot
<1>10. j \in {FeedSince[b]} \cup {m \in {Len(topics)} : FeedGot[b] = {}}
  BY DEF FeedSince, FeedGot, published, Inv, Fresh
<1>11. new \in SUBSET wanted
  BY <1>2, <1>4 DEF Matches, Feed!Wants, FeedFilter
<1>12. Feed!Owed(b, j) \subseteq FeedGot[b] \cup new
  <2> SUFFICES ASSUME NEW e \in Ids, e > j, e > Forgotten,
                      browser[b].filter \in {Everything, topics[e]},
                      e \notin browser[b].got \cup new
               PROVE  FALSE
    BY <1>2 DEF Feed!Owed, Feed!Wants, FeedGot
  <2>1. e \in Nat /\ e \in (j + 1) .. published /\ e > epoch /\ published - e < Capacity
    BY <1>3 DEF Ids, Forgotten
  <2>2. Missed(b, e)'
    BY <1>1, <1>2, <1>5, <1>6, <2>1 DEF Missed, Matches
  <2> QED BY <1>2, <1>5, <1>6, <1>7, <2>2 DEF HoleInv, Ahead
<1> HIDE DEF j, new
<1> QED
  BY <1>1, <1>2, <1>8, <1>9, <1>10, <1>11, <1>12
    DEF Feed!Join, FeedGot, FeedSince, FeedFilter, Served

LEMMA PublishStep ==
    ASSUME Inv, NEW topic \in Topics, PublishCacheInvalidation(topic)
    PROVE  Feed!Publish(topic)
<1> DEFINE p == published
<1>1. /\ p \in Nat /\ published' = p + 1 /\ Len(topics') = p + 1
      /\ topics' = Append(topics, topic)
  BY PublishEffect DEF PublishCacheInvalidation, published
<1>2. /\ browser' = [b \in Browsers |->
            IF /\ browser[b].using \in Clients
               /\ browser[b].filter \in {Everything, topic}
            THEN Receive(browser[b], <<p + 1>>) ELSE browser[b]]
      /\ Clients' = Clients /\ epoch' = epoch
  BY DEF PublishCacheInvalidation, Clients
<1>3. ASSUME NEW b \in Browsers
      PROVE  /\ browser'[b].using = browser[b].using
             /\ browser'[b].joined = browser[b].joined
             /\ browser'[b].filter = browser[b].filter
             /\ browser'[b].got =
                   IF browser[b].using \in Clients
                      /\ browser[b].filter \in {Everything, topic}
                   THEN browser[b].got \cup {p + 1} ELSE browser[b].got
  <2>1. browser[b] \in BrowserStates(p)
    BY BrowserType
  <2> DEFINE y == Receive(browser[b], <<p + 1>>)
  <2>2. /\ y.using = browser[b].using /\ y.joined = browser[b].joined
        /\ y.filter = browser[b].filter /\ y.got = browser[b].got \cup {p + 1}
    BY <1>1, <2>1, ReceiveOne
  <2>3. browser'[b] = IF /\ browser[b].using \in Clients
                         /\ browser[b].filter \in {Everything, topic}
                      THEN y ELSE browser[b]
    BY <1>2
  <2> HIDE DEF y
  <2> QED BY <2>2, <2>3
<1>4. Served' = Served /\ FeedSince' = FeedSince /\ FeedFilter' = FeedFilter
  BY <1>2, <1>3 DEF Served, FeedSince, FeedFilter
<1>5. FeedGot' = [b \in Browsers |->
         IF b \in Served /\ Feed!Wants(b, topic)
         THEN FeedGot[b] \cup {Len(topics')} ELSE FeedGot[b]]
  BY <1>1, <1>3 DEF FeedGot, Served, Feed!Wants
<1>6. Forgotten' = Feed!Larger(Forgotten, Len(topics') - Capacity)
  <2>1. Capacity \in Nat /\ Capacity' = Capacity /\ epoch \in Nat /\ epoch' = epoch
    BY <1>2, CapacityType, StoreTypes, PublishedType DEF Capacity, Inv
  <2> QED BY <1>1, <2>1 DEF Forgotten, Feed!Larger
<1> QED
  BY <1>1, <1>4, <1>5, <1>6
    DEF Feed!Publish, Served, FeedGot, FeedSince, FeedFilter

LEMMA RestartStep == ASSUME Inv, Restart PROVE Feed!Restart
<1>1. published \in Nat /\ Capacity \in Nat /\ published' = published
      /\ Capacity' = Capacity /\ epoch' = published /\ topics' = topics
  BY CapacityType, PublishedType DEF Inv, Restart, published, Capacity
<1>2. Forgotten' = Len(topics)
  BY <1>1 DEF Forgotten, published
<1>3. ASSUME NEW b \in Browsers
      PROVE  /\ browser'[b].using = None /\ browser'[b].got = browser[b].got
             /\ browser'[b].joined = browser[b].joined
             /\ browser'[b].filter = browser[b].filter
  BY BrowserType DEF Restart, BrowserStates
<1>4. None \notin Clients'
  BY SseAssumption DEF Clients
<1> QED BY <1>1, <1>2, <1>3, <1>4 DEF Feed!Restart

LEMMA QuietStep == ASSUME Quiet PROVE Feed!Next
<1>1. topics' = topics /\ Forgotten' = Forgotten
  BY DEF Quiet, Forgotten, published, Capacity
<1>2. PICK gone \in SUBSET Served : Served' = Served \ gone
  <2>1. Served' \subseteq Served
    BY DEF Quiet, Served
  <2>2. Served' = Served \ (Served \ Served') /\ Served \ Served' \in SUBSET Served
    BY <2>1
  <2> QED BY <2>2
<1>3. Feed!Leave(gone)
  BY <1>1, <1>2 DEF Quiet, Feed!Leave, Served
<1> QED BY <1>3 DEF Feed!Next, Served

LEMMA FeedStep ==
    ASSUME Inv, Inv', HoleInv', Fresh, [Next]_vars
    PROVE  Feed!Next
<1>1. ASSUME Quiet PROVE Feed!Next
  BY <1>1, QuietStep
<1>2. ASSUME NEW b \in Browsers, NEW k \in Connections, SubscribeToEvents(b, k)
      PROVE  Feed!Next
  BY <1>2, JoinStep DEF Feed!Next
<1>3. ASSUME NEW topic \in Topics, PublishCacheInvalidation(topic) PROVE Feed!Next
  BY <1>3, PublishStep DEF Feed!Next
<1>4. ASSUME Restart PROVE Feed!Next
  BY <1>4, RestartStep DEF Feed!Next
<1> QED BY <1>1, <1>2, <1>3, <1>4, QuietNext

LEMMA FeedInit == ASSUME Init PROVE Feed!Init /\ Fresh /\ HoleInv
<1>1. HoleInv
  BY DEF Init, HoleInv, Ahead, Ids, published
<1>2. published = 0 /\ Capacity \in Nat /\ epoch = 0 /\ Clients = {}
  BY CapacityType DEF Init, published, Clients, Closed
<1>3. Forgotten = 0
  BY <1>2 DEF Forgotten
<1>4. ASSUME NEW b \in Browsers
      PROVE  /\ browser[b].got = {} /\ browser[b].joined = 0
             /\ browser[b].filter \in Topics \cup {Everything}
  BY DEF Init
<1> QED BY <1>1, <1>2, <1>3, <1>4 DEF Feed!Init, Init, Fresh

\* The stream implements the feed: a subscriber that is served gets each event it
\* wants as it is published, one that joins or comes back gets all of them that
\* neither a restart nor the store's limit took, and nobody gets any other event.
THEOREM DeliversAsPromisedHolds == Spec => DeliversAsPromised
<1>1. Init => Inv /\ Feed!Init /\ Fresh /\ HoleInv
  BY FeedInit, InvInit
<1>2. Inv /\ HoleInv /\ Fresh /\ [Next]_vars
         => (Inv /\ HoleInv /\ Fresh)' /\ Feed!Next
  BY InvNext, HoleNext, FreshNext, FeedStep
<1> QED BY <1>1, <1>2, PTL DEF Spec, DeliversAsPromised, Feed!Spec
=============================================================================
