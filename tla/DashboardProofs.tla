-------------------------- MODULE DashboardProofs --------------------------
(***************************************************************************)
(* Proofs about Dashboard for every set of feeds, limit and size of the    *)
(* tables: its types, and that the lists of the page show what is broadcast *)
(* after they were fetched and the connection opened.                      *)
(***************************************************************************)
EXTENDS Dashboard, CommonLemmas

(***************************************************************************)
(* Flattening                                                              *)
(***************************************************************************)

\* The recursion behind FlattenSeq: the first i sequences of s, joined.
FlatStep(s, g, i)   == IF i = 1 THEN s[i] ELSE g[i - 1] \o s[i]
IsFlat(s, n, g)     == g = [i \in 1..n |-> FlatStep(s, g, i)]

\* There is a function with it, of any length.
LEMMA FlatExists ==
    ASSUME NEW s, NEW n \in Nat
    PROVE  \E g : IsFlat(s, n, g)
<1> DEFINE N == {k \in Nat : \E g : IsFlat(s, k, g)}
<1>1. 0 \in N
  <2> DEFINE g == [i \in 1..0 |-> 0]
  <2>1. 1..0 = {}
    OBVIOUS
  <2>2. g = [i \in 1..0 |-> FlatStep(s, g, i)]
    BY <2>1
  <2> HIDE DEF g
  <2>3. QED BY <2>2 DEF IsFlat
<1>2. ASSUME NEW k \in N PROVE k + 1 \in N
  <2>1. PICK g : g = [i \in 1..k |-> FlatStep(s, g, i)]
    BY DEF IsFlat
  <2> DEFINE h == [i \in 1..(k + 1) |-> FlatStep(s, g, i)]
  <2>2. k \in Nat
    OBVIOUS
  <2>3. \A i \in 1..k : h[i] = g[i]
    BY <2>1, <2>2
  <2>4. \A i \in 1..(k + 1) : i # 1 => i - 1 \in 1..k
    BY <2>2
  <2>5. \A i \in 1..(k + 1) : FlatStep(s, g, i) = FlatStep(s, h, i)
    <3> HIDE DEF h
    <3>1. QED BY <2>3, <2>4 DEF FlatStep
  <2>6. h = [i \in 1..(k + 1) |-> FlatStep(s, h, i)]
    BY <2>5
  <2> HIDE DEF h
  <2>7. QED BY <2>2, <2>6 DEF IsFlat
<1> HIDE DEF N
<1>3. N = Nat
  BY <1>1, <1>2, NumberInduction DEF N
<1>4. QED BY <1>3 DEF N

\* Two functions are the same on the first k numbers.
Agree(g, h, k) == \A i \in 1..k : h[i] = g[i]

\* It looks at the sequences of s only.
LEMMA FlatUnique ==
    ASSUME NEW s, NEW t, NEW n \in Nat, NEW k \in Nat, k <= n,
           Agree(s, t, k), NEW g, IsFlat(s, n, g), NEW h, IsFlat(t, k, h)
    PROVE  Agree(g, h, k)
<1> USE DEF Agree
<1> DEFINE N == {i \in Nat : i \in 1..k => h[i] = g[i]}
<1>1. \A i \in 1..k : g[i] = FlatStep(s, g, i) /\ h[i] = FlatStep(t, h, i)
  <2>1. \A i \in 1..k : i \in 1..n
    OBVIOUS
  <2>2. (\A i \in 1..n : g[i] = FlatStep(s, g, i)) /\ (\A i \in 1..k : h[i] = FlatStep(t, h, i))
    BY DEF IsFlat
  <2>3. QED BY <2>1, <2>2
<1>2. 0 \in N
  OBVIOUS
<1>3. ASSUME NEW i \in N PROVE i + 1 \in N
  <2>1. SUFFICES ASSUME i + 1 \in 1..k PROVE h[i + 1] = g[i + 1]
    OBVIOUS
  <2>2. i = 0 \/ i \in 1..k
    BY <2>1
  <2>3. i = 0 \/ h[i] = g[i]
    BY <2>2
  <2>4. (i + 1) - 1 = i /\ (i + 1 = 1 <=> i = 0)
    OBVIOUS
  <2>5. QED BY <1>1, <2>1, <2>3, <2>4 DEF FlatStep
<1> HIDE DEF N
<1>4. N = Nat
  BY <1>2, <1>3, NumberInduction DEF N
<1>5. QED BY <1>4 DEF N

\* FlattenSeq takes its value from such a function.
LEMMA FlatValue ==
    ASSUME NEW s, Len(s) \in Nat \ {0}
    PROVE  \E g : IsFlat(s, Len(s), g) /\ FlattenSeq(s) = g[Len(s)]
<1> DEFINE g == CHOOSE f : IsFlat(s, Len(s), f)
<1>1. IsFlat(s, Len(s), g)
  BY FlatExists
<1>2. FlattenSeq(s) = g[Len(s)]
  BY DEF FlattenSeq, IsFlat, FlatStep
<1>3. QED BY <1>1, <1>2

\* No sequences make the empty one, and one more comes at the end.
LEMMA FlatEmpty == FlattenSeq(<<>>) = <<>>
BY DEF FlattenSeq

LEMMA FlatAppend ==
    ASSUME NEW S, NEW s \in Seq(Seq(S)), NEW e \in Seq(S)
    PROVE  FlattenSeq(Append(s, e)) = FlattenSeq(s) \o e
<1> DEFINE t == Append(s, e)
<1>1. /\ Len(s) \in Nat /\ Len(t) = Len(s) + 1 /\ t[Len(s) + 1] = e
      /\ \A i \in 1..Len(s) : s[i] = t[i]
  OBVIOUS
<1> HIDE DEF t
<1>2. PICK g : IsFlat(t, Len(t), g) /\ FlattenSeq(t) = g[Len(t)]
  BY <1>1, FlatValue
<1>3. g[Len(t)] = FlatStep(t, g, Len(t))
  <2>1. Len(t) \in 1..Len(t)
    BY <1>1
  <2>2. QED BY ONLY <1>2, <2>1 DEF IsFlat
<1>4. CASE s = <<>>
  <2>1. FlattenSeq(t) = e
    BY <1>1, <1>2, <1>3, <1>4 DEF FlatStep
  <2>2. <<>> \o e = e
    OBVIOUS
  <2>3. QED BY <1>4, <2>1, <2>2, FlatEmpty DEF t
<1>5. CASE s # <<>>
  <2>1. Len(s) # 0
    BY <1>5
  <2>2. PICK h : IsFlat(s, Len(s), h) /\ FlattenSeq(s) = h[Len(s)]
    BY <1>1, <2>1, FlatValue
  <2>3. \A i \in 1..Len(s) : h[i] = g[i]
    <3> DEFINE n == Len(t)
               k == Len(s)
    <3>1. n \in Nat /\ k \in Nat /\ k <= n /\ Agree(t, s, k)
      BY <1>1 DEF Agree
    <3>2. IsFlat(t, n, g) /\ IsFlat(s, k, h)
      BY <1>2, <2>2
    <3> HIDE DEF n, k
    <3>3. Agree(g, h, k)
      BY <3>1, <3>2, FlatUnique
    <3>4. QED BY <3>3 DEF Agree, k
  <2>4. h[Len(s)] = g[Len(s)]
    BY <1>1, <2>1, <2>3
  <2>5. g[Len(t)] = g[Len(s)] \o e
    <3>1. Len(t) # 1 /\ Len(t) - 1 = Len(s)
      BY <1>1, <2>1
    <3>2. t[Len(t)] = e
      BY <1>1
    <3>3. FlatStep(t, g, Len(t)) = g[Len(t) - 1] \o t[Len(t)]
      BY <3>1 DEF FlatStep
    <3>4. QED BY <1>3, <3>1, <3>2, <3>3
  <2>6. QED BY <1>2, <2>2, <2>4, <2>5 DEF t
<1>6. QED BY <1>4, <1>5

\* What is made of sequences over S is one.
LEMMA FlatType ==
    ASSUME NEW S, NEW s \in Seq(Seq(S))
    PROVE  FlattenSeq(s) \in Seq(S)
<1> DEFINE P == {q \in Seq(Seq(S)) : FlattenSeq(q) \in Seq(S)}
<1>1. <<>> \in P
  <2>1. <<>> \in Seq(Seq(S)) /\ <<>> \in Seq(S)
    OBVIOUS
  <2>2. QED BY <2>1, FlatEmpty
<1>2. ASSUME NEW q \in P, NEW e \in Seq(S) PROVE Append(q, e) \in P
  <2>1. q \in Seq(Seq(S)) /\ FlattenSeq(q) \in Seq(S)
    OBVIOUS
  <2>2. FlattenSeq(Append(q, e)) = FlattenSeq(q) \o e
    BY <2>1, FlatAppend
  <2>3. Append(q, e) \in Seq(Seq(S)) /\ FlattenSeq(q) \o e \in Seq(S)
    BY <2>1
  <2>4. QED BY <2>2, <2>3
<1> HIDE DEF P
<1>3. P = Seq(Seq(S))
  BY <1>1, <1>2, SequenceInduction DEF P
<1>4. QED BY <1>3 DEF P

\* The parts of a list may be flattened one by one.
LEMMA FlatConcat ==
    ASSUME NEW S, NEW s \in Seq(Seq(S)), NEW t \in Seq(Seq(S))
    PROVE  FlattenSeq(s \o t) = FlattenSeq(s) \o FlattenSeq(t)
<1> DEFINE P == {q \in Seq(Seq(S)) : FlattenSeq(s \o q) = FlattenSeq(s) \o FlattenSeq(q)}
<1>1. <<>> \in P
  <2>1. <<>> \in Seq(Seq(S)) /\ s \o <<>> = s /\ FlattenSeq(s) \o <<>> = FlattenSeq(s)
    BY FlatType
  <2>2. QED BY <2>1, FlatEmpty
<1>2. ASSUME NEW q \in P, NEW e \in Seq(S) PROVE Append(q, e) \in P
  <2> DEFINE L == Seq(S)
  <2>1. /\ q \in Seq(L) /\ FlattenSeq(s \o q) = FlattenSeq(s) \o FlattenSeq(q)
        /\ s \o Append(q, e) = Append(s \o q, e) /\ s \o q \in Seq(L)
        /\ Append(q, e) \in Seq(L)
    <3>1. /\ q \in Seq(L) /\ FlattenSeq(s \o q) = FlattenSeq(s) \o FlattenSeq(q)
          /\ s \in Seq(L) /\ e \in L
      OBVIOUS
    <3> HIDE DEF L
    <3>2. s \o Append(q, e) = Append(s \o q, e) /\ s \o q \in Seq(L) /\ Append(q, e) \in Seq(L)
      BY ONLY <3>1, SMTT(30)
    <3>3. QED BY ONLY <3>1, <3>2
  <2>2. FlattenSeq(s \o Append(q, e)) = FlattenSeq(s \o q) \o e
    BY <2>1, FlatAppend
  <2>3. FlattenSeq(Append(q, e)) = FlattenSeq(q) \o e
    BY <2>1, FlatAppend
  <2> DEFINE a == FlattenSeq(s)
             b == FlattenSeq(q)
  <2>4. (a \o b) \o e = a \o (b \o e)
    <3>1. a \in Seq(S) /\ b \in Seq(S) /\ e \in Seq(S)
      BY <2>1, FlatType
    <3> HIDE DEF a, b
    <3>2. QED BY ONLY <3>1, SMTT(30)
  <2>5. FlattenSeq(s \o Append(q, e)) = FlattenSeq(s) \o FlattenSeq(Append(q, e))
    BY <2>1, <2>2, <2>3, <2>4
  <2>6. QED BY <2>1, <2>5
<1> HIDE DEF P
<1>3. P = Seq(Seq(S))
  BY <1>1, <1>2, SequenceInduction DEF P
<1>4. QED BY <1>3 DEF P

\* One sequence is what it is.
LEMMA FlatOne ==
    ASSUME NEW S, NEW e \in Seq(S)
    PROVE  FlattenSeq(<<e>>) = e
<1>1. <<e>> = Append(<<>>, e) /\ <<>> \in Seq(Seq(S)) /\ <<>> \o e = e
  OBVIOUS
<1>2. QED BY <1>1, FlatAppend, FlatEmpty

\* The elements of a sequence, each in one of its own, make that sequence.
Singles(r) == [i \in DOMAIN r |-> <<r[i]>>]

LEMMA FlatSingles ==
    ASSUME NEW S, NEW r \in Seq(S)
    PROVE  Singles(r) \in Seq(Seq(S)) /\ FlattenSeq(Singles(r)) = r
<1> DEFINE P == {q \in Seq(S) : FlattenSeq(Singles(q)) = q}
<1>1. ASSUME NEW q \in Seq(S) PROVE Singles(q) \in Seq(Seq(S))
  <2>1. DOMAIN q = 1..Len(q) /\ Len(q) \in Nat /\ \A i \in 1..Len(q) : q[i] \in S
    OBVIOUS
  <2>2. \A i \in 1..Len(q) : <<q[i]>> \in Seq(S)
    BY <2>1
  <2>3. Singles(q) \in [1..Len(q) -> Seq(S)]
    BY <2>1, <2>2 DEF Singles
  <2>4. QED BY <2>1, <2>3
<1>2. <<>> \in P
  <2>1. Singles(<<>>) = <<>> /\ <<>> \in Seq(S)
    BY DEF Singles
  <2>2. QED BY <2>1, FlatEmpty
<1>3. ASSUME NEW q \in P, NEW e \in S PROVE Append(q, e) \in P
  <2>1. Singles(Append(q, e)) = Append(Singles(q), <<e>>)
    <3>1. q \in Seq(S) /\ DOMAIN q = 1..Len(q) /\ DOMAIN Append(q, e) = 1..(Len(q) + 1)
          /\ Len(q) \in Nat
      OBVIOUS
    <3>2. /\ Append(q, e)[Len(q) + 1] = e
          /\ \A i \in 1..Len(q) : Append(q, e)[i] = q[i]
      BY <3>1
    <3>3. Singles(q) \in Seq(Seq(S)) /\ Len(Singles(q)) = Len(q)
      BY <1>1, <3>1 DEF Singles
    <3>4. QED BY <3>1, <3>2, <3>3 DEF Singles
  <2>2. FlattenSeq(Append(Singles(q), <<e>>)) = FlattenSeq(Singles(q)) \o <<e>>
    <3>1. Singles(q) \in Seq(Seq(S)) /\ <<e>> \in Seq(S)
      BY <1>1
    <3>2. QED BY <3>1, FlatAppend
  <2>3. q \o <<e>> = Append(q, e) /\ Append(q, e) \in Seq(S) /\ FlattenSeq(Singles(q)) = q
    OBVIOUS
  <2>4. QED BY <2>1, <2>2, <2>3
<1> HIDE DEF P
<1>4. P = Seq(S)
  BY <1>2, <1>3, SequenceInduction DEF P
<1>5. QED BY <1>1, <1>4 DEF P

(***************************************************************************)
(* Rows in order                                                           *)
(***************************************************************************)

\* A sequence has the elements of T, each once and in rising order.
Lists(s, T) == Range(s) = T /\ \A i, j \in DOMAIN s : i < j => s[i] < s[j]

\* Where the elements of s and t are in u: first those of s, then those of t.
Joined(s, t, u) ==
    /\ Len(s) \in Nat /\ \A i \in DOMAIN u : i \in Nat
    /\ \A i \in DOMAIN s : i \in Nat /\ i <= Len(s) /\ i \in DOMAIN u /\ u[i] = s[i]
    /\ \A j \in DOMAIN t : j \in Nat /\ j > 0 /\ Len(s) + j \in DOMAIN u /\ u[Len(s) + j] = t[j]
    /\ \A i \in DOMAIN u : i \in DOMAIN s \/ (i - Len(s) \in DOMAIN t /\ u[i] = t[i - Len(s)])

LEMMA ConcatPlaces ==
    ASSUME NEW S, NEW s \in Seq(S), NEW t \in Seq(S)
    PROVE  s \o t \in Seq(S) /\ Joined(s, t, s \o t)
<1> DEFINE u == s \o t
<1>1. /\ u \in Seq(S) /\ DOMAIN u = 1..(Len(s) + Len(t))
      /\ \A i \in 1..(Len(s) + Len(t)) : u[i] = IF i <= Len(s) THEN s[i] ELSE t[i - Len(s)]
  BY ConcatProperties
<1>2. /\ Len(s) \in Nat /\ Len(t) \in Nat /\ DOMAIN s = 1..Len(s) /\ DOMAIN t = 1..Len(t)
  OBVIOUS
<1> HIDE DEF u
<1>3. \A j \in 1..Len(t) : Len(s) + j \in 1..(Len(s) + Len(t)) /\ ~(Len(s) + j <= Len(s))
                           /\ (Len(s) + j) - Len(s) = j
  BY <1>2
<1>4. \A i \in 1..(Len(s) + Len(t)) : ~(i <= Len(s)) => i - Len(s) \in 1..Len(t)
  BY <1>2
<1>5. \A i \in DOMAIN s : i \in DOMAIN u /\ u[i] = s[i]
  BY <1>1, <1>2
<1>6. \A j \in DOMAIN t : Len(s) + j \in DOMAIN u /\ u[Len(s) + j] = t[j]
  BY <1>1, <1>2, <1>3
<1>7. ASSUME NEW i \in DOMAIN u, i \notin DOMAIN s
      PROVE  i - Len(s) \in DOMAIN t /\ u[i] = t[i - Len(s)]
  <2>1. i \in 1..(Len(s) + Len(t)) /\ ~(i <= Len(s))
    BY <1>1, <1>2, <1>7
  <2>2. QED BY <1>1, <1>2, <1>4, <2>1
<1>8. (\A i \in DOMAIN s : i \in Nat /\ i <= Len(s)) /\ \A j \in DOMAIN t : j \in Nat /\ j > 0
  BY <1>2
<1>9. \A i \in DOMAIN u : i \in Nat
  BY <1>1, <1>2
<1>10. Joined(s, t, u)
  <2>1. \A i \in DOMAIN s : i \in Nat /\ i <= Len(s) /\ i \in DOMAIN u /\ u[i] = s[i]
    BY <1>5, <1>8
  <2>2. \A j \in DOMAIN t : j \in Nat /\ j > 0 /\ Len(s) + j \in DOMAIN u /\ u[Len(s) + j] = t[j]
    BY <1>6, <1>8
  <2>3. \A i \in DOMAIN u : i \in DOMAIN s \/ (i - Len(s) \in DOMAIN t /\ u[i] = t[i - Len(s)])
    BY <1>7
  <2>4. Len(s) \in Nat
    BY <1>2
  <2>5. QED BY <1>9, <2>1, <2>2, <2>3, <2>4, Zenon DEF Joined
<1>11. QED BY <1>1, <1>10 DEF u

\* The range of two sequences that are joined.
LEMMA ConcatRange ==
    ASSUME NEW S, NEW s \in Seq(S), NEW t \in Seq(S)
    PROVE  Range(s \o t) = Range(s) \cup Range(t)
<1> DEFINE u == s \o t
<1>1. Joined(s, t, u)
  BY ConcatPlaces
<1> HIDE DEF u
<1>2. \A i \in DOMAIN u : u[i] \in Range(s) \cup Range(t)
  BY <1>1 DEF Range, Joined
<1>3. \A i \in DOMAIN s : s[i] \in Range(u)
  BY <1>1 DEF Range, Joined
<1>4. \A j \in DOMAIN t : t[j] \in Range(u)
  BY <1>1 DEF Range, Joined
<1>5. Range(u) = Range(s) \cup Range(t)
  BY <1>2, <1>3, <1>4 DEF Range
<1>6. QED BY <1>5 DEF u

\* Rows in order stay so when some come after them.
LEMMA ShowsConcat ==
    ASSUME NEW S \in SUBSET Nat, NEW s \in Seq(S), NEW t \in Seq(S), NEW n,
           NEW A, NEW B, Shows(s, n, A), Shows(t, n, B), \A a \in A, b \in B : a < b
    PROVE  Shows(s \o t, n, A \cup B)
<1> DEFINE u == s \o t
           k == Len(s)
           Later(q) == {i \in DOMAIN q : q[i] > n}
<1> HIDE DEF u, k
<1>1. /\ \A i \in DOMAIN s : i \in DOMAIN u /\ u[i] = s[i] /\ i \in Nat /\ i <= k
      /\ \A j \in DOMAIN t : k + j \in DOMAIN u /\ u[k + j] = t[j]
      /\ \A i \in DOMAIN u : i \in DOMAIN s \/ (i - k \in DOMAIN t /\ u[i] = t[i - k])
      /\ k \in Nat /\ \A i \in DOMAIN u : i \in Nat
  <2>1. Joined(s, t, u)
    BY ConcatPlaces DEF u
  <2>2. QED BY <2>1 DEF Joined, k
<1>2. /\ A = {s[i] : i \in Later(s)} /\ \A i, j \in Later(s) : i < j => s[i] < s[j]
      /\ B = {t[i] : i \in Later(t)} /\ \A i, j \in Later(t) : i < j => t[i] < t[j]
  BY DEF Shows
<1>3. \A i \in Later(u) : i \in Later(s) \/ (i - k \in Later(t) /\ u[i] = t[i - k])
  BY <1>1
<1>4. {u[i] : i \in Later(u)} = A \cup B
  <2>1. ASSUME NEW i \in Later(u) PROVE u[i] \in A \cup B
    BY <1>1, <1>2, <1>3
  <2>2. ASSUME NEW i \in Later(s) PROVE i \in Later(u) /\ u[i] = s[i]
    BY <1>1
  <2>3. ASSUME NEW i \in Later(t) PROVE k + i \in Later(u) /\ u[k + i] = t[i]
    BY <1>1
  <2> HIDE DEF Later
  <2>4. QED BY <1>2, <2>1, <2>2, <2>3
<1>5. ASSUME NEW i \in Later(u), NEW j \in Later(u), i < j PROVE u[i] < u[j]
  <2>1. CASE i \in Later(s) /\ j \in Later(s)
    BY <1>1, <1>2, <1>5, <2>1
  <2>2. CASE i \in Later(s) /\ j \notin Later(s)
    <3>1. u[i] = s[i] /\ s[i] \in A
      BY <1>1, <1>2, <2>2
    <3>2. u[j] = t[j - k] /\ t[j - k] \in B
      BY <1>2, <1>3, <2>2
    <3>3. QED BY <3>1, <3>2
  <2>3. CASE i \notin Later(s) /\ j \in Later(s)
    <3>1. j <= k /\ i - k \in DOMAIN t /\ j \in Nat /\ i \in Nat
      BY <1>1, <1>3, <2>3
    <3>2. QED BY <1>1, <1>5, <3>1
  <2>4. CASE i \notin Later(s) /\ j \notin Later(s)
    <3>1. /\ i - k \in Later(t) /\ u[i] = t[i - k] /\ j - k \in Later(t) /\ u[j] = t[j - k]
      BY <1>3, <2>4
    <3>2. i - k < j - k
      BY <1>1, <1>5
    <3>3. QED BY <1>2, <3>1, <3>2
  <2>5. QED BY <2>1, <2>2, <2>3, <2>4
<1>6. QED BY <1>4, <1>5 DEF Shows, u

\* Of a sequence in order, the rows after n are.
LEMMA ListsShows ==
    ASSUME NEW s, NEW T, Lists(s, T), NEW n
    PROVE  Shows(s, n, {x \in T : x > n})
BY DEF Lists, Shows, Range

\* Where no row is after n there are none to show.
LEMMA ShowsNone ==
    ASSUME NEW S \in SUBSET Nat, NEW s \in Seq(S), NEW n \in Nat, \A i \in DOMAIN s : s[i] <= n
    PROVE  Shows(s, n, {})
<1>1. \A i \in DOMAIN s : ~(s[i] > n)
  <2>1. \A i \in DOMAIN s : s[i] \in S
    OBVIOUS
  <2>2. \A i \in DOMAIN s : s[i] \in Nat /\ s[i] <= n
    BY <2>1
  <2>3. QED BY <2>2
<1>2. {i \in DOMAIN s : s[i] > n} = {}
  BY <1>1
<1>3. QED BY <1>2 DEF Shows

\* Two sequences in order are, joined, when the second comes after the first.
LEMMA ListsConcat ==
    ASSUME NEW S \in SUBSET Nat, NEW s \in Seq(S), NEW t \in Seq(S),
           NEW A, NEW B, Lists(s, A), Lists(t, B), \A a \in A, b \in B : a < b
    PROVE  Lists(s \o t, A \cup B)
<1> DEFINE u == s \o t
           k == Len(s)
<1> HIDE DEF u, k
<1>1. /\ \A i \in DOMAIN s : i \in DOMAIN u /\ u[i] = s[i] /\ i \in Nat /\ i <= k
      /\ \A j \in DOMAIN t : j \in Nat /\ j > 0
      /\ \A i \in DOMAIN u : i \in DOMAIN s \/ (i - k \in DOMAIN t /\ u[i] = t[i - k])
      /\ k \in Nat /\ \A i \in DOMAIN u : i \in Nat
  <2>1. Joined(s, t, u)
    BY ConcatPlaces DEF u
  <2>2. QED BY <2>1 DEF Joined, k
<1>2. /\ \A i \in DOMAIN s : s[i] \in A
      /\ \A i \in DOMAIN t : t[i] \in B
      /\ \A i, j \in DOMAIN s : i < j => s[i] < s[j]
      /\ \A i, j \in DOMAIN t : i < j => t[i] < t[j]
  BY DEF Lists, Range
<1>3. ASSUME NEW i \in DOMAIN u, NEW j \in DOMAIN u, i < j PROVE u[i] < u[j]
  <2>1. CASE i \in DOMAIN s /\ j \in DOMAIN s
    BY <1>1, <1>2, <1>3, <2>1
  <2>2. CASE i \in DOMAIN s /\ j \notin DOMAIN s
    BY <1>1, <1>2, <2>2
  <2>3. CASE i \notin DOMAIN s /\ j \in DOMAIN s
    <3>1. j <= k /\ i - k \in DOMAIN t /\ j \in Nat /\ i \in Nat
      BY <1>1, <2>3
    <3>2. QED BY <1>1, <1>3, <3>1
  <2>4. CASE i \notin DOMAIN s /\ j \notin DOMAIN s
    <3>1. i - k \in DOMAIN t /\ u[i] = t[i - k] /\ j - k \in DOMAIN t /\ u[j] = t[j - k]
      BY <1>1, <2>4
    <3>2. i - k < j - k
      BY <1>1, <1>3
    <3>3. QED BY <1>2, <3>1, <3>2
  <2>5. QED BY <2>1, <2>2, <2>3, <2>4
<1>4. Range(u) = A \cup B
  BY ConcatRange DEF Lists, u
<1>5. QED BY <1>3, <1>4 DEF Lists, u

\* And both parts of a sequence in order are, on either side of the last element
\* of the first.
LEMMA ListsSplit ==
    ASSUME NEW S \in SUBSET Nat, NEW s \in Seq(S), NEW t \in Seq(S), s # <<>>,
           NEW T, Lists(s \o t, T)
    PROVE  /\ Lists(s, {x \in T : x <= s[Len(s)]})
           /\ Lists(t, {x \in T : x > s[Len(s)]})
           /\ s[Len(s)] \in T
<1> DEFINE u == s \o t
           k == Len(s)
           b == s[k]
<1> HIDE DEF u, k, b
<1>1. /\ \A i \in DOMAIN s : i \in DOMAIN u /\ u[i] = s[i] /\ i \in Nat /\ i <= k
      /\ \A j \in DOMAIN t : k + j \in DOMAIN u /\ u[k + j] = t[j] /\ j \in Nat /\ j > 0
  <2>1. Joined(s, t, u)
    BY ConcatPlaces DEF u
  <2>2. QED BY <2>1 DEF Joined, k
<1>2. /\ k \in DOMAIN s /\ k \in Nat /\ b \in Nat
      /\ (\A i \in DOMAIN s : s[i] \in Nat) /\ \A j \in DOMAIN t : t[j] \in Nat
  <2>1. k \in Nat \ {0} /\ DOMAIN s = 1..k
    BY DEF k
  <2>2. (\A i \in DOMAIN s : s[i] \in S) /\ \A j \in DOMAIN t : t[j] \in S
    OBVIOUS
  <2>3. k \in DOMAIN s /\ k \in Nat
    BY <2>1
  <2>4. (\A i \in DOMAIN s : s[i] \in Nat) /\ \A j \in DOMAIN t : t[j] \in Nat
    BY <2>2
  <2>5. QED BY <2>3, <2>4 DEF b
<1>3. Range(s) \cup Range(t) = T /\ \A i, j \in DOMAIN u : i < j => u[i] < u[j]
  BY ConcatRange DEF Lists, u
<1>4. \A i, j \in DOMAIN s : i < j => s[i] < s[j]
  BY <1>1, <1>3
<1>5. ASSUME NEW i \in DOMAIN t, NEW j \in DOMAIN t, i < j PROVE t[i] < t[j]
  <2>1. k + i < k + j
    BY <1>2, <1>5
  <2>2. QED BY <1>1, <1>3, <2>1
<1>6. \A i \in DOMAIN s : s[i] <= b
  <2>1. SUFFICES ASSUME NEW i \in DOMAIN s, i # k PROVE s[i] <= b
    BY <1>2 DEF b
  <2>2. i < k
    BY <1>1, <1>2, <2>1
  <2>3. s[i] < b
    BY <1>2, <1>4, <2>2 DEF b
  <2>4. QED BY <1>2, <2>3
<1>7. \A j \in DOMAIN t : t[j] > b
  <2>1. TAKE j \in DOMAIN t
  <2>2. k < k + j
    BY <1>2
  <2>3. u[k] < u[k + j]
    BY <1>1, <1>2, <1>3, <2>2
  <2>4. QED BY <1>1, <1>2, <2>3 DEF b
<1>8. b \in T
  BY <1>2, <1>3 DEF Range, b
<1>9. (\A x \in Range(s) : x <= b) /\ \A x \in Range(t) : x > b /\ ~(x <= b)
  BY <1>2, <1>6, <1>7 DEF Range
<1>10. Range(s) = {x \in T : x <= b}
  BY <1>3, <1>9
<1>11. Range(t) = {x \in T : x > b}
  <2>1. \A x \in Range(s) : ~(x > b)
    BY <1>2, <1>6 DEF Range
  <2>2. QED BY <1>3, <1>9, <2>1
<1>12. QED BY <1>4, <1>5, <1>8, <1>10, <1>11 DEF Lists, b, k

(***************************************************************************)
(* Types                                                                   *)
(***************************************************************************)

\* Lists of the page, messages and requests.
Table      == Seq(Seq(Places))
PushedRows == Seq(Places) \ {<<>>}
Pushed     == [feed : Feeds, rows : PushedRows]
Request(n) == [feed : Feeds, id : 1..n, rows : Places \cup {Null}]

\* How far the server, the page and the messages between them have come.
Positions ==
    /\ stored \in [Feeds -> Nat] /\ said \in [Feeds -> Nat] /\ got \in [Feeds -> Nat]
    /\ dropped \in [Feeds -> SUBSET Nat] /\ since \in [Feeds -> Places]
    /\ \A f \in Feeds : /\ got[f] <= said[f] /\ said[f] <= stored[f]
                        /\ stored[f] <= MaxRows[f] /\ dropped[f] \subseteq 1..said[f]

\* No message has a row that is not broadcast yet.
OnTheWay ==
    /\ open \in BOOLEAN /\ (wire = <<>> \/ open) /\ wire \in Seq(Pushed)
    /\ \A i \in DOMAIN wire : \A j \in DOMAIN wire[i].rows :
           wire[i].rows[j] \in 1..said[wire[i].feed]

\* Every request was made.
Requests == fetches \in 1..MaxFetches /\ calls \subseteq Request(fetches)

\* The records of the trend are single.
Single(f, l) == f = "pue_update" => \A i \in DOMAIN l : Len(l[i]) = 1
PageLists == /\ list \in [Feeds -> Table \cup {Null}]
          /\ \A f \in Feeds : list[f] # Null => Single(f, list[f])

Typed == Positions /\ OnTheWay /\ Requests /\ PageLists

\* They are the types the runs check.
LEMMA TypedMeans == Typed => TypeOK
<1> SUFFICES ASSUME Typed PROVE TypeOK
  OBVIOUS
<1>1. \A f \in Feeds : /\ stored[f] \in 0..MaxRows[f] /\ said[f] \in 0..stored[f]
                       /\ dropped[f] \subseteq 1..said[f] /\ got[f] \in 0..said[f]
  <2> SUFFICES ASSUME NEW f \in Feeds
               PROVE  /\ stored[f] \in 0..MaxRows[f] /\ said[f] \in 0..stored[f]
                      /\ dropped[f] \subseteq 1..said[f] /\ got[f] \in 0..said[f]
    OBVIOUS
  <2>1. stored[f] \in Nat /\ said[f] \in Nat /\ got[f] \in Nat /\ MaxRows[f] \in Nat
    BY DashboardAssumption DEF Typed, Positions
  <2>2. QED BY <2>1 DEF Typed, Positions
<1>2. since \in [Feeds -> Places] /\ fetches \in 1..MaxFetches
      /\ open \in BOOLEAN /\ (wire = <<>> \/ open)
  BY DEF Typed, Positions, Requests, OnTheWay
<1>3. ASSUME NEW i \in DOMAIN wire PROVE wire[i].feed \in Feeds /\ wire[i].rows \in Seq(Places)
  <2>1. wire[i] \in Pushed
    BY DEF Typed, OnTheWay
  <2>2. QED BY <2>1 DEF Pushed, PushedRows
<1>4. \A c \in calls : c.feed \in Feeds /\ c.id \in 1..fetches /\ c.rows \in Places \cup {Null}
  BY DEF Typed, Requests, Request
<1>5. ASSUME NEW f \in Feeds, list[f] # Null, NEW i \in DOMAIN list[f]
      PROVE  list[f][i] \in Seq(Places) /\ (f = "pue_update" => Len(list[f][i]) = 1)
  <2>1. list[f] \in Table /\ Single(f, list[f])
    BY <1>5 DEF Typed, PageLists
  <2>2. QED BY <2>1 DEF Table, Single
<1>6. QED BY <1>1, <1>2, <1>3, <1>4, <1>5 DEF TypeOK

\* The places are numbers, with each those that come before it.
LEMMA PlaceNumbers ==
    /\ Places \in SUBSET Nat
    /\ \A f \in Feeds, n \in Nat : n <= MaxRows[f] => n \in Places
    /\ \A n \in Places : 1..n \subseteq Places
BY DashboardAssumption DEF Places

\* The rows of a message are the next ones in order.
LEMMA MessageRows ==
    ASSUME Positions, NEW f \in Feeds, NEW n \in Batches(f) \cap (1..stored[f])
    PROVE  /\ n \in Nat /\ said[f] < n /\ n <= stored[f]
           /\ Message(f, n) \in Pushed /\ Message(f, n).feed = f
           /\ \A j \in DOMAIN Message(f, n).rows : Message(f, n).rows[j] \in 1..n
           /\ Lists(Message(f, n).rows, said[f] + 1 .. n)
<1>1. /\ n \in Nat /\ said[f] \in Nat /\ stored[f] \in Nat /\ MaxRows[f] \in Nat
      /\ said[f] < n /\ n <= stored[f] /\ stored[f] <= MaxRows[f]
  BY DashboardAssumption DEF Positions, Batches
<1> DEFINE r == [i \in 1 .. n - said[f] |-> said[f] + i]
<1>2. Message(f, n) = [feed |-> f, rows |-> r]
  BY DEF Message
<1>3. n - said[f] \in Nat \ {0} /\ DOMAIN r = 1 .. n - said[f]
  BY <1>1
<1>4. \A j \in DOMAIN r : r[j] = said[f] + j /\ r[j] \in said[f] + 1 .. n /\ r[j] \in 1..n
  BY <1>1
<1>5. n \in Places
  BY <1>1, PlaceNumbers
<1>6. \A j \in 1 .. n - said[f] : r[j] \in Places
  BY <1>3, <1>4, <1>5, PlaceNumbers
<1> HIDE DEF r
<1>7. r \in PushedRows
  <2>1. r = [j \in 1 .. n - said[f] |-> r[j]]
    BY DEF r
  <2>2. r \in Seq(Places) /\ Len(r) = n - said[f]
    BY <1>3, <1>6, <2>1
  <2>3. QED BY <1>3, <2>2 DEF PushedRows
<1>8. Lists(r, said[f] + 1 .. n)
  <2>1. ASSUME NEW x \in said[f] + 1 .. n PROVE x \in Range(r)
    <3>1. x - said[f] \in 1 .. n - said[f] /\ said[f] + (x - said[f]) = x
      BY <1>1
    <3>2. x - said[f] \in DOMAIN r /\ r[x - said[f]] = x
      BY <1>3, <1>4, <3>1
    <3>3. QED BY <3>2 DEF Range
  <2>2. Range(r) = said[f] + 1 .. n
    BY <1>4, <2>1 DEF Range
  <2>3. \A i, j \in DOMAIN r : i < j => r[i] < r[j]
    BY <1>1, <1>3, <1>4
  <2>4. QED BY <2>2, <2>3 DEF Lists
<1>9. QED BY <1>1, <1>2, <1>4, <1>7, <1>8 DEF Pushed

\* What a query answers is a list of the rows the table has.
LEMMA AnswerRows ==
    ASSUME NEW f \in Feeds, NEW n \in Places, Answer(f, n) # Null
    PROVE  /\ Answer(f, n) \in Table /\ Single(f, Answer(f, n))
           /\ Answer(f, n) \in Seq(Seq(1..n))
<1> DEFINE k == IF n < Limit THEN n ELSE Limit
<1>1. n \in Nat /\ k \in Nat /\ k <= n /\ 1..n \subseteq Places
  BY PlaceNumbers, DashboardAssumption
<1>2. \A i \in 1..n : <<i>> \in Seq(1..n) /\ <<i>> \in Seq(Places) /\ Len(<<i>>) = 1
  BY <1>1
<1>3. CASE f = "pue_update"
  <2>1. Answer(f, n) = [i \in 1..n |-> <<i>>]
    BY <1>3 DEF Answer, Trend
  <2>2. QED BY <1>1, <1>2, <2>1 DEF Table, Single
<1>4. CASE f # "pue_update"
  <2>1. Answer(f, n) = [i \in 1..k |-> <<n + 1 - i>>]
    BY <1>4 DEF Answer, Newest
  <2>2. \A i \in 1..k : n + 1 - i \in 1..n
    BY <1>1
  <2> HIDE DEF k
  <2>3. \A i \in 1..k : <<n + 1 - i>> \in Seq(1..n) /\ <<n + 1 - i>> \in Seq(Places)
    BY <1>2, <2>2
  <2>4. QED BY <1>1, <1>4, <2>1, <2>3 DEF Table, Single
<1>5. QED BY <1>3, <1>4

\* What the page makes of a message is a list of the same kind.
LEMMA ExtendedType ==
    ASSUME Typed, NEW f \in Feeds, NEW r \in PushedRows, list[f] # Null
    PROVE  /\ Entries(f, r) \in Table /\ list[f] \in Table
           /\ Extended(f, r) \in Table /\ Single(f, Extended(f, r))
<1>1. list[f] \in Table /\ Single(f, list[f]) /\ r \in Seq(Places)
  BY DEF Typed, PageLists, PushedRows
<1>2. CASE f = "pue_update"
  <2>1. Entries(f, r) = Singles(r) /\ Extended(f, r) = list[f] \o Singles(r)
    BY <1>2 DEF Entries, Singles, Extended
  <2>2. Singles(r) \in Table
    BY <1>1, FlatSingles DEF Table
  <2>3. list[f] \o Singles(r) \in Table
    BY <1>1, <2>2 DEF Table
  <2>4. \A i \in DOMAIN Singles(r) : Len(Singles(r)[i]) = 1
    BY DEF Singles
  <2>5. Joined(list[f], Singles(r), list[f] \o Singles(r))
    BY <1>1, <2>2, ConcatPlaces DEF Table
  <2> DEFINE l == list[f]
             e == Singles(r)
             u == l \o e
  <2> HIDE DEF l, e, u
  <2>6. \A i \in DOMAIN u : i \in DOMAIN l \/ (i - Len(l) \in DOMAIN e /\ u[i] = e[i - Len(l)])
    BY <2>5 DEF Joined, l, e, u
  <2>7. \A i \in DOMAIN l : u[i] = l[i] /\ Len(l[i]) = 1
    BY <1>1, <1>2, <2>5 DEF Joined, Single, l, e, u
  <2>8. \A i \in DOMAIN e : Len(e[i]) = 1
    BY <2>4 DEF e
  <2>9. \A i \in DOMAIN u : Len(u[i]) = 1
    BY <2>6, <2>7, <2>8
  <2>10. QED BY <1>1, <2>1, <2>2, <2>3, <2>9 DEF Single, l, e, u
<1>3. CASE f # "pue_update"
  <2>1. Entries(f, r) = <<r>> /\ Extended(f, r) = <<r>> \o list[f]
    BY <1>3 DEF Entries, Extended
  <2>2. <<r>> \in Table
    BY <1>1 DEF Table
  <2>3. <<r>> \o list[f] \in Table
    BY <1>1, <2>2 DEF Table
  <2>4. QED BY <1>1, <1>3, <2>1, <2>2, <2>3 DEF Single
<1>4. QED BY <1>2, <1>3

\* The message that arrives next.
LEMMA NextMessage ==
    ASSUME OnTheWay, wire # <<>>
    PROVE  /\ Head(wire) \in Pushed /\ Head(wire).feed \in Feeds /\ Head(wire).rows \in PushedRows
           /\ Last(Head(wire).rows) \in 1..said[Head(wire).feed]
           /\ Tail(wire) \in Seq(Pushed)
           /\ \A i \in DOMAIN Tail(wire) : i + 1 \in DOMAIN wire /\ Tail(wire)[i] = wire[i + 1]
<1>1. /\ wire \in Seq(Pushed) /\ Head(wire) = wire[1] /\ 1 \in DOMAIN wire
      /\ Head(wire) \in Pushed /\ Tail(wire) \in Seq(Pushed)
      /\ \A i \in DOMAIN Tail(wire) : i + 1 \in DOMAIN wire /\ Tail(wire)[i] = wire[i + 1]
  BY DEF OnTheWay
<1>2. Head(wire).feed \in Feeds /\ Head(wire).rows \in PushedRows
  BY <1>1 DEF Pushed
<1>3. Len(Head(wire).rows) \in DOMAIN Head(wire).rows
  BY <1>2 DEF PushedRows
<1>4. Last(Head(wire).rows) \in 1..said[Head(wire).feed]
  BY <1>1, <1>3 DEF OnTheWay, Last
<1>5. QED BY <1>1, <1>2, <1>4

\* Initially every variable has its type.
LEMMA TypedInit == Init => Typed
<1> SUFFICES ASSUME Init PROVE Typed
  OBVIOUS
<1>1. Positions
  <2>1. /\ stored \in [Feeds -> Nat] /\ said \in [Feeds -> Nat] /\ got \in [Feeds -> Nat]
        /\ since \in [Feeds -> Places] /\ dropped \in [Feeds -> SUBSET Nat]
    BY PlaceNumbers DEF Init
  <2>2. \A f \in Feeds : /\ stored[f] \in Nat /\ said[f] \in Nat /\ MaxRows[f] \in Nat
                         /\ stored[f] < MaxRows[f] /\ said[f] <= stored[f] /\ got[f] = said[f]
                         /\ dropped[f] = {}
    BY <2>1, DashboardAssumption DEF Init
  <2>3. QED BY <2>1, <2>2 DEF Positions
<1>2. OnTheWay
  <2>1. wire = <<>> /\ <<>> \in Seq(Pushed) /\ DOMAIN <<>> = {} /\ open = FALSE
    BY DEF Init
  <2>2. QED BY <2>1 DEF OnTheWay
<1>3. Requests
  BY DashboardAssumption DEF Init, Requests, Request, Call
<1>4. PageLists
  <2>1. \A f \in Feeds : list[f] = <<>>
    BY DEF Init
  <2>2. <<>> \in Table /\ \A f : Single(f, <<>>)
    BY DEF Table, Single
  <2>3. list = [f \in Feeds |-> <<>>]
    BY DEF Init
  <2>4. QED BY <2>1, <2>2, <2>3 DEF PageLists
<1>5. QED BY <1>1, <1>2, <1>3, <1>4 DEF Typed

\* Every step keeps the positions.
LEMMA PositionsStep == ASSUME Typed, [Next]_vars PROVE Positions'
<1>1. Positions /\ OnTheWay /\ Requests
  BY DEF Typed
<1>2. /\ \A f \in Feeds : stored[f] \in Nat /\ said[f] \in Nat /\ got[f] \in Nat
                          /\ since[f] \in Places /\ since[f] \in Nat /\ MaxRows[f] \in Nat
      /\ \A f \in Feeds : /\ got[f] <= said[f] /\ said[f] <= stored[f]
                          /\ stored[f] <= MaxRows[f] /\ dropped[f] \subseteq 1..said[f]
      /\ stored \in [Feeds -> Nat] /\ said \in [Feeds -> Nat] /\ got \in [Feeds -> Nat]
      /\ dropped \in [Feeds -> SUBSET Nat] /\ since \in [Feeds -> Places]
  BY <1>1, PlaceNumbers, DashboardAssumption DEF Positions
<1>3. CASE UNCHANGED <<server, history>>
  BY <1>1, <1>3 DEF Positions, server, history
<1>4. ASSUME NEW f \in Feeds, Store(f) PROVE Positions'
  <2>1. /\ stored' = [stored EXCEPT ![f] = @ + 1] /\ stored[f] < MaxRows[f]
        /\ UNCHANGED <<said, dropped, got, since>>
    BY <1>4 DEF Store, history
  <2>2. \A g \in Feeds : stored'[g] \in Nat /\ stored[g] <= stored'[g] /\ stored'[g] <= MaxRows[g]
    BY <1>2, <2>1
  <2>3. stored' \in [Feeds -> Nat]
    BY <1>2, <2>1
  <2>4. QED BY <1>2, <2>1, <2>2, <2>3 DEF Positions
<1>5. ASSUME NEW f \in Feeds, Push(f) \/ Drop(f) PROVE Positions'
  <2>1. PICK n \in Batches(f) \cap (1..stored[f]) :
            /\ said' = [said EXCEPT ![f] = n] /\ UNCHANGED <<stored, got, since>>
            /\ \/ dropped' = dropped
               \/ dropped' = [dropped EXCEPT ![f] = @ \cup (said[f] + 1 .. n)]
    BY <1>5 DEF Push, Drop, history
  <2>2. n \in Nat /\ said[f] < n /\ n <= stored[f]
    BY <1>1, MessageRows
  <2>3. \A g \in Feeds : said'[g] \in Nat /\ said[g] <= said'[g] /\ said'[g] <= stored[g]
    BY <1>2, <2>1, <2>2
  <2>4. said' \in [Feeds -> Nat]
    BY <1>2, <2>1, <2>2
  <2>5. dropped' \in [Feeds -> SUBSET Nat] /\ \A g \in Feeds : dropped'[g] \subseteq 1..said'[g]
    <3>1. \A g \in Feeds : 1..said[g] \subseteq 1..said'[g]
      BY <1>2, <2>3
    <3>2. said[f] + 1 .. n \subseteq 1..said'[f] /\ said[f] + 1 .. n \in SUBSET Nat
      BY <1>2, <2>1, <2>2
    <3>3. QED BY <1>2, <2>1, <3>1, <3>2
  <2>6. QED BY <1>2, <2>1, <2>3, <2>4, <2>5 DEF Positions
<1>6. ASSUME NEW c \in calls, Apply(c) PROVE Positions'
  <2>1. c.feed \in Feeds /\ c.rows \in Places /\ UNCHANGED <<stored, said, dropped, got>>
        /\ since' = [since EXCEPT ![c.feed] = IF c.rows > got[c.feed] THEN c.rows ELSE got[c.feed]]
    BY <1>1, <1>6 DEF Apply, Requests, Request, server
  <2>2. got[c.feed] <= MaxRows[c.feed]
    BY <1>2, <2>1
  <2>3. got[c.feed] \in Places
    BY <1>2, <2>1, <2>2, PlaceNumbers
  <2>4. since' \in [Feeds -> Places]
    BY <1>2, <2>1, <2>3
  <2>5. QED BY <1>2, <2>1, <2>4 DEF Positions
<1>7. CASE Receive
  <2> DEFINE m == Head(wire)
  <2>1. /\ got' = [got EXCEPT ![m.feed] = Last(m.rows)] /\ wire # <<>>
        /\ UNCHANGED <<stored, said, dropped, since>>
    BY <1>7 DEF Receive, server
  <2>2. m.feed \in Feeds /\ Last(m.rows) \in 1..said[m.feed]
    BY <1>1, <2>1, NextMessage
  <2> HIDE DEF m
  <2>3. got' \in [Feeds -> Nat] /\ \A f \in Feeds : got'[f] <= said[f]
    BY <1>2, <2>1, <2>2
  <2>4. QED BY <1>2, <2>1, <2>3 DEF Positions
<1>8. CASE Connect
  <2>1. /\ got' = said /\ UNCHANGED <<stored, said, dropped>>
        /\ since' = [f \in Feeds |-> IF said[f] > since[f] THEN said[f] ELSE since[f]]
    BY <1>8 DEF Connect, server
  <2>2. \A f \in Feeds : said[f] \in Places
    <3>1. \A f \in Feeds : said[f] <= MaxRows[f]
      BY <1>2
    <3>2. QED BY <1>2, <3>1, PlaceNumbers
  <2>3. since' \in [Feeds -> Places]
    BY <1>2, <2>1, <2>2
  <2>4. QED BY <1>2, <2>1, <2>3 DEF Positions
<1>9. QED BY <1>3, <1>4, <1>5, <1>6, <1>7, <1>8
       DEF Next, vars, ServerAnswers, FetchFails, SwitchTab, Close

\* Every step keeps the messages.
LEMMA OnTheWayStep == ASSUME Typed, [Next]_vars PROVE OnTheWay'
<1> DEFINE Told(w, a) == \A i \in DOMAIN w : \A j \in DOMAIN w[i].rows :
                             w[i].rows[j] \in 1..a[w[i].feed]
<1>1. /\ Positions /\ OnTheWay /\ open \in BOOLEAN /\ (wire = <<>> \/ open)
      /\ wire \in Seq(Pushed) /\ Told(wire, said)
      /\ \A i \in DOMAIN wire : wire[i].feed \in Feeds
      /\ said \in [Feeds -> Nat]
  <2>1. OnTheWay /\ Positions
    BY DEF Typed
  <2>2. \A i \in DOMAIN wire : wire[i].feed \in Feeds
    <3>1. \A i \in DOMAIN wire : wire[i] \in Pushed
      BY <2>1 DEF OnTheWay
    <3>2. QED BY <3>1 DEF Pushed
  <2>3. QED BY <2>1, <2>2 DEF OnTheWay, Positions
<1>2. CASE UNCHANGED <<said, network>>
  BY <1>1, <1>2 DEF OnTheWay, network
<1>3. ASSUME NEW f \in Feeds, NEW n \in Batches(f) \cap (1..stored[f]),
             said' = [said EXCEPT ![f] = n]
      PROVE  said[f] < n /\ n \in Nat /\ Told(wire, said')
  <2>1. said[f] < n /\ n \in Nat
    BY <1>1, MessageRows
  <2>2. \A g \in Feeds : said[g] \in Nat /\ said'[g] \in Nat /\ said[g] <= said'[g]
    BY <1>1, <1>3, <2>1
  <2>3. \A g \in Feeds : 1..said[g] \subseteq 1..said'[g]
    BY <2>2
  <2>4. QED BY <1>1, <2>1, <2>3
<1>4. ASSUME NEW f \in Feeds, Push(f) PROVE OnTheWay'
  <2>1. PICK n \in Batches(f) \cap (1..stored[f]) :
            /\ said' = [said EXCEPT ![f] = n] /\ open' = open
            /\ wire' = IF open THEN Append(wire, Message(f, n)) ELSE wire
    BY <1>4 DEF Push
  <2>2. Told(wire, said')
    BY <1>3, <2>1
  <2>3. CASE open
    <3> DEFINE m == Message(f, n)
    <3>1. m \in Pushed /\ m.feed = f /\ (\A j \in DOMAIN m.rows : m.rows[j] \in 1..n) /\ said'[f] = n
      BY <1>1, <2>1, MessageRows
    <3> HIDE DEF m
    <3>2. /\ wire' = Append(wire, m) /\ wire' \in Seq(Pushed)
          /\ \A i \in DOMAIN wire' : wire'[i] = m \/ (i \in DOMAIN wire /\ wire'[i] = wire[i])
      BY <1>1, <2>1, <2>3, <3>1 DEF m
    <3>3. Told(wire', said')
      BY <2>2, <3>1, <3>2
    <3>4. QED BY <2>1, <2>3, <3>2, <3>3 DEF OnTheWay
  <2>4. CASE ~open
    BY <1>1, <2>1, <2>2, <2>4 DEF OnTheWay
  <2>5. QED BY <2>3, <2>4
<1>5. ASSUME NEW f \in Feeds, Drop(f) PROVE OnTheWay'
  <2>1. PICK n \in Batches(f) \cap (1..stored[f]) :
            said' = [said EXCEPT ![f] = n] /\ UNCHANGED <<open, wire>>
    BY <1>5 DEF Drop, network
  <2>2. Told(wire, said')
    BY <1>3, <2>1
  <2>3. QED BY <1>1, <2>1, <2>2 DEF OnTheWay
<1>6. CASE Receive
  <2>1. wire' = Tail(wire) /\ wire # <<>> /\ open /\ open' = open /\ said' = said
    BY <1>6 DEF Receive, server
  <2>2. /\ wire' \in Seq(Pushed)
        /\ \A i \in DOMAIN wire' : i + 1 \in DOMAIN wire /\ wire'[i] = wire[i + 1]
    BY <1>1, <2>1, NextMessage
  <2>3. Told(wire', said)
    BY <1>1, <2>2
  <2>4. QED BY <1>1, <2>1, <2>2, <2>3 DEF OnTheWay
<1>7. CASE Close \/ Connect
  <2>1. wire' = <<>> /\ open' \in BOOLEAN
    BY <1>1, <1>7 DEF Close, Connect, Lost
  <2>2. <<>> \in Seq(Pushed) /\ DOMAIN <<>> = {}
    OBVIOUS
  <2>3. QED BY <2>1, <2>2 DEF OnTheWay
<1>8. QED BY <1>2, <1>4, <1>5, <1>6, <1>7
       DEF Next, vars, server, Store, ServerAnswers, Apply, FetchFails, SwitchTab

\* Every step keeps the requests.
LEMMA RequestsStep == ASSUME Typed, [Next]_vars PROVE Requests'
<1>1. Requests /\ Positions
  BY DEF Typed
<1>2. CASE UNCHANGED http
  BY <1>1, <1>2 DEF Requests, http
<1>3. ASSUME NEW c \in calls, ServerAnswers(c) PROVE Requests'
  <2>1. c \in Request(fetches) /\ stored[c.feed] \in Places
    <3>1. c \in Request(fetches)
      BY <1>1 DEF Requests
    <3>2. c.feed \in Feeds
      BY <3>1 DEF Request
    <3>3. stored[c.feed] \in Nat /\ stored[c.feed] <= MaxRows[c.feed]
      BY <1>1, <3>2 DEF Positions
    <3>4. QED BY <3>1, <3>2, <3>3, PlaceNumbers
  <2>2. [c EXCEPT !.rows = stored[c.feed]] \in Request(fetches)
    BY <2>1 DEF Request
  <2>3. QED BY <1>1, <1>3, <2>2 DEF ServerAnswers, Requests
<1>4. ASSUME NEW c \in calls, Apply(c) \/ FetchFails(c) PROVE Requests'
  BY <1>1, <1>4 DEF Apply, FetchFails, Requests
<1>5. CASE SwitchTab
  <2>1. /\ fetches \in 1..MaxFetches /\ MaxFetches \in Nat /\ fetches < MaxFetches
        /\ fetches' = fetches + 1 /\ "pue_update" \in Feeds
        /\ calls' = calls \cup {Call("pue_update", fetches')}
    BY <1>1, <1>5, DashboardAssumption DEF SwitchTab, Requests
  <2>2. fetches' \in 1..MaxFetches /\ fetches' \in 1..fetches' /\ 1..fetches \subseteq 1..fetches'
    BY <2>1
  <2>3. Call("pue_update", fetches') \in Request(fetches')
    BY <2>1, <2>2 DEF Call, Request
  <2>4. Request(fetches) \subseteq Request(fetches')
    BY <2>2 DEF Request
  <2>5. QED BY <1>1, <2>1, <2>2, <2>3, <2>4 DEF Requests
<1>6. QED BY <1>2, <1>3, <1>4, <1>5
       DEF Next, vars, Store, Push, Drop, Receive, Close, Connect

\* Every step keeps the lists of the page.
LEMMA PageListsStep == ASSUME Typed, [Next]_vars PROVE PageLists'
<1>1. PageLists /\ Requests /\ OnTheWay
  BY DEF Typed
<1>2. CASE UNCHANGED list
  BY <1>1, <1>2 DEF PageLists
<1>3. ASSUME NEW f \in Feeds, NEW l, list' = [list EXCEPT ![f] = l],
             l # Null => l \in Table /\ Single(f, l)
      PROVE  PageLists'
  <2>1. list' \in [Feeds -> Table \cup {Null}]
    BY <1>1, <1>3 DEF PageLists
  <2>2. \A g \in Feeds : list'[g] = IF g = f THEN l ELSE list[g]
    BY <1>1, <1>3 DEF PageLists
  <2>3. QED BY <1>1, <1>3, <2>1, <2>2 DEF PageLists
<1>4. ASSUME NEW c \in calls, Apply(c) PROVE PageLists'
  <2>1. /\ c.feed \in Feeds /\ c.rows \in Places
        /\ list' = [list EXCEPT ![c.feed] = Answer(c.feed, c.rows)]
    BY <1>1, <1>4 DEF Apply, Requests, Request
  <2>2. QED BY <1>3, <2>1, AnswerRows
<1>5. CASE Receive
  <2> DEFINE m == Head(wire)
  <2>1. wire # <<>> /\ list' = [list EXCEPT ![m.feed] = Extended(m.feed, m.rows)]
    BY <1>5 DEF Receive
  <2>2. m.feed \in Feeds /\ m.rows \in PushedRows
    BY <1>1, <2>1, NextMessage
  <2> HIDE DEF m
  <2>3. Extended(m.feed, m.rows) # Null => list[m.feed] # Null
    BY DEF Extended
  <2>4. QED BY <1>3, <2>1, <2>2, <2>3, ExtendedType
<1>6. QED BY <1>2, <1>4, <1>5
       DEF Next, vars, Store, Push, Drop, ServerAnswers, FetchFails, SwitchTab, Close, Connect

\* Every step keeps the types.
LEMMA TypedStep == ASSUME Typed, [Next]_vars PROVE Typed'
BY PositionsStep, OnTheWayStep, RequestsStep, PageListsStep DEF Typed

\* Every variable has its type, in every run, and only an open connection
\* carries messages.
THEOREM TypeCorrect == Spec => []TypeOK
<1>1. Typed /\ [Next]_vars => Typed'
  BY TypedStep
<1>2. QED BY TypedInit, <1>1, TypedMeans, PTL DEF Spec

(***************************************************************************)
(* Rows of lists and messages                                              *)
(***************************************************************************)

\* The rows that the messages of w carry for f.
Part(m, f)    == IF m.feed = f THEN m.rows ELSE <<>>
PartsOf(w, f) == [i \in DOMAIN w |-> Part(w[i], f)]

LEMMA ArrivingParts == ASSUME NEW f PROVE Arriving(f) = FlattenSeq(PartsOf(wire, f))
BY DEF Arriving, PartsOf, Part

\* They are sequences of rows.
LEMMA PartsType ==
    ASSUME NEW f, NEW w \in Seq(Pushed)
    PROVE  /\ PartsOf(w, f) \in Table
           /\ \A m \in Pushed : Part(m, f) \in Seq(Places)
<1>1. <<>> \in Seq(Places)
  OBVIOUS
<1>2. \A m \in Pushed : Part(m, f) \in Seq(Places)
  BY <1>1 DEF Part, Pushed, PushedRows
<1>3. DOMAIN w = 1..Len(w) /\ Len(w) \in Nat /\ \A i \in 1..Len(w) : w[i] \in Pushed
  OBVIOUS
<1>4. \A i \in 1..Len(w) : Part(w[i], f) \in Seq(Places)
  BY <1>2, <1>3
<1>5. PartsOf(w, f) \in [1..Len(w) -> Seq(Places)]
  BY <1>3, <1>4 DEF PartsOf
<1>6. PartsOf(w, f) \in Seq(Seq(Places))
  BY <1>3, <1>5
<1>7. QED BY <1>2, <1>6 DEF Table

\* The rows of a message come after those before it.
LEMMA PartsAppend ==
    ASSUME NEW f, NEW w \in Seq(Pushed), NEW m \in Pushed
    PROVE  FlattenSeq(PartsOf(Append(w, m), f)) = FlattenSeq(PartsOf(w, f)) \o Part(m, f)
<1>1. DOMAIN w = 1..Len(w) /\ DOMAIN Append(w, m) = 1..(Len(w) + 1) /\ Len(w) \in Nat
  OBVIOUS
<1>2. Append(w, m)[Len(w) + 1] = m /\ \A i \in 1..Len(w) : Append(w, m)[i] = w[i]
  BY <1>1
<1>3. PartsOf(w, f) \in Table /\ Len(PartsOf(w, f)) = Len(w) /\ Part(m, f) \in Seq(Places)
  BY <1>1, PartsType DEF PartsOf
<1>4. PartsOf(Append(w, m), f) = Append(PartsOf(w, f), Part(m, f))
  BY <1>1, <1>2, <1>3 DEF PartsOf, Table
<1>5. QED BY <1>3, <1>4, FlatAppend DEF Table

\* Those of the first message come first.
LEMMA PartsHead ==
    ASSUME NEW f, NEW w \in Seq(Pushed), w # <<>>
    PROVE  FlattenSeq(PartsOf(w, f)) = Part(Head(w), f) \o FlattenSeq(PartsOf(Tail(w), f))
<1> DEFINE Rest(v) == FlattenSeq(PartsOf(v, f))
           P == {v \in Seq(Pushed) : v # <<>> => Rest(v) = Part(Head(v), f) \o Rest(Tail(v))}
<1>1. \A v \in Seq(Pushed), m \in Pushed : Rest(Append(v, m)) = Rest(v) \o Part(m, f)
  BY PartsAppend
<1>2. \A v \in Seq(Pushed) : Rest(v) \in Seq(Places)
  <2>1. TAKE v \in Seq(Pushed)
  <2>2. PartsOf(v, f) \in Seq(Seq(Places))
    BY PartsType DEF Table
  <2>3. QED BY <2>2, FlatType
<1>3. Rest(<<>>) = <<>>
  <2>1. PartsOf(<<>>, f) = <<>>
    BY DEF PartsOf
  <2>2. QED BY <2>1, FlatEmpty
<1> HIDE DEF Rest
<1>4. <<>> \in P
  OBVIOUS
<1>5. ASSUME NEW v \in P, NEW m \in Pushed PROVE Append(v, m) \in P
  <2> DEFINE u == Append(v, m)
  <2>1. v \in Seq(Pushed) /\ u \in Seq(Pushed) /\ Rest(u) = Rest(v) \o Part(m, f)
        /\ Part(m, f) \in Seq(Places)
    <3>1. v \in Seq(Pushed) /\ u \in Seq(Pushed)
      OBVIOUS
    <3>2. Rest(u) = Rest(v) \o Part(m, f)
      BY <1>1, <3>1
    <3>3. QED BY <3>1, <3>2, PartsType
  <2>2. CASE v = <<>>
    <3>1. Head(u) = m /\ Tail(u) = <<>>
      BY <2>2
    <3>2. <<>> \o Part(m, f) = Part(m, f) /\ Part(m, f) \o <<>> = Part(m, f)
      BY <2>1
    <3>3. Rest(u) = Part(Head(u), f) \o Rest(Tail(u))
      BY <1>3, <2>1, <2>2, <3>1, <3>2
    <3>4. QED BY <2>1, <3>3
  <2>3. CASE v # <<>>
    <3>1. /\ Head(u) = Head(v) /\ Tail(u) = Append(Tail(v), m)
          /\ Tail(v) \in Seq(Pushed) /\ Head(v) \in Pushed
      BY <2>1, <2>3
    <3>2. Rest(v) = Part(Head(v), f) \o Rest(Tail(v))
      BY <2>3
    <3>3. Rest(Tail(u)) = Rest(Tail(v)) \o Part(m, f)
      BY <1>1, <3>1
    <3>4. Part(Head(v), f) \in Seq(Places) /\ Rest(Tail(v)) \in Seq(Places)
      BY <1>2, <3>1, PartsType
    <3>5. (Part(Head(v), f) \o Rest(Tail(v))) \o Part(m, f)
              = Part(Head(v), f) \o (Rest(Tail(v)) \o Part(m, f))
      <4> DEFINE a == Part(Head(v), f)
                 b == Rest(Tail(v))
                 c == Part(m, f)
      <4>1. a \in Seq(Places) /\ b \in Seq(Places) /\ c \in Seq(Places)
        BY <2>1, <3>4
      <4> HIDE DEF a, b, c
      <4>2. (a \o b) \o c = a \o (b \o c)
        BY ONLY <4>1, SMTT(30)
      <4>3. QED BY <4>2 DEF a, b, c
    <3>6. Rest(u) = Part(Head(u), f) \o Rest(Tail(u))
      BY <2>1, <3>1, <3>2, <3>3, <3>5
    <3>7. QED BY <2>1, <3>6
  <2>4. QED BY <2>2, <2>3
<1> HIDE DEF P
<1>6. P = Seq(Pushed)
  BY <1>4, <1>5, SequenceInduction DEF P
<1>7. QED BY <1>6 DEF P, Rest

\* The first entry of a list is the last of the list turned round.
LEMMA ReverseFirst ==
    ASSUME NEW S, NEW l \in Seq(S), NEW r \in S
    PROVE  /\ Reverse(l) \in Seq(S)
           /\ Reverse(<<r>> \o l) = Append(Reverse(l), r)
<1> DEFINE k == Len(l)
           u == <<r>> \o l
           v == Reverse(l)
<1>1. k \in Nat /\ \A i \in 1..k : l[i] \in S
  OBVIOUS
<1>2. u \in Seq(S) /\ Len(u) = k + 1 /\ u[1] = r /\ \A i \in 1..k : u[i + 1] = l[i]
  OBVIOUS
<1>3. v = [i \in 1..k |-> l[(k - i) + 1]] /\ \A i \in 1..k : (k - i) + 1 \in 1..k
  BY <1>1 DEF Reverse
<1> HIDE DEF k, u, v
<1>4. v \in Seq(S) /\ Len(v) = k
  BY <1>1, <1>3
<1>5. Append(v, r) = [i \in 1..(k + 1) |-> IF i = k + 1 THEN r ELSE v[i]]
  <2> DEFINE t == Append(v, r)
  <2>1. /\ t \in Seq(S) /\ Len(t) = k + 1 /\ t[k + 1] = r
        /\ \A i \in 1..k : t[i] = v[i]
    BY <1>4, AppendProperties
  <2> HIDE DEF t
  <2>2. t = [i \in 1..(k + 1) |-> t[i]]
    BY <2>1
  <2>3. \A i \in 1..(k + 1) : i = k + 1 \/ i \in 1..k
    BY <1>1
  <2>4. \A i \in 1..(k + 1) : t[i] = IF i = k + 1 THEN r ELSE v[i]
    BY <2>1, <2>3
  <2>5. QED BY <2>2, <2>4 DEF t
<1>6. Reverse(u) = [i \in 1..(k + 1) |-> u[((k + 1) - i) + 1]]
  BY <1>2 DEF Reverse
<1>7. ASSUME NEW i \in 1..(k + 1)
      PROVE  u[((k + 1) - i) + 1] = IF i = k + 1 THEN r ELSE v[i]
  <2>1. CASE i = k + 1
    <3>1. ((k + 1) - i) + 1 = 1
      BY <1>1, <2>1
    <3>2. QED BY <1>2, <2>1, <3>1
  <2>2. CASE i # k + 1
    <3>1. i \in 1..k /\ (k - i) + 1 \in 1..k /\ ((k + 1) - i) + 1 = ((k - i) + 1) + 1
      BY <1>1, <2>2
    <3>2. u[((k - i) + 1) + 1] = l[(k - i) + 1] /\ v[i] = l[(k - i) + 1]
      BY <1>2, <1>3, <3>1
    <3>3. QED BY <2>2, <3>1, <3>2
  <2>3. QED BY <2>1, <2>2
<1>8. Reverse(u) = Append(v, r)
  BY <1>5, <1>6, <1>7
<1>9. QED BY <1>4, <1>8 DEF u, v

\* The rows a list l of f stands for.
Shown(f, l) == FlattenSeq(IF f = "pue_update" THEN l ELSE Reverse(l))

LEMMA ShownType ==
    ASSUME NEW S, NEW f, NEW l \in Seq(Seq(S))
    PROVE  Shown(f, l) \in Seq(S)
<1>1. Reverse(l) \in Seq(Seq(S))
  <2> DEFINE L == Seq(S)
  <2>1. l \in Seq(L) /\ <<>> \in L
    OBVIOUS
  <2> HIDE DEF L
  <2>2. Reverse(l) \in Seq(L)
    BY <2>1, ReverseFirst
  <2>3. QED BY <2>2 DEF L
<1>2. QED BY <1>1, FlatType DEF Shown

\* What the page makes of a message stands for its rows after those it had.
LEMMA ShownExtended ==
    ASSUME Typed, NEW f \in Feeds, NEW r \in PushedRows, list[f] # Null
    PROVE  Shown(f, Extended(f, r)) = Rows(f) \o r
<1>1. list[f] \in Seq(Seq(Places)) /\ r \in Seq(Places)
  BY ExtendedType DEF Table, PushedRows
<1>2. CASE f = "pue_update"
  <2>1. Extended(f, r) = list[f] \o Singles(r) /\ Rows(f) = FlattenSeq(list[f])
    BY <1>2 DEF Extended, Entries, Singles, Rows
  <2>2. Singles(r) \in Seq(Seq(Places)) /\ FlattenSeq(Singles(r)) = r
    BY <1>1, FlatSingles
  <2>3. FlattenSeq(list[f] \o Singles(r)) = FlattenSeq(list[f]) \o FlattenSeq(Singles(r))
    BY <1>1, <2>2, FlatConcat
  <2>4. QED BY <1>2, <2>1, <2>2, <2>3 DEF Shown
<1>3. CASE f # "pue_update"
  <2>1. Extended(f, r) = <<r>> \o list[f] /\ Rows(f) = FlattenSeq(Reverse(list[f]))
    BY <1>3 DEF Extended, Entries, Rows
  <2>2. /\ Reverse(list[f]) \in Seq(Seq(Places))
        /\ Reverse(<<r>> \o list[f]) = Append(Reverse(list[f]), r)
    <3> DEFINE L == Seq(Places)
    <3>1. list[f] \in Seq(L) /\ r \in L
      BY <1>1
    <3> HIDE DEF L
    <3>2. Reverse(list[f]) \in Seq(L) /\ Reverse(<<r>> \o list[f]) = Append(Reverse(list[f]), r)
      BY <3>1, ReverseFirst
    <3>3. QED BY <3>2 DEF L
  <2>3. FlattenSeq(Append(Reverse(list[f]), r)) = FlattenSeq(Reverse(list[f])) \o r
    BY <1>1, <2>2, FlatAppend
  <2>4. QED BY <1>3, <2>1, <2>2, <2>3 DEF Shown
<1>4. QED BY <1>2, <1>3

\* An answer stands for rows the table had.
LEMMA ShownAnswer ==
    ASSUME NEW f \in Feeds, NEW n \in Places, Answer(f, n) # Null
    PROVE  /\ Shown(f, Answer(f, n)) \in Seq(Places)
           /\ \A i \in DOMAIN Shown(f, Answer(f, n)) : Shown(f, Answer(f, n))[i] <= n
<1> DEFINE s == Shown(f, Answer(f, n))
<1>1. Answer(f, n) \in Seq(Seq(Places)) /\ Answer(f, n) \in Seq(Seq(1..n)) /\ n \in Nat
  BY AnswerRows, PlaceNumbers DEF Table
<1>2. s \in Seq(Places) /\ s \in Seq(1..n)
  BY <1>1, ShownType
<1> HIDE DEF s
<1>3. \A i \in DOMAIN s : s[i] \in 1..n
  <2> DEFINE N == 1..n
  <2>1. s \in Seq(N)
    BY <1>2
  <2> HIDE DEF N
  <2>2. \A i \in DOMAIN s : s[i] \in N
    BY <2>1
  <2>3. QED BY <2>2 DEF N
<1>4. \A i \in DOMAIN s : s[i] <= n
  BY <1>1, <1>3
<1>5. QED BY <1>2, <1>4 DEF s

(***************************************************************************)
(* Lists and messages in order                                             *)
(***************************************************************************)

\* The rows from one place to another that were not dropped.
Between(f, a, b) == (a + 1 .. b) \ dropped[f]

\* The rows of a list after since are in order, up to the last one that came.
ListOrder == \A f \in Feeds : list[f] # Null =>
                 Shows(Rows(f), since[f], Between(f, since[f], got[f]))

\* Those on their way go on from there.
WireOrder == open => \A f \in Feeds : Lists(Arriving(f), Between(f, got[f], said[f]))

\* Two stretches of rows that meet make one.
LEMMA Meet ==
    ASSUME NEW a \in Nat, NEW b \in Nat, NEW c \in Nat, b <= c, NEW D
    PROVE  /\ ((a + 1 .. b) \ D) \cup {x \in (b + 1 .. c) \ D : x > a} = (a + 1 .. c) \ D
           /\ \A x \in (a + 1 .. b) \ D, y \in {z \in (b + 1 .. c) \ D : z > a} : x < y
OBVIOUS

\* The rows of lists and messages are rows.
LEMMA RowTypes ==
    ASSUME Typed, NEW f \in Feeds
    PROVE  /\ list[f] # Null => Rows(f) \in Seq(Places)
           /\ Arriving(f) \in Seq(Places)
           /\ Rows(f) = Shown(f, list[f])
           /\ since[f] \in Nat /\ got[f] \in Nat /\ said[f] \in Nat /\ got[f] <= said[f]
<1>1. Rows(f) = Shown(f, list[f])
  BY DEF Rows, Shown
<1>2. list[f] # Null => list[f] \in Seq(Seq(Places))
  BY DEF Typed, PageLists, Table
<1>3. PartsOf(wire, f) \in Seq(Seq(Places))
  BY PartsType DEF Typed, OnTheWay, Table
<1>4. since[f] \in Nat /\ got[f] \in Nat /\ said[f] \in Nat /\ got[f] <= said[f]
  BY PlaceNumbers DEF Typed, Positions
<1>5. Arriving(f) \in Seq(Places)
  BY <1>3, FlatType, ArrivingParts
<1>6. list[f] # Null => Rows(f) \in Seq(Places)
  BY <1>1, <1>2, ShownType
<1>7. QED BY <1>1, <1>4, <1>5, <1>6

\* Both orders together are what the page is promised.
LEMMA OrderMeans == ASSUME Typed, ListOrder, WireOrder PROVE LaterRowsShown
<1> SUFFICES ASSUME open, NEW f \in Feeds, list[f] # Null
             PROVE  Shows(Rows(f) \o Arriving(f), since[f], Between(f, since[f], said[f]))
  BY DEF LaterRowsShown, Between
<1> DEFINE A == Between(f, since[f], got[f])
           B == {x \in Between(f, got[f], said[f]) : x > since[f]}
<1>1. /\ Rows(f) \in Seq(Places) /\ Arriving(f) \in Seq(Places) /\ Places \in SUBSET Nat
      /\ since[f] \in Nat /\ got[f] \in Nat /\ said[f] \in Nat /\ got[f] <= said[f]
  BY RowTypes, PlaceNumbers
<1>2. Shows(Rows(f), since[f], A) /\ Shows(Arriving(f), since[f], B)
  BY ListsShows DEF ListOrder, WireOrder
<1>3. A \cup B = Between(f, since[f], said[f]) /\ \A x \in A, y \in B : x < y
  BY <1>1, Meet DEF Between
<1> HIDE DEF A, B
<1>4. Shows(Rows(f) \o Arriving(f), since[f], A \cup B)
  BY <1>1, <1>2, <1>3, ShowsConcat
<1>5. QED BY <1>3, <1>4

\* A message that comes splits what is on its way: its rows are the next ones of
\* its feed, up to the last, and the others go on from there.
LEMMA ReceiveSplits ==
    ASSUME Typed, WireOrder, Receive
    PROVE  \E f \in Feeds, r \in PushedRows, b \in Nat :
               /\ Head(wire).feed = f /\ Head(wire).rows = r /\ Last(r) = b
               /\ r \in Seq(Places) /\ got[f] < b /\ b <= said[f]
               /\ Lists(r, Between(f, got[f], b))
               /\ Lists(Arriving(f)', Between(f, b, said[f]))
               /\ \A g \in Feeds : g # f => Arriving(g)' = Arriving(g)
<1>1. /\ OnTheWay /\ wire # <<>> /\ open /\ wire' = Tail(wire) /\ wire \in Seq(Pushed)
  BY DEF Typed, Receive, OnTheWay
<1>2. PICK m \in Pushed : m = Head(wire)
  BY <1>1, NextMessage
<1>3. PICK f \in Feeds, r \in PushedRows, b \in 1..said[m.feed] :
          m.feed = f /\ m.rows = r /\ b = Last(r) /\ wire' \in Seq(Pushed)
  BY <1>1, <1>2, NextMessage
<1>4. \A g : Arriving(g)' = FlattenSeq(PartsOf(wire', g))
  BY DEF Arriving, PartsOf, Part
<1>5. \A g \in Feeds : Arriving(g) = Part(m, g) \o Arriving(g)'
  BY <1>1, <1>2, <1>4, PartsHead, ArrivingParts
<1>6. \A g \in Feeds : Arriving(g)' \in Seq(Places)
  <2>1. TAKE g \in Feeds
  <2>2. PartsOf(wire', g) \in Seq(Seq(Places))
    BY <1>3, PartsType DEF Table
  <2>3. QED BY <1>4, <2>2, FlatType
<1>7. r \in Seq(Places) /\ r # <<>> /\ b = r[Len(r)]
  BY <1>3 DEF PushedRows, Last
<1>8. \A g \in Feeds : g # f => Arriving(g)' = Arriving(g)
  <2>1. TAKE g \in Feeds
  <2>2. SUFFICES ASSUME g # f PROVE Arriving(g)' = Arriving(g)
    OBVIOUS
  <2>3. Part(m, g) = <<>>
    BY <1>3, <2>2 DEF Part
  <2> DEFINE a == Arriving(g)'
  <2>4. a \in Seq(Places) /\ Arriving(g) = <<>> \o a
    BY <1>5, <1>6, <2>3
  <2> HIDE DEF a
  <2>5. <<>> \o a = a
    BY <2>4
  <2>6. QED BY <2>4, <2>5 DEF a
<1>9. Part(m, f) = r
  BY <1>3 DEF Part
<1> DEFINE T == Between(f, got[f], said[f])
           a == Arriving(f)'
<1>10. Arriving(f) = r \o a /\ a \in Seq(Places)
  BY <1>5, <1>6, <1>9
<1>11. Lists(Arriving(f), T)
  BY <1>1 DEF WireOrder
<1>12. got[f] \in Nat /\ said[f] \in Nat /\ Places \in SUBSET Nat
  BY RowTypes, PlaceNumbers
<1> HIDE DEF T, a
<1>13. Lists(r, {x \in T : x <= b}) /\ Lists(a, {x \in T : x > b}) /\ b \in T
  BY <1>7, <1>10, <1>11, <1>12, ListsSplit
<1>14. b \in Nat /\ got[f] < b /\ b <= said[f]
  BY <1>3, <1>12, <1>13 DEF T, Between
<1>15. /\ {x \in T : x <= b} = Between(f, got[f], b)
       /\ {x \in T : x > b} = Between(f, b, said[f])
  BY <1>12, <1>14 DEF T, Between
<1>16. Lists(r, Between(f, got[f], b)) /\ Lists(a, Between(f, b, said[f]))
  BY <1>13, <1>15
<1>17. QED BY <1>2, <1>3, <1>7, <1>8, <1>14, <1>16 DEF a

\* Every step keeps the lists in order.
LEMMA ListOrderStep ==
    ASSUME Typed, ListOrder, WireOrder, [Next]_vars
    PROVE  ListOrder'
<1>1. Typed' /\ Positions /\ PageLists /\ Requests
  BY TypedStep DEF Typed
<1>2. \A f \in Feeds : /\ since[f] \in Nat /\ got[f] \in Nat /\ said[f] \in Nat
                       /\ got[f] <= said[f]
  BY RowTypes
<1>3. ASSUME UNCHANGED <<list, since, got>>,
             \A f \in Feeds : Between(f, since[f], got[f])' = Between(f, since[f], got[f])
      PROVE  ListOrder'
  BY <1>3 DEF ListOrder, Rows
<1>4. CASE UNCHANGED <<list, since, got, dropped>>
  BY <1>3, <1>4 DEF Between
<1>5. ASSUME NEW f \in Feeds, Drop(f) PROVE ListOrder'
  <2>1. PICK n \in Batches(f) \cap (1..stored[f]) :
            /\ dropped' = [dropped EXCEPT ![f] = @ \cup (said[f] + 1 .. n)]
            /\ UNCHANGED <<list, since, got>>
    BY <1>5 DEF Drop, history
  <2>2. n \in Nat /\ dropped \in [Feeds -> SUBSET Nat]
    BY <1>1, MessageRows DEF Positions
  <2>3. \A g \in Feeds : Between(g, since[g], got[g])' = Between(g, since[g], got[g])
    <3>1. TAKE g \in Feeds
    <3>2. \A x \in since[g] + 1 .. got[g] : x \notin said[g] + 1 .. n
      BY <1>2, <2>2
    <3>3. dropped'[g] = IF g = f THEN dropped[g] \cup (said[g] + 1 .. n) ELSE dropped[g]
      BY <2>1, <2>2
    <3>4. QED BY <2>1, <3>2, <3>3 DEF Between
  <2>4. QED BY <1>3, <2>1, <2>3
<1>6. ASSUME NEW c \in calls, Apply(c) PROVE ListOrder'
  <2> DEFINE f == c.feed
             n == c.rows
  <2>1. /\ f \in Feeds /\ n \in Places /\ n \in Nat
        /\ list' = [list EXCEPT ![f] = Answer(f, n)]
        /\ since' = [since EXCEPT ![f] = IF n > got[f] THEN n ELSE got[f]]
        /\ UNCHANGED <<got, dropped>>
    BY <1>1, <1>6, PlaceNumbers DEF Apply, Requests, Request, server
  <2> HIDE DEF f, n
  <2>2. SUFFICES ASSUME NEW g \in Feeds, list'[g] # Null
                 PROVE  Shows(Rows(g), since[g], Between(g, since[g], got[g]))'
    BY DEF ListOrder
  <2>3. CASE g = f
    <3>1. list'[f] = Answer(f, n) /\ since'[f] = IF n > got[f] THEN n ELSE got[f]
      BY <1>1, <2>1 DEF PageLists, Positions
    <3>2. since'[f] \in Nat /\ n <= since'[f] /\ got[f] <= since'[f]
      BY <1>2, <2>1, <3>1
    <3>3. Rows(f)' = Shown(f, Answer(f, n))
      BY <3>1 DEF Rows, Shown
    <3> DEFINE s == Rows(f)'
    <3>4. s \in Seq(Places) /\ \A i \in DOMAIN s : s[i] <= n
      BY <2>1, <2>2, <2>3, <3>1, <3>3, ShownAnswer
    <3> HIDE DEF s
    <3>5. \A i \in DOMAIN s : s[i] <= since'[f]
      <4>1. \A i \in DOMAIN s : s[i] \in Places
        BY <3>4
      <4>2. \A i \in DOMAIN s : s[i] \in Nat /\ s[i] <= n
        BY <3>4, <4>1, PlaceNumbers
      <4>3. QED BY <2>1, <3>2, <4>2
    <3>6. Shows(s, since'[f], {})
      BY <3>2, <3>4, <3>5, PlaceNumbers, ShowsNone
    <3>7. Between(f, since[f], got[f])' = {}
      BY <1>2, <2>1, <3>2 DEF Between
    <3>8. QED BY <2>3, <3>6, <3>7 DEF s
  <2>4. CASE g # f
    <3>1. list'[g] = list[g] /\ since'[g] = since[g] /\ got'[g] = got[g]
      BY <1>1, <2>1, <2>4 DEF PageLists, Positions
    <3>2. Rows(g)' = Rows(g) /\ Between(g, since[g], got[g])' = Between(g, since[g], got[g])
      BY <2>1, <3>1 DEF Rows, Between
    <3>3. QED BY <2>2, <3>1, <3>2 DEF ListOrder
  <2>5. QED BY <2>3, <2>4
<1>7. CASE Receive
  <2>1. PICK f \in Feeds, r \in PushedRows, b \in Nat :
            /\ Head(wire).feed = f /\ Head(wire).rows = r /\ Last(r) = b
            /\ r \in Seq(Places) /\ got[f] < b /\ b <= said[f]
            /\ Lists(r, Between(f, got[f], b))
    BY <1>7, ReceiveSplits
  <2>2. /\ list' = [list EXCEPT ![f] = Extended(f, r)] /\ got' = [got EXCEPT ![f] = b]
        /\ UNCHANGED <<since, dropped>>
    BY <1>7, <2>1 DEF Receive, server
  <2>3. SUFFICES ASSUME NEW g \in Feeds, list'[g] # Null
                 PROVE  Shows(Rows(g), since[g], Between(g, since[g], got[g]))'
    BY DEF ListOrder
  <2>4. CASE g = f
    <3>1. list'[f] = Extended(f, r) /\ got'[f] = b
      BY <1>1, <2>1, <2>2 DEF PageLists, Positions
    <3>2. list[f] # Null
      BY <2>3, <2>4, <3>1 DEF Extended
    <3>3. Rows(f)' = Rows(f) \o r
      <4>1. Rows(f)' = Shown(f, list'[f])
        BY DEF Rows, Shown
      <4>2. QED BY <2>1, <3>1, <3>2, <4>1, ShownExtended
    <3> DEFINE A == Between(f, since[f], got[f])
               B == {x \in Between(f, got[f], b) : x > since[f]}
    <3>4. Shows(Rows(f), since[f], A) /\ Shows(r, since[f], B)
      BY <2>1, <3>2, ListsShows DEF ListOrder
    <3>5. A \cup B = Between(f, since[f], b) /\ \A x \in A, y \in B : x < y
      <4>1. since[f] \in Nat /\ got[f] \in Nat /\ b \in Nat /\ got[f] <= b
        BY <1>2, <2>1
      <4>2. QED BY <4>1, Meet DEF Between
    <3>6. Rows(f) \in Seq(Places) /\ Places \in SUBSET Nat
      BY <2>1, <3>2, RowTypes, PlaceNumbers
    <3> HIDE DEF A, B
    <3>7. Shows(Rows(f) \o r, since[f], A \cup B)
      BY <2>1, <3>4, <3>5, <3>6, ShowsConcat
    <3>8. Between(f, since[f], got[f])' = Between(f, since[f], b)
      BY <2>2, <3>1 DEF Between
    <3>9. QED BY <2>2, <2>4, <3>3, <3>5, <3>7, <3>8
  <2>5. CASE g # f
    <3>1. list'[g] = list[g] /\ since'[g] = since[g] /\ got'[g] = got[g]
      BY <1>1, <2>2, <2>5 DEF PageLists, Positions
    <3>2. Rows(g)' = Rows(g) /\ Between(g, since[g], got[g])' = Between(g, since[g], got[g])
      BY <2>2, <3>1 DEF Rows, Between
    <3>3. QED BY <2>3, <3>1, <3>2 DEF ListOrder
  <2>6. QED BY <2>4, <2>5
<1>8. CASE Connect
  <2>1. /\ got' = said /\ UNCHANGED <<list, dropped>>
        /\ since' = [f \in Feeds |-> IF said[f] > since[f] THEN said[f] ELSE since[f]]
    BY <1>8 DEF Connect, server
  <2>2. SUFFICES ASSUME NEW f \in Feeds, list[f] # Null
                 PROVE  Shows(Rows(f), since[f], Between(f, since[f], got[f]))'
    BY <2>1 DEF ListOrder
  <2>3. since'[f] \in Nat /\ said[f] <= since'[f] /\ since[f] <= since'[f]
    BY <1>2, <2>1
  <2> DEFINE s == Rows(f)
  <2>4. s \in Seq(Places) /\ Shows(s, since[f], Between(f, since[f], got[f]))
    BY <2>2, RowTypes DEF ListOrder
  <2> HIDE DEF s
  <2>5. ASSUME NEW i \in DOMAIN s PROVE s[i] <= since'[f]
    <3>1. s[i] \in Nat
      <4>1. s[i] \in Places
        BY <2>4
      <4>2. QED BY <4>1, PlaceNumbers
    <3>2. CASE s[i] > since[f]
      <4>1. s[i] \in Between(f, since[f], got[f])
        BY <2>4, <3>2 DEF Shows
      <4>2. s[i] <= got[f]
        BY <1>2, <4>1 DEF Between
      <4>3. QED BY <1>2, <2>3, <3>1, <4>2
    <3>3. CASE ~(s[i] > since[f])
      BY <1>2, <2>3, <3>1, <3>3
    <3>4. QED BY <3>2, <3>3
  <2>6. Shows(s, since'[f], {})
    BY <2>3, <2>4, <2>5, PlaceNumbers, ShowsNone
  <2>7. Between(f, since[f], got[f])' = {}
    BY <1>2, <2>1, <2>3 DEF Between
  <2>8. Rows(f)' = s
    BY <2>1 DEF Rows, s
  <2>9. QED BY <2>6, <2>7, <2>8
<1>9. QED BY <1>4, <1>5, <1>6, <1>7, <1>8
       DEF Next, vars, server, history, Store, Push, ServerAnswers, FetchFails, SwitchTab, Close

\* Every step keeps what is on its way in order.
LEMMA WireOrderStep ==
    ASSUME Typed, WireOrder, [Next]_vars
    PROVE  WireOrder'
<1>1. Positions /\ OnTheWay
  BY DEF Typed
<1>2. \A f \in Feeds : /\ got[f] \in Nat /\ said[f] \in Nat /\ got[f] <= said[f]
                       /\ Arriving(f) \in Seq(Places)
  BY RowTypes
<1>3. CASE UNCHANGED <<said, dropped, got, network>>
  BY <1>3 DEF WireOrder, Arriving, Between, network
<1>4. ASSUME NEW f \in Feeds, Push(f), open PROVE WireOrder'
  <2>1. PICK n \in Batches(f) \cap (1..stored[f]) :
            /\ said' = [said EXCEPT ![f] = n] /\ wire' = Append(wire, Message(f, n))
            /\ UNCHANGED <<dropped, got>>
    BY <1>4 DEF Push, history
  <2>2. PICK m \in Pushed : m = Message(f, n) /\ m.feed = f
                            /\ Lists(m.rows, said[f] + 1 .. n) /\ said[f] < n /\ n \in Nat
    BY <1>1, MessageRows
  <2>3. m.rows \in Seq(Places)
    BY <2>2 DEF Pushed, PushedRows
  <2>4. \A g \in Feeds : Arriving(g)' = Arriving(g) \o Part(m, g)
    <3>1. \A g : Arriving(g)' = FlattenSeq(PartsOf(wire', g))
      BY DEF Arriving, PartsOf, Part
    <3>2. wire \in Seq(Pushed) /\ wire' = Append(wire, m)
      BY <1>1, <2>1, <2>2 DEF OnTheWay
    <3>3. QED BY <3>1, <3>2, PartsAppend, ArrivingParts
  <2>5. SUFFICES ASSUME NEW g \in Feeds
                 PROVE  Lists(Arriving(g), Between(g, got[g], said[g]))'
    BY DEF WireOrder
  <2>6. Lists(Arriving(g), Between(g, got[g], said[g]))
    BY <1>4 DEF WireOrder
  <2>7. CASE g = f
    <3> DEFINE A == Between(f, got[f], said[f])
               B == said[f] + 1 .. n
    <3>1. said'[f] = n
      BY <1>1, <2>1 DEF Positions
    <3>2. dropped[f] \subseteq 1..said[f]
      BY <1>1 DEF Positions
    <3>3. A \cup B = Between(f, got[f], said[f])' /\ \A x \in A, y \in B : x < y
      BY <1>2, <2>1, <2>2, <3>1, <3>2 DEF Between
    <3>4. Arriving(f)' = Arriving(f) \o m.rows
      BY <2>2, <2>4 DEF Part
    <3> HIDE DEF A, B
    <3>5. Lists(Arriving(f) \o m.rows, A \cup B)
      <4>1. Lists(Arriving(f), A) /\ Lists(m.rows, B)
        BY <2>2, <2>6, <2>7 DEF A, B
      <4>2. Arriving(f) \in Seq(Places) /\ Places \in SUBSET Nat
        BY <1>2, PlaceNumbers
      <4>3. QED BY <2>3, <3>3, <4>1, <4>2, ListsConcat
    <3>6. QED BY <2>7, <3>3, <3>4, <3>5
  <2>8. CASE g # f
    <3>1. said'[g] = said[g]
      BY <1>1, <2>1, <2>8 DEF Positions
    <3>2. Part(m, g) = <<>>
      BY <2>2, <2>8 DEF Part
    <3> DEFINE a == Arriving(g)
    <3>3. a \in Seq(Places)
      BY <1>2
    <3> HIDE DEF a
    <3>4. a \o <<>> = a
      BY <3>3
    <3>5. Arriving(g)' = Arriving(g)
      BY <2>4, <3>2, <3>4 DEF a
    <3>6. Between(g, got[g], said[g])' = Between(g, got[g], said[g])
      BY <2>1, <3>1 DEF Between
    <3>7. QED BY <2>6, <3>5, <3>6
  <2>9. QED BY <2>7, <2>8
<1>5. ASSUME NEW f \in Feeds, Drop(f) PROVE WireOrder'
  <2>1. PICK n \in Batches(f) \cap (1..stored[f]) :
            /\ said' = [said EXCEPT ![f] = n]
            /\ dropped' = [dropped EXCEPT ![f] = @ \cup (said[f] + 1 .. n)]
            /\ UNCHANGED <<open, wire, got>>
    BY <1>5 DEF Drop, network, history
  <2>2. n \in Nat /\ said[f] < n
    BY <1>1, MessageRows
  <2>3. ASSUME NEW g \in Feeds
        PROVE  Between(g, got[g], said[g])' = Between(g, got[g], said[g])
    <3>1. CASE g = f
      <4>1. said'[f] = n /\ dropped'[f] = dropped[f] \cup (said[f] + 1 .. n)
        BY <1>1, <2>1 DEF Positions
      <4>2. QED BY <1>2, <2>1, <2>2, <3>1, <4>1 DEF Between
    <3>2. CASE g # f
      <4>1. said'[g] = said[g] /\ dropped'[g] = dropped[g]
        BY <1>1, <2>1, <3>2 DEF Positions
      <4>2. QED BY <2>1, <4>1 DEF Between
    <3>3. QED BY <3>1, <3>2
  <2>4. \A g : Arriving(g)' = Arriving(g)
    BY <2>1 DEF Arriving
  <2>5. QED BY <2>1, <2>3, <2>4 DEF WireOrder
<1>6. CASE Receive
  <2>1. PICK f \in Feeds, r \in PushedRows, b \in Nat :
            /\ Head(wire).feed = f /\ Head(wire).rows = r /\ Last(r) = b
            /\ Lists(Arriving(f)', Between(f, b, said[f]))
            /\ \A g \in Feeds : g # f => Arriving(g)' = Arriving(g)
    BY <1>6, ReceiveSplits
  <2>2. got' = [got EXCEPT ![f] = b] /\ open /\ UNCHANGED <<said, dropped>>
    BY <1>6, <2>1 DEF Receive, server
  <2>3. SUFFICES ASSUME NEW g \in Feeds
                 PROVE  Lists(Arriving(g), Between(g, got[g], said[g]))'
    BY DEF WireOrder
  <2>4. CASE g = f
    <3>1. Between(f, got[f], said[f])' = Between(f, b, said[f])
      BY <1>1, <2>2 DEF Between, Positions
    <3>2. QED BY <2>1, <2>4, <3>1
  <2>5. CASE g # f
    <3>1. Between(g, got[g], said[g])' = Between(g, got[g], said[g])
      BY <1>1, <2>2, <2>5 DEF Between, Positions
    <3>2. QED BY <2>1, <2>2, <2>5, <3>1 DEF WireOrder
  <2>6. QED BY <2>4, <2>5
<1>7. CASE Connect
  <2>1. wire' = <<>> /\ got' = said /\ said' = said
    BY <1>1, <1>7 DEF Connect, server, OnTheWay
  <2>2. ASSUME NEW g \in Feeds PROVE Lists(Arriving(g), Between(g, got[g], said[g]))'
    <3>1. Arriving(g)' = <<>>
      BY <2>1, FlatEmpty DEF Arriving
    <3>2. Between(g, got[g], said[g])' = {}
      BY <1>2, <2>1 DEF Between
    <3>3. Lists(<<>>, {})
      BY EmptyQueue DEF Lists
    <3>4. QED BY <3>1, <3>2, <3>3
  <2>3. QED BY <2>2 DEF WireOrder
<1>8. CASE ~open'
  BY <1>8 DEF WireOrder
<1>9. ASSUME NEW f \in Feeds, Push(f), ~open PROVE ~open'
  BY <1>9 DEF Push
<1>10. CASE Close
  BY <1>8, <1>10 DEF Close
<1>11. QED BY <1>3, <1>4, <1>5, <1>6, <1>7, <1>8, <1>9, <1>10
        DEF Next, vars, server, network, history, Store, ServerAnswers, Apply, FetchFails, SwitchTab

\* After the list was fetched and the connection opened, every row that is
\* broadcast is in the list once and in order, or on its way, in every run.
THEOREM LaterRowsShownCorrect == Spec => []LaterRowsShown
<1> DEFINE IInv == Typed /\ ListOrder /\ WireOrder
<1>1. Init => IInv
  <2> SUFFICES ASSUME Init PROVE ListOrder /\ WireOrder
    BY TypedInit
  <2>1. \A f \in Feeds : list[f] = <<>> /\ since[f] = said[f] /\ got[f] = said[f] /\ said[f] \in Nat
    BY TypedInit, RowTypes DEF Init
  <2>2. ASSUME NEW f \in Feeds PROVE Shows(Rows(f), since[f], Between(f, since[f], got[f]))
    <3>1. Reverse(<<>>) = <<>>
      BY DEF Reverse
    <3>2. Rows(f) = <<>>
      BY <2>1, <3>1, FlatEmpty DEF Rows
    <3>3. Between(f, since[f], got[f]) = {}
      BY <2>1 DEF Between
    <3>4. Shows(<<>>, since[f], {})
      BY DEF Shows
    <3>5. QED BY <3>2, <3>3, <3>4
  <2>3. ListOrder
    BY <2>2 DEF ListOrder
  <2>4. WireOrder
    BY DEF Init, WireOrder
  <2>5. QED BY <2>3, <2>4
<1>2. IInv /\ [Next]_vars => IInv'
  BY TypedStep, ListOrderStep, WireOrderStep
<1>3. IInv => LaterRowsShown
  BY OrderMeans
<1> HIDE DEF IInv
<1>4. QED BY <1>1, <1>2, <1>3, PTL DEF Spec
=============================================================================
