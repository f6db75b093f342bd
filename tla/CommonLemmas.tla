----------------------------- MODULE CommonLemmas ----------------------------
(***************************************************************************)
(* Facts that several proof modules need: what Append and Tail do to the   *)
(* elements of a queue, induction over numbers, sequences and finite sets, *)
(* and what SumFunctionOnSet of the community modules adds up.             *)
(*                                                                         *)
(* The induction is over a set instead of a predicate: a theorem with an   *)
(* operator for its parameter is beyond the provers, one with a set is     *)
(* not.  It rests on the least element of a set of numbers (WFMin).        *)
(***************************************************************************)
EXTENDS Integers, Sequences, Functions, FiniteSetTheorems, SequenceTheorems, TLAPS

(***************************************************************************)
(* Queues                                                                  *)
(***************************************************************************)

\* The empty queue holds nothing, and nothing twice.
LEMMA EmptyQueue == Range(<<>>) = {} /\ IsInjective(<<>>)
BY DEF Range, IsInjective

\* The elements of a sequence over S are in S.
LEMMA RangeInSet == ASSUME NEW S, NEW s \in Seq(S) PROVE Range(s) \subseteq S
BY DEF Range

\* Append adds its element to the range, and keeps a queue free of duplicates
\* when the element is new.
LEMMA RangeAppend ==
    ASSUME NEW S, NEW s \in Seq(S), NEW e \in S
    PROVE  /\ Append(s, e) \in Seq(S)
           /\ Range(Append(s, e)) = Range(s) \cup {e}
           /\ IsInjective(s) /\ e \notin Range(s) => IsInjective(Append(s, e))
<1> DEFINE t == Append(s, e)
<1>1. t \in Seq(S) /\ Len(t) = Len(s) + 1 /\ t[Len(t)] = e
      /\ \A i \in 1..Len(s) : t[i] = s[i]
  OBVIOUS
<1>2. DOMAIN t = 1..(Len(s) + 1) /\ DOMAIN s = 1..Len(s) /\ Len(s) \in Nat
  BY <1>1
<1> HIDE DEF t
<1>3. Range(t) \subseteq Range(s) \cup {e}
  BY <1>1, <1>2 DEF Range
<1>4. Range(s) \cup {e} \subseteq Range(t)
  <2>1. \A i \in DOMAIN s : i \in DOMAIN t /\ t[i] = s[i]
    BY <1>1, <1>2
  <2>2. Len(t) \in DOMAIN t
    BY <1>1, <1>2
  <2>3. QED BY <1>1, <2>1, <2>2 DEF Range
<1>5. ASSUME IsInjective(s), e \notin Range(s) PROVE IsInjective(t)
  <2>1. \A i \in DOMAIN s : s[i] # e
    BY <1>5 DEF Range
  <2>2. QED BY <1>1, <1>2, <1>5, <2>1 DEF IsInjective
<1>6. QED BY <1>1, <1>3, <1>4, <1>5 DEF t

\* Taking the head of a queue without duplicates removes exactly that element.
LEMMA RangeTail ==
    ASSUME NEW S, NEW s \in Seq(S), s # <<>>
    PROVE  /\ Head(s) \in Range(s) /\ Head(s) \in S
           /\ Tail(s) \in Seq(S)
           /\ Range(s) = Range(Tail(s)) \cup {Head(s)}
           /\ IsInjective(s) => IsInjective(Tail(s)) /\ Head(s) \notin Range(Tail(s))
<1> DEFINE t == Tail(s)
<1>1. /\ Len(s) \in Nat \ {0} /\ DOMAIN s = 1..Len(s)
      /\ t \in Seq(S) /\ DOMAIN t = 1..(Len(s) - 1)
      /\ Head(s) = s[1] /\ \A i \in DOMAIN t : t[i] = s[i + 1]
  OBVIOUS
<1> HIDE DEF t
<1>2. Head(s) \in Range(s) /\ Head(s) \in S
  BY <1>1 DEF Range
<1>3. Range(t) \cup {Head(s)} \subseteq Range(s)
  BY <1>1, <1>2 DEF Range
<1>4. Range(s) \subseteq Range(t) \cup {Head(s)}
  <2>1. SUFFICES ASSUME NEW i \in DOMAIN s, i # 1 PROVE s[i] \in Range(t)
    BY <1>1 DEF Range
  <2>2. i \in 1..Len(s) /\ i # 1
    BY <1>1, <2>1
  <2>3. i - 1 \in 1..(Len(s) - 1) /\ (i - 1) + 1 = i
    BY <1>1, <2>2
  <2>4. i - 1 \in DOMAIN t /\ t[i - 1] = s[i]
    BY <1>1, <2>3
  <2>5. QED BY <2>4 DEF Range
<1>5. ASSUME IsInjective(s) PROVE IsInjective(t) /\ Head(s) \notin Range(t)
  <2>1. \A i \in DOMAIN t : i + 1 \in DOMAIN s /\ i + 1 # 1
    BY <1>1
  <2>2. IsInjective(t)
    BY <1>1, <1>5, <2>1 DEF IsInjective
  <2>3. ASSUME NEW i \in DOMAIN t, t[i] = s[1] PROVE FALSE
    BY <1>1, <1>5, <2>1, <2>3 DEF IsInjective
  <2>4. QED BY <1>1, <2>2, <2>3 DEF Range
<1>6. QED BY <1>1, <1>2, <1>3, <1>4, <1>5 DEF t

(***************************************************************************)
(* Induction                                                               *)
(***************************************************************************)

\* A set of numbers that is not empty has a least element.
LEMMA LeastNumber ==
    ASSUME NEW T \in SUBSET Nat, T # {}
    PROVE  \E m \in T : \A k \in T : m <= k
<1>1. IsWellFoundedOn(OpToRel(<, Nat), Nat)
  BY NatLessThanWellFounded
<1>2. PICK m \in T : \A k \in T : ~ (<<k, m>> \in OpToRel(<, Nat))
  BY <1>1, WFMin
<1>3. \A k \in T : ~ (k < m)
  BY <1>2 DEF OpToRel
<1>4. QED BY <1>3

\* A set of numbers with 0 and the successor of each of its elements has all.
LEMMA NumberInduction ==
    ASSUME NEW P \in SUBSET Nat, 0 \in P, \A n \in P : n + 1 \in P
    PROVE  P = Nat
<1>1. SUFFICES ASSUME Nat \ P # {} PROVE FALSE
  OBVIOUS
<1>2. PICK m \in Nat \ P : \A k \in Nat \ P : m <= k
  BY <1>1, LeastNumber
<1>3. m # 0 /\ m - 1 \in Nat
  BY <1>2
<1>4. m - 1 \in P
  BY <1>2, <1>3
<1>5. QED BY <1>2, <1>3, <1>4

\* A set of sequences with the empty one that is closed under Append has all.
LEMMA SequenceInduction ==
    ASSUME NEW S, NEW P \in SUBSET Seq(S), <<>> \in P,
           \A q \in P, e \in S : Append(q, e) \in P
    PROVE  P = Seq(S)
<1> DEFINE N == {n \in Nat : \A q \in Seq(S) : Len(q) = n => q \in P}
<1>1. 0 \in N
  OBVIOUS
<1>2. ASSUME NEW n \in N PROVE n + 1 \in N
  <2>1. SUFFICES ASSUME NEW q \in Seq(S), Len(q) = n + 1 PROVE q \in P
    OBVIOUS
  <2>2. q # <<>>
    BY <2>1
  <2>3. PICK r \in Seq(S), e \in S : q = Append(r, e)
    BY <2>2, SequenceEmptyOrAppend
  <2>4. Len(r) = n
    BY <2>1, <2>3
  <2>5. QED BY <2>3, <2>4
<1> HIDE DEF N
<1>3. N = Nat
  BY <1>1, <1>2, NumberInduction DEF N
<1>4. \A q \in Seq(S) : Len(q) \in Nat
  OBVIOUS
<1>5. QED BY <1>3, <1>4 DEF N

\* A set of subsets of a finite set has all of them when it has each one that it
\* has without any of its elements.
LEMMA SubsetInduction ==
    ASSUME NEW S, IsFiniteSet(S), NEW P,
           \A s \in SUBSET S : (\A x \in s : s \ {x} \in P) => s \in P
    PROVE  SUBSET S \subseteq P
<1> DEFINE N == {n \in Nat : \A s \in SUBSET S : Cardinality(s) = n => s \in P}
<1>1. \A s \in SUBSET S : IsFiniteSet(s) /\ Cardinality(s) \in Nat
  BY FS_Subset, FS_CardinalityType
<1>2. 0 \in N
  BY <1>1, FS_EmptySet
<1>3. ASSUME NEW n \in N PROVE n + 1 \in N
  <2>1. SUFFICES ASSUME NEW s \in SUBSET S, Cardinality(s) = n + 1 PROVE s \in P
    OBVIOUS
  <2>2. IsFiniteSet(s) /\ n \in Nat
    BY <1>1
  <2>3. ASSUME NEW x \in s PROVE s \ {x} \in P
    <3>1. Cardinality(s \ {x}) = Cardinality(s) - 1
      BY <2>2, FS_RemoveElement
    <3>2. Cardinality(s \ {x}) = n /\ s \ {x} \in SUBSET S
      BY <2>1, <2>2, <3>1
    <3>3. QED BY <3>2
  <2>4. QED BY <2>3
<1> HIDE DEF N
<1>4. N = Nat
  BY <1>2, <1>3, NumberInduction DEF N
<1>5. QED BY <1>1, <1>4 DEF N

(***************************************************************************)
(* Sums                                                                    *)
(***************************************************************************)

\* The recursion behind SumFunctionOnSet: the sum over a set is that of some
\* element and of the others.
SomeOf(s)        == CHOOSE x \in s : TRUE
SumStep(w, g, s) == IF s = {} THEN 0 ELSE w[SomeOf(s)] + g[s \ {SomeOf(s)}]
IsSums(w, S, g)  == g = [s \in SUBSET S |-> SumStep(w, g, s)]

\* The values on S are integers, and any element may be the one.
IntegersOn(w, S)  == \A x \in S : w[x] \in Int
AnyFirst(w, S, g) == \A s \in SUBSET S :
                        g[s] \in Int /\ \A y \in s : g[s] = w[y] + g[s \ {y}]

\* SumFunctionOnSet takes its value from a function with the recursion.
LEMMA SumChoice ==
    ASSUME NEW w, NEW S
    PROVE  SumFunctionOnSet(w, S) = (CHOOSE g : IsSums(w, S, g))[S]
BY DEF SumFunctionOnSet, FoldFunctionOnSet, MapThenFoldSet, IsSums, SumStep, SomeOf

\* There is such a function: one for the sets of up to n elements gives one for
\* those of n + 1.
LEMMA SumsExist ==
    ASSUME NEW w, NEW S, IsFiniteSet(S)
    PROVE  \E g : IsSums(w, S, g)
<1> DEFINE UpTo(n) == {s \in SUBSET S : Cardinality(s) <= n}
           N == {n \in Nat : \E g : g = [s \in UpTo(n) |-> SumStep(w, g, s)]}
<1>1. \A s \in SUBSET S : /\ IsFiniteSet(s) /\ Cardinality(s) \in Nat
                          /\ Cardinality(s) <= Cardinality(S)
  BY FS_Subset, FS_CardinalityType
<1>2. \A n \in Nat : \A s \in UpTo(n + 1) : s # {} => s \ {SomeOf(s)} \in UpTo(n)
  <2> SUFFICES ASSUME NEW n \in Nat, NEW s \in UpTo(n + 1), s # {}
               PROVE  s \ {SomeOf(s)} \in UpTo(n)
    OBVIOUS
  <2>1. SomeOf(s) \in s
    BY DEF SomeOf
  <2>2. Cardinality(s \ {SomeOf(s)}) = Cardinality(s) - 1
    BY <1>1, <2>1, FS_RemoveElement
  <2>3. QED BY <1>1, <2>2
<1>3. 0 \in N
  <2>1. \A s \in UpTo(0) : s = {}
    BY <1>1, FS_EmptySet
  <2> DEFINE g == [s \in UpTo(0) |-> 0]
  <2> HIDE DEF UpTo
  <2>2. \A s \in UpTo(0) : SumStep(w, g, s) = 0
    BY <2>1 DEF SumStep
  <2>3. g = [s \in UpTo(0) |-> SumStep(w, g, s)]
    BY <2>2
  <2>4. QED BY <2>3
<1>4. ASSUME NEW n \in N PROVE n + 1 \in N
  <2>1. PICK g : g = [s \in UpTo(n) |-> SumStep(w, g, s)]
    OBVIOUS
  <2> DEFINE h == [s \in UpTo(n + 1) |-> SumStep(w, g, s)]
  <2>2. UpTo(n) \subseteq UpTo(n + 1)
    BY <1>1
  <2>3. \A s \in UpTo(n) : h[s] = g[s]
    BY <2>1, <2>2
  <2> HIDE DEF UpTo
  <2>4. \A s \in UpTo(n + 1) : SumStep(w, g, s) = SumStep(w, h, s)
    BY <1>2, <2>3 DEF SumStep
  <2>5. h = [s \in UpTo(n + 1) |-> SumStep(w, h, s)]
    BY <2>4
  <2> HIDE DEF h
  <2>6. n + 1 \in Nat /\ \E f : f = [s \in UpTo(n + 1) |-> SumStep(w, f, s)]
    BY <2>5
  <2>7. QED BY <2>6
<1>5. UpTo(Cardinality(S)) = SUBSET S /\ Cardinality(S) \in Nat
  BY <1>1
<1> HIDE DEF UpTo, N
<1>6. N = Nat
  BY <1>3, <1>4, NumberInduction DEF N
<1>7. QED BY <1>5, <1>6 DEF N, IsSums

\* Of the elements of a set each may be the one that comes first.
LEMMA SumsAny ==
    ASSUME NEW w, NEW S, IsFiniteSet(S), IntegersOn(w, S), NEW g, IsSums(w, S, g)
    PROVE  AnyFirst(w, S, g)
<1> USE DEF IntegersOn
<1> DEFINE I == {s \in SUBSET S : g[s] \in Int}
           P == {s \in SUBSET S : \A y \in s : g[s] = w[y] + g[s \ {y}]}
<1>1. \A s \in SUBSET S : g[s] = SumStep(w, g, s)
  BY DEF IsSums
<1>2. SUBSET S \subseteq I
  <2>1. ASSUME NEW s \in SUBSET S, \A x \in s : s \ {x} \in I PROVE s \in I
    <3>1. CASE s = {}
      BY <1>1, <3>1 DEF SumStep
    <3>2. CASE s # {}
      <4> DEFINE p == SomeOf(s)
      <4>1. p \in s
        BY <3>2 DEF SomeOf
      <4>2. g[s] = w[p] + g[s \ {p}]
        BY <1>1, <3>2 DEF SumStep
      <4> HIDE DEF p
      <4>3. w[p] \in Int /\ g[s \ {p}] \in Int
        BY <2>1, <4>1
      <4>4. QED BY <4>2, <4>3
    <3>3. QED BY <3>1, <3>2
  <2> HIDE DEF I
  <2>2. QED BY <2>1, SubsetInduction
<1>3. \A s \in SUBSET S : g[s] \in Int
  BY <1>2
<1> HIDE DEF I
<1>4. ASSUME NEW s \in SUBSET S, \A x \in s : s \ {x} \in P PROVE s \in P
  <2>1. CASE s = {}
    BY <1>1, <2>1 DEF SumStep
  <2>2. CASE s # {}
    <3> DEFINE p == SomeOf(s)
    <3>1. p \in s
      BY <2>2 DEF SomeOf
    <3>2. g[s] = w[p] + g[s \ {p}]
      BY <1>1, <2>2 DEF SumStep
    <3> HIDE DEF p
    <3>3. ASSUME NEW y \in s, y # p PROVE g[s] = w[y] + g[s \ {y}]
      <4>1. (s \ {p}) \ {y} = (s \ {y}) \ {p} /\ y \in s \ {p} /\ p \in s \ {y}
        BY <3>1, <3>3
      <4>2. g[s \ {p}] = w[y] + g[(s \ {p}) \ {y}]
        BY <1>4, <3>1, <4>1
      <4>3. g[s \ {y}] = w[p] + g[(s \ {p}) \ {y}]
        BY <1>4, <4>1
      <4>4. w[y] \in Int /\ w[p] \in Int /\ g[(s \ {p}) \ {y}] \in Int
        BY <1>3, <3>1
      <4>5. QED BY <3>2, <4>2, <4>3, <4>4
    <3>4. QED BY <3>2, <3>3
  <2>3. QED BY <2>1, <2>2
<1> HIDE DEF P
<1>5. SUBSET S \subseteq P
  BY <1>4, SubsetInduction
<1>6. QED BY <1>3, <1>5 DEF P, AnyFirst

\* The recursion has one solution, and it looks at the elements of the set only.
LEMMA SumsUnique ==
    ASSUME NEW w, NEW v, NEW S, IsFiniteSet(S), NEW T \in SUBSET S,
           \A x \in T : v[x] = w[x],
           NEW g, IsSums(w, S, g), NEW h, IsSums(v, T, h)
    PROVE  \A s \in SUBSET T : h[s] = g[s]
<1> DEFINE P == {s \in SUBSET T : h[s] = g[s]}
<1>1. \A s \in SUBSET T : g[s] = SumStep(w, g, s) /\ h[s] = SumStep(v, h, s)
  BY DEF IsSums
<1>2. ASSUME NEW s \in SUBSET T, \A x \in s : s \ {x} \in P PROVE s \in P
  <2>1. CASE s = {}
    BY <1>1, <2>1 DEF SumStep
  <2>2. CASE s # {}
    <3>1. SomeOf(s) \in s
      BY <2>2 DEF SomeOf
    <3>2. h[s \ {SomeOf(s)}] = g[s \ {SomeOf(s)}] /\ v[SomeOf(s)] = w[SomeOf(s)]
      BY <1>2, <3>1
    <3>3. QED BY <1>1, <2>2, <3>2 DEF SumStep
  <2>3. QED BY <2>1, <2>2
<1>3. IsFiniteSet(T)
  BY FS_Subset
<1> HIDE DEF P
<1>4. SUBSET T \subseteq P
  BY <1>2, <1>3, SubsetInduction
<1>5. QED BY <1>4 DEF P

\* So that the sums over the subsets of a set come from one function.
LEMMA SumValue ==
    ASSUME NEW w, NEW v, NEW S, IsFiniteSet(S), NEW T \in SUBSET S,
           \A x \in T : v[x] = w[x],
           NEW g, IsSums(w, S, g)
    PROVE  SumFunctionOnSet(v, T) = g[T]
<1> DEFINE h == CHOOSE f : IsSums(v, T, f)
<1>1. IsFiniteSet(T)
  BY FS_Subset
<1>2. IsSums(v, T, h)
  BY <1>1, SumsExist
<1>3. SumFunctionOnSet(v, T) = h[T]
  BY SumChoice
<1> HIDE DEF h
<1>4. h[T] = g[T]
  BY <1>2, SumsUnique
<1>5. QED BY <1>3, <1>4

\* The sum over no elements is 0.
LEMMA SumEmpty == ASSUME NEW w PROVE SumFunctionOnSet(w, {}) = 0
<1>1. IsFiniteSet({})
  BY FS_EmptySet
<1>2. PICK g : IsSums(w, {}, g)
  BY <1>1, SumsExist
<1>3. SumFunctionOnSet(w, {}) = g[{}]
  <2>1. {} \in SUBSET {} /\ \A x \in {} : w[x] = w[x]
    OBVIOUS
  <2>2. QED BY <1>1, <1>2, <2>1, SumValue
<1>4. g[{}] = 0
  BY <1>2 DEF IsSums, SumStep
<1>5. QED BY <1>3, <1>4

\* A sum of integers is an integer.
LEMMA SumType ==
    ASSUME NEW w, NEW S, IsFiniteSet(S), IntegersOn(w, S)
    PROVE  SumFunctionOnSet(w, S) \in Int
<1>1. PICK g : IsSums(w, S, g)
  BY SumsExist
<1>2. \A T \in SUBSET S : SumFunctionOnSet(w, T) = g[T]
  BY <1>1, SumValue
<1>3. AnyFirst(w, S, g)
  BY <1>1, SumsAny
<1>4. QED BY <1>2, <1>3 DEF AnyFirst

\* A sum is one of its elements and the sum of the others.
LEMMA SumRemove ==
    ASSUME NEW w, NEW S, IsFiniteSet(S), IntegersOn(w, S), NEW y \in S
    PROVE  SumFunctionOnSet(w, S) = w[y] + SumFunctionOnSet(w, S \ {y})
<1>1. PICK g : IsSums(w, S, g)
  BY SumsExist
<1>2. S \in SUBSET S /\ S \ {y} \in SUBSET S
  OBVIOUS
<1>3. SumFunctionOnSet(w, S) = g[S] /\ SumFunctionOnSet(w, S \ {y}) = g[S \ {y}]
  BY <1>1, <1>2, SumValue
<1>4. AnyFirst(w, S, g)
  BY <1>1, SumsAny
<1>5. QED BY <1>2, <1>3, <1>4 DEF AnyFirst

\* A sum of numbers that are not negative is not.
LEMMA SumNatural ==
    ASSUME NEW w, NEW S, IsFiniteSet(S), \A x \in S : w[x] \in Nat
    PROVE  SumFunctionOnSet(w, S) \in Nat
<1> DEFINE P == {s \in SUBSET S : SumFunctionOnSet(w, s) \in Nat}
<1>1. ASSUME NEW s \in SUBSET S, \A x \in s : s \ {x} \in P PROVE s \in P
  <2>1. CASE s = {}
    BY <2>1, SumEmpty
  <2>2. CASE s # {}
    <3>1. PICK y : y \in s
      BY <2>2
    <3>2. IsFiniteSet(s) /\ IntegersOn(w, s)
      BY FS_Subset DEF IntegersOn
    <3>3. SumFunctionOnSet(w, s) = w[y] + SumFunctionOnSet(w, s \ {y})
      BY <3>1, <3>2, SumRemove
    <3>4. w[y] \in Nat /\ SumFunctionOnSet(w, s \ {y}) \in Nat
      BY <1>1, <3>1
    <3>5. QED BY <3>3, <3>4
  <2>3. QED BY <2>1, <2>2
<1> HIDE DEF P
<1>2. SUBSET S \subseteq P
  BY <1>1, SubsetInduction
<1>3. QED BY <1>2 DEF P

\* Equal values have equal sums.
LEMMA SumEqual ==
    ASSUME NEW w, NEW v, NEW S, IsFiniteSet(S), \A x \in S : v[x] = w[x]
    PROVE  SumFunctionOnSet(v, S) = SumFunctionOnSet(w, S)
<1>1. PICK g : IsSums(w, S, g)
  BY SumsExist
<1>2. S \in SUBSET S
  OBVIOUS
<1>3. QED BY <1>1, <1>2, SumValue

\* A common factor is one of the sum.
LEMMA SumScaled ==
    ASSUME NEW w, NEW v, NEW S, IsFiniteSet(S), NEW c \in Int,
           IntegersOn(w, S), \A x \in S : v[x] = c * w[x]
    PROVE  SumFunctionOnSet(v, S) = c * SumFunctionOnSet(w, S)
<1> DEFINE P == {s \in SUBSET S : SumFunctionOnSet(v, s) = c * SumFunctionOnSet(w, s)}
<1>1. ASSUME NEW s \in SUBSET S, \A x \in s : s \ {x} \in P PROVE s \in P
  <2>1. CASE s = {}
    BY <2>1, SumEmpty
  <2>2. CASE s # {}
    <3>1. PICK y : y \in s
      BY <2>2
    <3> DEFINE a == SumFunctionOnSet(w, s \ {y})
    <3>2. /\ IsFiniteSet(s) /\ IsFiniteSet(s \ {y})
          /\ IntegersOn(w, s) /\ IntegersOn(w, s \ {y}) /\ IntegersOn(v, s)
      BY FS_Subset DEF IntegersOn
    <3>3. a \in Int /\ SumFunctionOnSet(w, s) = w[y] + a
      BY <3>1, <3>2, SumRemove, SumType
    <3>4. SumFunctionOnSet(v, s) = v[y] + SumFunctionOnSet(v, s \ {y})
      BY <3>1, <3>2, SumRemove
    <3>5. SumFunctionOnSet(v, s \ {y}) = c * a
      BY <1>1, <3>1
    <3> HIDE DEF a
    <3>6. v[y] = c * w[y] /\ w[y] \in Int
      BY <3>1 DEF IntegersOn
    <3>7. c * w[y] + c * a = c * (w[y] + a)
      BY <3>3, <3>6
    <3>8. QED BY <3>3, <3>4, <3>5, <3>6, <3>7
  <2>3. QED BY <2>1, <2>2
<1> HIDE DEF P
<1>2. SUBSET S \subseteq P
  BY <1>1, SubsetInduction
<1>3. QED BY <1>2 DEF P

\* The sum over what an injective function makes of a set is one over the set.
LEMMA SumImage ==
    ASSUME NEW w, NEW v, NEW h, NEW S, IsFiniteSet(S),
           IntegersOn(v, S), \A x \in S : w[h[x]] = v[x],
           \A x, y \in S : h[x] = h[y] => x = y
    PROVE  SumFunctionOnSet(w, {h[x] : x \in S}) = SumFunctionOnSet(v, S)
<1> DEFINE Image(s) == {h[x] : x \in s}
           P == {s \in SUBSET S : IsFiniteSet(Image(s))
                                  /\ SumFunctionOnSet(w, Image(s)) = SumFunctionOnSet(v, s)}
<1>1. ASSUME NEW s \in SUBSET S, \A x \in s : s \ {x} \in P PROVE s \in P
  <2>1. CASE s = {}
    <3>1. Image(s) = {}
      BY <2>1
    <3>2. QED BY <2>1, <3>1, SumEmpty, FS_EmptySet
  <2>2. CASE s # {}
    <3>1. PICK y : y \in s
      BY <2>2
    <3>2. IsFiniteSet(s) /\ IntegersOn(v, s)
      BY FS_Subset DEF IntegersOn
    <3>3. Image(s) \ {h[y]} = Image(s \ {y}) /\ h[y] \in Image(s)
      BY <3>1
    <3>4. Image(s) = Image(s \ {y}) \cup {h[y]}
      BY <3>1
    <3>5. IsFiniteSet(Image(s \ {y})) /\
          SumFunctionOnSet(w, Image(s \ {y})) = SumFunctionOnSet(v, s \ {y})
      BY <1>1, <3>1
    <3>6. IntegersOn(w, Image(s))
      BY DEF IntegersOn
    <3> DEFINE t == Image(s \ {y})
    <3>7. IsFiniteSet(t \cup {h[y]})
      BY <3>5, FS_AddElement
    <3> HIDE DEF Image, t
    <3>8. IsFiniteSet(Image(s))
      BY <3>4, <3>7 DEF t
    <3>9. SumFunctionOnSet(w, Image(s)) = w[h[y]] + SumFunctionOnSet(w, Image(s) \ {h[y]})
      BY <3>3, <3>6, <3>8, SumRemove
    <3>10. SumFunctionOnSet(v, s) = v[y] + SumFunctionOnSet(v, s \ {y})
      BY <3>1, <3>2, SumRemove
    <3>11. QED BY <3>1, <3>3, <3>5, <3>8, <3>9, <3>10
  <2>3. QED BY <2>1, <2>2
<1> HIDE DEF P
<1>2. SUBSET S \subseteq P
  BY <1>1, SubsetInduction
<1>3. QED BY <1>2 DEF P
=============================================================================
