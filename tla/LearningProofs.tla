---------------------------- MODULE LearningProofs -----------------------------
(*****************************************************************************)
(* Proofs about the parts a quiz passes through.  The cache: an invalidation *)
(* that was reported done holds.  The phone: no entry of the upload queue    *)
(* claims more than the server has, whatever interleaves and whatever a kill *)
(* of the application loses.  Attempts: one result is told, a published quiz *)
(* stays as it was checked, the dashboard is fresh.  Practice: one active    *)
(* goal, sound sets, and a submission counts once, for any number of         *)
(* devices, goals, questions and days.  Generation: what is saved can be     *)
(* played, calls and the limiter are bounded.  Each part has an inductive    *)
(* invariant; LearningSpec lets one part move at a time, so the five hold    *)
(* together.                                                                 *)
(*****************************************************************************)
EXTENDS MCLearning, FiniteSetTheorems, SequenceTheorems, WellFoundedInduction, TLAPS

(* ------------------------------- sequences -------------------------------- *)

\* The elements of a sequence.
Elements(s) == {s[k] : k \in DOMAIN s}
\* A sequence, of whatever it has.
IsSeq(s) == s \in Seq(Elements(s))

\* A function from 1..n is a sequence.
LEMMA SeqFrom ==
    ASSUME NEW n \in Nat, NEW S, NEW s \in [1..n -> S]
    PROVE  IsSeq(s) /\ Len(s) = n /\ DOMAIN s = 1..n
<1>1. s \in Seq(S) /\ Len(s) = n /\ DOMAIN s = 1..n
  OBVIOUS
<1>2. s \in [1..n -> Elements(s)]
  BY <1>1 DEF Elements
<1>3. s \in Seq(Elements(s))
  BY <1>2
<1> QED BY <1>1, <1>3 DEF IsSeq

\* A sequence is a function from 1 to its length.
LEMMA SeqIs ==
    ASSUME NEW s, IsSeq(s)
    PROVE  Len(s) \in Nat /\ DOMAIN s = 1 .. Len(s) /\ s = [i \in 1 .. Len(s) |-> s[i]]
<1> DEFINE S == Elements(s)
<1>1. s \in Seq(S)
  BY DEF IsSeq
<1> HIDE DEF S
<1> QED BY <1>1

\* Replacing an element keeps a sequence and its length.
LEMMA SeqEx ==
    ASSUME NEW s, IsSeq(s), NEW i \in DOMAIN s, NEW e
    PROVE  /\ IsSeq([s EXCEPT ![i] = e]) /\ Len([s EXCEPT ![i] = e]) = Len(s)
           /\ DOMAIN [s EXCEPT ![i] = e] = DOMAIN s
<1> DEFINE t == [s EXCEPT ![i] = e]
<1>1. Len(s) \in Nat /\ DOMAIN s = 1 .. Len(s)
  BY SeqIs
<1>2. t \in [1 .. Len(s) -> Elements(s) \cup {e}]
  BY <1>1 DEF Elements
<1> HIDE DEF t
<1>3. IsSeq(t) /\ Len(t) = Len(s) /\ DOMAIN t = 1 .. Len(s)
  BY <1>1, <1>2, SeqFrom
<1> QED BY <1>1, <1>3 DEF t

\* Appending makes a sequence longer by one element and keeps the others.
LEMMA SeqApp ==
    ASSUME NEW s, IsSeq(s), NEW e
    PROVE  /\ IsSeq(Append(s, e)) /\ Len(Append(s, e)) = Len(s) + 1
           /\ DOMAIN Append(s, e) = 1 .. Len(s) + 1
           /\ \A i \in 1 .. Len(s) : Append(s, e)[i] = s[i]
           /\ Append(s, e)[Len(s) + 1] = e
<1> DEFINE S == Elements(s) \cup {e}
           t == Append(s, e)
<1>1. s \in Seq(S) /\ e \in S
  BY DEF IsSeq
<1>2. /\ t \in Seq(S) /\ Len(t) = Len(s) + 1 /\ DOMAIN t = 1 .. Len(s) + 1
      /\ \A i \in 1 .. Len(s) : t[i] = s[i]
      /\ t[Len(s) + 1] = e
  <2> HIDE DEF S
  <2> QED BY <1>1
<1>3. Len(s) + 1 \in Nat
  BY <1>1, SeqIs
<1> HIDE DEF t
<1>4. t \in [1 .. Len(s) + 1 -> S]
  <2> HIDE DEF S
  <2> QED BY <1>2
<1>5. IsSeq(t)
  BY <1>3, <1>4, SeqFrom
<1> QED BY <1>2, <1>5 DEF t

\* A sequence is one of its elements.
LEMMA SeqOfElements ==
    ASSUME NEW S, NEW s \in Seq(S)
    PROVE  IsSeq(s)
BY DEF IsSeq, Elements

\* The rest of a sequence has no new elements.
LEMMA SeqTail ==
    ASSUME NEW s, IsSeq(s), s # <<>>
    PROVE  /\ Head(s) \in Elements(s)
           /\ IsSeq(Tail(s)) /\ Elements(Tail(s)) \subseteq Elements(s) /\ Len(Tail(s)) = Len(s) - 1
<1>1. /\ Len(s) \in Nat \ {0} /\ Head(s) = s[1] /\ DOMAIN s = 1..Len(s)
  <2> DEFINE S == Elements(s)
  <2>1. s \in Seq(S)
    BY DEF IsSeq
  <2> HIDE DEF S
  <2> QED
    BY <2>1, EmptySeq, LenProperties
<1>2. /\ Tail(s) \in Seq(Elements(s)) /\ Len(Tail(s)) = Len(s) - 1
      /\ \A k \in 1 .. Len(s) - 1 : Tail(s)[k] = s[k + 1]
  BY <1>1 DEF IsSeq
<1>3. DOMAIN Tail(s) = 1 .. Len(s) - 1
  BY <1>1, <1>2
<1>4. IsSeq(Tail(s))
  BY <1>2, SeqOfElements
<1>5. Head(s) \in Elements(s)
  BY <1>1 DEF Elements
<1>6. Elements(Tail(s)) \subseteq Elements(s)
  <2> SUFFICES ASSUME NEW k \in DOMAIN Tail(s)
               PROVE  Tail(s)[k] \in Elements(s)
    BY DEF Elements
  <2>1. k \in 1 .. Len(s) - 1 /\ k + 1 \in DOMAIN s
    BY <1>1, <1>3
  <2> QED
    BY <1>2, <2>1 DEF Elements
<1> QED
  BY <1>2, <1>4, <1>5, <1>6

\* Appending adds one element.
LEMMA SeqAppend ==
    ASSUME NEW s, IsSeq(s), NEW e
    PROVE  IsSeq(Append(s, e)) /\ Elements(Append(s, e)) \subseteq Elements(s) \cup {e} /\ Len(Append(s, e)) = Len(s) + 1
<1> DEFINE S == Elements(s) \cup {e}
<1>1. s \in Seq(S)
  BY DEF IsSeq
<1>2. Append(s, e) \in Seq(S) /\ Len(Append(s, e)) = Len(s) + 1
  BY <1>1
<1>3. \A k \in DOMAIN Append(s, e) : Append(s, e)[k] \in S
  BY <1>2
<1> QED
  BY <1>2, <1>3, SeqOfElements DEF Elements

\* Concatenation adds the elements of the second sequence.
LEMMA SeqConcat ==
    ASSUME NEW s, IsSeq(s), NEW t, IsSeq(t)
    PROVE  IsSeq(s \o t) /\ Elements(s \o t) \subseteq Elements(s) \cup Elements(t) /\ Len(s \o t) = Len(s) + Len(t)
<1> DEFINE S == Elements(s) \cup Elements(t)
<1>1. s \in Seq(S) /\ t \in Seq(S)
  BY DEF IsSeq
<1>2. s \o t \in Seq(S) /\ Len(s \o t) = Len(s) + Len(t)
  BY <1>1
<1>3. \A k \in DOMAIN (s \o t) : (s \o t)[k] \in S
  BY <1>2
<1> QED
  BY <1>2, <1>3, SeqOfElements DEF Elements

\* A sequence of one element.
LEMMA SeqOne ==
    ASSUME NEW a
    PROVE  IsSeq(<<a>>) /\ Elements(<<a>>) = {a}
<1>1. <<a>> \in Seq({a}) /\ DOMAIN <<a>> = {1} /\ <<a>>[1] = a
  OBVIOUS
<1> QED
  BY <1>1, SeqOfElements DEF Elements

\* A sequence of two elements.
LEMMA SeqTwo ==
    ASSUME NEW a, NEW b
    PROVE  IsSeq(<<a, b>>) /\ Elements(<<a, b>>) = {a, b}
<1>1. <<a, b>> \in Seq({a, b}) /\ DOMAIN <<a, b>> = {1, 2} /\ <<a, b>>[1] = a /\ <<a, b>>[2] = b
  OBVIOUS
<1> QED
  BY <1>1, SeqOfElements DEF Elements

\* A sequence with an element replaced.
Put(s, i, e) == [s EXCEPT ![i] = e]

\* A sequence with one element replaced.
LEMMA SeqPut ==
    ASSUME NEW s, IsSeq(s), NEW i \in DOMAIN s, NEW e
    PROVE  /\ IsSeq(Put(s, i, e)) /\ Len(Put(s, i, e)) = Len(s) /\ DOMAIN Put(s, i, e) = DOMAIN s
           /\ Put(s, i, e)[i] = e /\ \A j \in DOMAIN s \ {i} : Put(s, i, e)[j] = s[j]
<1>1. IsSeq(Put(s, i, e)) /\ Len(Put(s, i, e)) = Len(s) /\ DOMAIN Put(s, i, e) = DOMAIN s
  BY SeqEx, Zenon DEF Put
<1>2. Put(s, i, e)[i] = e /\ \A j \in DOMAIN s \ {i} : Put(s, i, e)[j] = s[j]
  BY DEF Put
<1> QED BY <1>1, <1>2

(* ---------------------------- numbers and sums ---------------------------- *)

\* A set of numbers has a least one.
LEMMA LeastNat ==
    ASSUME NEW T \in SUBSET Nat, T # {}
    PROVE  \E n \in T : \A m \in T : n <= m
<1>1. PICK R : R = OpToRel(<, Nat)
  OBVIOUS
<1>2. IsWellFoundedOn(R, Nat)
  BY <1>1, NatLessThanWellFounded
<1>3. \A m, n \in Nat : m < n => <<m, n>> \in R
  BY <1>1, Zenon DEF OpToRel
<1>4. PICK n \in T : \A m \in T : ~(<<m, n>> \in R)
  BY <1>2, WFMin
<1>5. \A m \in T : ~(m < n)
  BY <1>3, <1>4
<1> QED
  BY <1>5

\* Among sets of elements of a finite set there is a smallest.
LEMMA SmallestSet ==
    ASSUME NEW S, IsFiniteSet(S), NEW B \in SUBSET (SUBSET S), B # {}
    PROVE  \E T \in B : \A U \in B : Cardinality(T) <= Cardinality(U)
<1>1. \A T \in B : Cardinality(T) \in Nat
  BY FS_Subset, FS_CardinalityType
<1>2. PICK sizes : sizes = {Cardinality(T) : T \in B}
  OBVIOUS
<1>3. sizes \in SUBSET Nat /\ sizes # {}
  BY <1>1, <1>2
<1>4. PICK n \in sizes : \A m \in sizes : n <= m
  BY <1>3, LeastNat
<1> QED BY <1>2, <1>4

\* What a sum over a set of x adds up, one element after another.
SumEq(S, f, it, T) ==
    it[T] = IF T = {} THEN 0 ELSE f[CHOOSE x \in T : TRUE] + it[T \ {CHOOSE x \in T : TRUE}]

\* The fold that adds up f over the subsets of S.
IsSum(S, f, it) ==
    it = [T \in SUBSET S |-> IF T = {} THEN 0
            ELSE f[CHOOSE x \in T : TRUE] + it[T \ {CHOOSE x \in T : TRUE}]]

\* There is such a fold over a finite set: otherwise take the least size without one.
LEMMA SumExists ==
    ASSUME NEW S, IsFiniteSet(S), NEW f
    PROVE  \E it : IsSum(S, f, it)
<1> DEFINE Upto(n) == \E it : \A T \in SUBSET S : Cardinality(T) <= n => SumEq(S, f, it, T)
           Bad == {n \in Nat : ~Upto(n)}
<1>1. \A T \in SUBSET S : /\ IsFiniteSet(T) /\ Cardinality(T) \in Nat /\ Cardinality(T) <= Cardinality(S)
                          /\ Cardinality(T) = 0 <=> T = {}
  BY FS_Subset, FS_CardinalityType, FS_EmptySet
<1>2. Upto(0)
  <2>1. \A T \in SUBSET S : Cardinality(T) <= 0 => SumEq(S, f, [U \in SUBSET S |-> 0], T)
    BY <1>1 DEF SumEq
  <2> QED BY <2>1
<1>3. ASSUME NEW n \in Nat, Upto(n)
      PROVE  Upto(n + 1)
  <2>1. PICK g : \A T \in SUBSET S : Cardinality(T) <= n => SumEq(S, f, g, T)
    BY <1>3
  <2> DEFINE c(T) == CHOOSE x \in T : TRUE
             h == [T \in SUBSET S |-> IF T = {} THEN 0 ELSE f[c(T)] + g[T \ {c(T)}]]
  <2>2. \A T \in SUBSET S : Cardinality(T) <= n => h[T] = g[T]
    BY <2>1 DEF SumEq
  <2>3. \A T \in SUBSET S : T # {} => c(T) \in T
    OBVIOUS
  <2>4. \A T \in SUBSET S : T # {} => Cardinality(T \ {c(T)}) = Cardinality(T) - 1 /\ T \ {c(T)} \in SUBSET S
    BY <1>1, <2>3, FS_RemoveElement
  <2>5. ASSUME NEW T \in SUBSET S, Cardinality(T) <= n + 1
        PROVE  SumEq(S, f, h, T)
    <3>1. CASE T = {}
      BY <3>1 DEF SumEq
    <3>2. CASE T # {}
      <4>1. h[T] = f[c(T)] + g[T \ {c(T)}]
        BY <3>2
      <4>2. h[T \ {c(T)}] = g[T \ {c(T)}]
        <5>1. Cardinality(T \ {c(T)}) <= n
          BY <1>1, <2>4, <2>5, <3>2
        <5> QED BY <2>2, <2>4, <3>2, <5>1
      <4> QED BY <3>2, <4>1, <4>2 DEF SumEq
    <3> QED BY <3>1, <3>2
  <2> QED BY <2>5
<1> HIDE DEF Upto
<1>4. Bad = {}
  <2> SUFFICES ASSUME Bad # {} PROVE FALSE
    OBVIOUS
  <2>1. PICK n \in Bad : \A m \in Bad : n <= m
    BY LeastNat
  <2>2. n # 0 /\ n - 1 \in Nat
    BY <1>2
  <2>3. Upto(n - 1)
    BY <2>1, <2>2
  <2>4. Upto(n - 1 + 1)
    BY <1>3, <2>2, <2>3
  <2> QED BY <2>1, <2>2, <2>4
<1>5. Upto(Cardinality(S))
  BY <1>4, FS_CardinalityType
<1>6. PICK it : \A T \in SUBSET S : SumEq(S, f, it, T)
  BY <1>1, <1>5 DEF Upto
<1>7. PICK final : final = [T \in SUBSET S |-> it[T]]
  OBVIOUS
<1>8. final = [T \in SUBSET S |-> IF T = {} THEN 0
                           ELSE f[CHOOSE x \in T : TRUE] + final[T \ {CHOOSE x \in T : TRUE}]]
  <2>1. \A T \in SUBSET S : final[T] = IF T = {} THEN 0
                           ELSE f[CHOOSE x \in T : TRUE] + final[T \ {CHOOSE x \in T : TRUE}]
    <3>1. \A T \in SUBSET S : T \ {CHOOSE x \in T : TRUE} \in SUBSET S
      OBVIOUS
    <3> QED BY <1>6, <1>7, <3>1 DEF SumEq
  <2> QED BY <1>7, <2>1
<1> QED BY <1>8, Zenon DEF IsSum

\* The sum of a function over a finite set.
SumOver(f, S) == MapThenSumSet(LAMBDA x : f[x], S)

\* What is added up to the sums over the subsets of S.
AddsUp(S, f, it) ==
    /\ it[{}] = 0
    /\ \A T \in SUBSET S : T # {} => \E x \in T : it[T] = f[x] + it[T \ {x}]

\* A sum over a finite set is what its elements add up to.
LEMMA SumSteps ==
    ASSUME NEW S, IsFiniteSet(S), NEW f
    PROVE  \E it : SumOver(f, S) = it[S] /\ AddsUp(S, f, it)
<1> DEFINE Sum == CHOOSE it : IsSum(S, f, it)
<1>1. SumOver(f, S) = Sum[S]
  BY Zenon DEF SumOver, MapThenSumSet, MapThenFoldSet, IsSum
<1>2. IsSum(S, f, Sum)
  BY SumExists, Zenon
<1> HIDE DEF Sum
<1>3. PICK it : it = Sum
  OBVIOUS
<1>4. AddsUp(S, f, it)
  BY <1>2, <1>3 DEF IsSum, AddsUp
<1> QED BY <1>1, <1>3, <1>4

\* The sum of numbers up to a bound.
LEMMA SumBound ==
    ASSUME NEW S, IsFiniteSet(S), NEW m \in Nat, NEW f \in [S -> 0..m]
    PROVE  SumOver(f, S) \in 0 .. m * Cardinality(S)
<1>1. PICK it : SumOver(f, S) = it[S] /\ AddsUp(S, f, it)
  BY SumSteps
<1> DEFINE Bad == {T \in SUBSET S : ~(it[T] \in 0 .. m * Cardinality(T))}
<1>2. Bad = {}
  <2> SUFFICES ASSUME Bad # {} PROVE FALSE
    OBVIOUS
  <2>1. PICK T \in Bad : \A U \in Bad : Cardinality(T) <= Cardinality(U)
    BY SmallestSet
  <2>2. T # {}
    <3>1. Cardinality({}) = 0
      BY FS_EmptySet
    <3>2. 0 \in 0 .. m * 0
      OBVIOUS
    <3>3. it[{}] \in 0 .. m * Cardinality({})
      BY <1>1, <3>1, <3>2, Zenon DEF AddsUp
    <3> QED BY <3>3
  <2>3. PICK x \in T : it[T] = f[x] + it[T \ {x}]
    BY <1>1, <2>2 DEF AddsUp
  <2>4. IsFiniteSet(T) /\ Cardinality(T) \in Nat /\ x \in S
    BY FS_Subset, FS_CardinalityType
  <2>5. Cardinality(T \ {x}) \in Nat /\ Cardinality(T \ {x}) = Cardinality(T) - 1
    BY <2>4, FS_RemoveElement, FS_CardinalityType
  <2>6. it[T \ {x}] \in 0 .. m * (Cardinality(T) - 1)
    <3>1. T \ {x} \in SUBSET S /\ ~(Cardinality(T) <= Cardinality(T \ {x}))
      BY <2>4, <2>5
    <3>2. it[T \ {x}] \in 0 .. m * Cardinality(T \ {x})
      BY <2>1, <3>1
    <3> QED BY <2>5, <3>2, Zenon
  <2>7. f[x] \in 0..m
    BY <2>4
  <2>8. ASSUME NEW k \in Nat, NEW a \in 0..m, NEW b \in 0 .. m * (k - 1)
        PROVE  a + b \in 0 .. m * k
    <3>1. m * (k - 1) = m * k - m
      OBVIOUS
    <3> QED BY <3>1
  <2> QED BY <2>3, <2>4, <2>6, <2>7, <2>8
<1> QED BY <1>1, <1>2

\* The first numbers are finitely many.
LEMMA UptoFinite ==
    ASSUME NEW n \in Nat
    PROVE  IsFiniteSet(1..n)
<1>1. PICK a \in Int, b \in Int : a = 1 /\ b = n
  OBVIOUS
<1>2. IsFiniteSet(a..b)
  BY FS_Interval
<1> QED BY <1>1, <1>2

\* The smaller of two numbers.
LEMMA TwoLeast ==
    ASSUME NEW a \in Int, NEW b \in Int
    PROVE  Min({a, b}) \in {a, b} /\ Min({a, b}) <= a /\ Min({a, b}) <= b
<1>1. \E x \in {a, b} : \A y \in {a, b} : x <= y
  OBVIOUS
<1>2. Min({a, b}) \in {a, b} /\ \A y \in {a, b} : Min({a, b}) <= y
  BY <1>1, Zenon DEF Min
<1> QED BY <1>2

\* The greater of two numbers.
LEMMA TwoMost ==
    ASSUME NEW a \in Int, NEW b \in Int
    PROVE  Max({a, b}) \in {a, b} /\ Max({a, b}) >= a /\ Max({a, b}) >= b
<1>1. \E x \in {a, b} : \A y \in {a, b} : x >= y
  OBVIOUS
<1>2. Max({a, b}) \in {a, b} /\ \A y \in {a, b} : Max({a, b}) >= y
  BY <1>1, Zenon DEF Max
<1> QED BY <1>2

\* A finite set of numbers has a bound: otherwise take the smallest subset without one.
LEMMA FiniteBound ==
    ASSUME NEW S \in SUBSET Nat, IsFiniteSet(S)
    PROVE  \E n \in Nat : \A x \in S : x <= n
<1> DEFINE Bad == {T \in SUBSET S : ~\E n \in Nat : \A x \in T : x <= n}
<1>1. Bad = {}
  <2> SUFFICES ASSUME Bad # {}
               PROVE  FALSE
    OBVIOUS
  <2>1. PICK T \in Bad : \A U \in Bad : Cardinality(T) <= Cardinality(U)
    <3>1. Bad \in SUBSET (SUBSET S)
      OBVIOUS
    <3> HIDE DEF Bad
    <3> QED BY <3>1, SmallestSet
  <2>2. T # {}
    OBVIOUS
  <2>3. PICK x \in T : TRUE
    BY <2>2
  <2>4. IsFiniteSet(T) /\ Cardinality(T) \in Nat /\ Cardinality(T \ {x}) = Cardinality(T) - 1
    BY <2>3, FS_Subset, FS_CardinalityType, FS_RemoveElement
  <2>5. T \ {x} \notin Bad
    BY <2>1, <2>4
  <2>6. PICK n \in Nat : \A y \in T \ {x} : y <= n
    BY <2>5
  <2>7. x \in Nat
    BY <2>3
  <2>8. \A y \in T : y <= n + x
    BY <2>6, <2>7
  <2>9. n + x \in Nat
    BY <2>7
  <2> QED BY <2>8, <2>9
<1> QED BY <1>1

\* A bounded set of numbers has its greatest.
LEMMA MaxIn ==
    ASSUME NEW S \in SUBSET Nat, S # {}, NEW n \in Nat, \A x \in S : x <= n
    PROVE  Max(S) \in S /\ \A y \in S : Max(S) >= y
<1>1. PICK gap : gap = {n - x : x \in S}
  OBVIOUS
<1>2. gap \in SUBSET Nat /\ gap # {}
  <2>1. \A x \in S : n - x \in Nat
    OBVIOUS
  <2> QED BY <1>1, <2>1
<1>3. PICK least \in gap : \A m \in gap : least <= m
  BY <1>2, LeastNat
<1>4. PICK x \in S : least = n - x
  BY <1>1, <1>3
<1>5. \A y \in S : n - x <= n - y
  BY <1>1, <1>3, <1>4
<1>6. \A y \in S : x >= y
  BY <1>5
<1>7. \E z \in S : \A y \in S : z >= y
  BY <1>6
<1> QED BY <1>7, Zenon DEF Max

\* A function from a finite set that meets each value once keeps the size.
LEMMA SameSize ==
    ASSUME NEW S, NEW T, IsFiniteSet(S), NEW f \in [S -> T],
           \A a, b \in S : f[a] = f[b] => a = b, \A y \in T : \E a \in S : f[a] = y
    PROVE  Cardinality(T) = Cardinality(S)
<1>1. f \in Surjection(S, T) /\ f \in Injection(S, T)
  BY DEF Surjection, Injection, IsInjective
<1> QED BY <1>1, FS_Surjection

\* Adding up a function of numbers is the sum over its domain.
LEMMA FoldIsSum ==
    ASSUME NEW f
    PROVE  FoldFunction(+, 0, f) = SumOver(f, DOMAIN f)
BY Zenon DEF FoldFunction, FoldFunctionOnSet, SumOver, MapThenSumSet

\* The pairs of an index and one of its elements.
Pairs(R, S) == UNION {{<<i, r>> : r \in R[i]} : i \in S}

\* Pairs are counted index by index.
LEMMA PairsCount ==
    ASSUME NEW S, IsFiniteSet(S), NEW R, \A i \in S : IsFiniteSet(R[i]),
           NEW f, \A i \in S : f[i] = Cardinality(R[i])
    PROVE  Cardinality(Pairs(R, S)) = SumOver(f, S)
<1>1. PICK it : SumOver(f, S) = it[S] /\ AddsUp(S, f, it)
  BY SumSteps
<1> DEFINE Good(T) == IsFiniteSet(Pairs(R, T)) /\ Cardinality(Pairs(R, T)) = it[T]
           Bad == {T \in SUBSET S : ~Good(T)}
<1>2. Bad = {}
  <2> SUFFICES ASSUME Bad # {} PROVE FALSE
    OBVIOUS
  <2>1. PICK T \in Bad : \A U \in Bad : Cardinality(T) <= Cardinality(U)
    <3>1. Bad \in SUBSET (SUBSET S)
      OBVIOUS
    <3> HIDE DEF Bad
    <3> QED BY <3>1, SmallestSet
  <2>2. T # {}
    <3>1. Pairs(R, {}) = {}
      BY DEF Pairs
    <3>2. Good({})
      BY <1>1, <3>1, FS_EmptySet DEF AddsUp
    <3> QED BY <3>2
  <2>3. PICK x \in T : it[T] = f[x] + it[T \ {x}]
    BY <1>1, <2>2 DEF AddsUp
  <2>4. IsFiniteSet(T) /\ Cardinality(T) \in Nat /\ x \in S
    BY FS_Subset, FS_CardinalityType
  <2>5. Cardinality(T \ {x}) = Cardinality(T) - 1
    BY <2>4, FS_RemoveElement
  <2>6. Good(T \ {x})
    <3>1. T \ {x} \in SUBSET S /\ ~(Cardinality(T) <= Cardinality(T \ {x}))
      BY <2>4, <2>5
    <3> QED BY <2>1, <3>1
  <2>7. PICK rest, mine : rest = Pairs(R, T \ {x}) /\ mine = {<<x, r>> : r \in R[x]}
    OBVIOUS
  <2>8. IsFiniteSet(rest) /\ Cardinality(rest) = it[T \ {x}]
    BY <2>6, <2>7
  <2>9. IsFiniteSet(mine) /\ Cardinality(mine) = Cardinality(R[x])
    <3>1. PICK g : g = [r \in R[x] |-> <<x, r>>]
      OBVIOUS
    <3>2. g \in [R[x] -> mine] /\ (\A a, b \in R[x] : g[a] = g[b] => a = b) /\ \A y \in mine : \E a \in R[x] : g[a] = y
      BY <2>7, <3>1
    <3>3. g \in Surjection(R[x], mine)
      BY <3>2 DEF Surjection
    <3>4. IsFiniteSet(R[x])
      BY <2>4
    <3> QED BY <3>2, <3>3, <3>4, SameSize, FS_Surjection
  <2>10. Pairs(R, T) = rest \cup mine
    BY <2>7 DEF Pairs
  <2>11. rest \cap mine = {}
    BY <2>7 DEF Pairs
  <2>12. IsFiniteSet(rest \cup mine) /\ Cardinality(rest \cup mine) = Cardinality(rest) + Cardinality(mine)
    <3>1. Cardinality({}) = 0
      BY FS_EmptySet
    <3>2. Cardinality(rest) \in Nat /\ Cardinality(mine) \in Nat
      BY <2>8, <2>9, FS_CardinalityType
    <3>3. /\ IsFiniteSet(rest \cup mine)
          /\ Cardinality(rest \cup mine) = Cardinality(rest) + Cardinality(mine) - Cardinality({})
      BY <2>8, <2>9, <2>11, FS_Union
    <3> QED BY <3>1, <3>2, <3>3
  <2>13. f[x] = Cardinality(R[x]) /\ f[x] \in Nat /\ it[T \ {x}] \in Nat
    BY <2>4, <2>8, FS_CardinalityType
  <2> HIDE DEF Bad
  <2>14. Good(T)
    BY <2>3, <2>8, <2>9, <2>10, <2>12, <2>13
  <2> QED BY <2>14 DEF Bad
<1> QED BY <1>1, <1>2

\* The greatest of numbers.
LEMMA MaxIs ==
    ASSUME NEW S \in SUBSET Int, NEW k \in S, \A x \in S : x <= k
    PROVE  Max(S) = k
<1>1. \E y \in S : \A x \in S : y >= x
  OBVIOUS
<1>2. Max(S) \in S /\ \A x \in S : Max(S) >= x
  BY <1>1, Zenon DEF Max
<1>3. PICK m : m = Max(S)
  OBVIOUS
<1>4. m \in S /\ \A x \in S : m >= x
  BY <1>2, <1>3
<1>5. m \in Int /\ k \in Int /\ m >= k /\ m <= k
  BY <1>4
<1> QED BY <1>3, <1>5

\* The function that counts the days in a row up to a day.
IsRun(dates, run) == run = [last \in Int |-> IF last \in dates THEN 1 + run[last - 1] ELSE 0]
\* The n days that end with the last are in dates, the one before them is not.
Ends(dates, last, n) == last - n \notin dates /\ \A m \in 0 .. n - 1 : last - m \in dates

\* Every date ends one run.
LEMMA EndsAre ==
    ASSUME NEW dates \in SUBSET Int, IsFiniteSet(dates), NEW last \in Int
    PROVE  /\ \E n \in Nat : Ends(dates, last, n)
           /\ \A n, m \in Nat : Ends(dates, last, n) /\ Ends(dates, last, m) => n = m
<1>1. PICK T : T = {n \in Nat : last - n \notin dates}
  OBVIOUS
<1>2. T # {}
  <2> SUFFICES ASSUME T = {}
               PROVE  FALSE
    OBVIOUS
  <2>1. PICK k \in Nat : k = Cardinality(dates)
    BY FS_CardinalityType
  <2>2. PICK low \in Int : low = last - k
    OBVIOUS
  <2>3. IsFiniteSet(low .. last) /\ Cardinality(low .. last) = k + 1
    <3>1. Cardinality(low .. last) = IF low > last THEN 0 ELSE last - low + 1
      BY FS_Interval
    <3>2. IsFiniteSet(low .. last)
      BY FS_Interval
    <3> QED BY <2>2, <3>1, <3>2
  <2>4. low .. last \in SUBSET dates
    <3> SUFFICES ASSUME NEW x \in low .. last
                 PROVE  x \in dates
      OBVIOUS
    <3>1. last - x \in Nat /\ last - (last - x) = x
      OBVIOUS
    <3> QED BY <1>1, <3>1
  <2>5. Cardinality(low .. last) <= Cardinality(dates)
    BY <2>4, FS_Subset
  <2> QED BY <2>1, <2>3, <2>5
<1>3. PICK n \in T : \A m \in T : n <= m
  BY <1>1, <1>2, LeastNat
<1>4. Ends(dates, last, n)
  BY <1>1, <1>3 DEF Ends
<1>5. ASSUME NEW k \in Nat, NEW m \in Nat, Ends(dates, last, k), Ends(dates, last, m)
      PROVE  k = m
  <2>1. ~(k < m)
    BY <1>5 DEF Ends
  <2>2. ~(m < k)
    BY <1>5 DEF Ends
  <2> QED BY <2>1, <2>2
<1> QED BY <1>1, <1>4, <1>5

\* A run goes on with the next day.
LEMMA EndsStep ==
    ASSUME NEW dates \in SUBSET Int, NEW last \in dates, NEW n \in Nat, Ends(dates, last - 1, n)
    PROVE  Ends(dates, last, n + 1)
<1>1. last \in Int
  OBVIOUS
<1>2. last - (n + 1) = (last - 1) - n
  BY <1>1
<1>3. ASSUME NEW m \in 0 .. n
      PROVE  last - m \in dates
  <2>1. CASE m = 0
    BY <1>1, <2>1
  <2>2. CASE m # 0
    <3>1. m - 1 \in 0 .. n - 1 /\ (last - 1) - (m - 1) = last - m
      BY <1>1, <2>2
    <3>2. (last - 1) - (m - 1) \in dates
      BY <3>1 DEF Ends
    <3> QED BY <3>1, <3>2
  <2> QED BY <2>1, <2>2
<1>4. n + 1 - 1 = n
  OBVIOUS
<1> QED BY <1>2, <1>3, <1>4 DEF Ends

\* The recursive count of days in a row has a solution.
LEMMA RunExists ==
    ASSUME NEW dates \in SUBSET Int, IsFiniteSet(dates)
    PROVE  \E run : IsRun(dates, run)
<1> DEFINE Length(last) == CHOOSE n \in Nat : Ends(dates, last, n)
           run == [last \in Int |-> Length(last)]
<1>1. \A last \in Int : Length(last) \in Nat /\ Ends(dates, last, Length(last))
  BY EndsAre
<1>2. ASSUME NEW last \in Int
      PROVE  Length(last) = IF last \in dates THEN 1 + run[last - 1] ELSE 0
  <2>1. CASE last \notin dates
    <3>1. Ends(dates, last, 0)
      BY <2>1 DEF Ends
    <3> HIDE DEF Length
    <3>2. Length(last) = 0
      BY <1>1, <3>1, EndsAre
    <3> QED BY <2>1, <3>2
  <2>2. CASE last \in dates
    <3>1. last - 1 \in Int /\ run[last - 1] = Length(last - 1)
      OBVIOUS
    <3> HIDE DEF Length, run
    <3>2. PICK n \in Nat : n = Length(last - 1) /\ Ends(dates, last - 1, n)
      BY <1>1, <3>1
    <3>3. Ends(dates, last, n + 1) /\ n + 1 \in Nat
      BY <2>2, <3>2, EndsStep
    <3>4. Length(last) = n + 1
      BY <1>1, <3>3, EndsAre
    <3> QED BY <2>2, <3>1, <3>2, <3>4
  <2> QED BY <2>1, <2>2
<1>3. IsRun(dates, run)
  <2> HIDE DEF Length
  <2>1. [last \in Int |-> IF last \in dates THEN 1 + run[last - 1] ELSE 0] = [last \in Int |-> Length(last)]
    BY <1>2
  <2> QED BY <2>1 DEF IsRun
<1> QED BY <1>3

\* The run of a day is the number of days that end with it, and not longer than the days
\* there are.
LEMMA RunBound ==
    ASSUME NEW dates \in SUBSET Int, IsFiniteSet(dates), NEW run, IsRun(dates, run), NEW now \in Int
    PROVE  run[now] \in 0 .. Cardinality(dates) /\ Ends(dates, now, run[now])
<1>1. \A last \in Int : run[last] = IF last \in dates THEN 1 + run[last - 1] ELSE 0
  <2>1. PICK f : f = run
    OBVIOUS
  <2>2. f = [last \in Int |-> IF last \in dates THEN 1 + f[last - 1] ELSE 0]
    BY <2>1 DEF IsRun
  <2>3. \A last \in Int : f[last] = IF last \in dates THEN 1 + f[last - 1] ELSE 0
    BY <2>2, Zenon
  <2> QED BY <2>1, <2>3
<1> DEFINE Bad == {n \in Nat : \E last \in Int : Ends(dates, last, n) /\ run[last] # n}
<1>2. Bad = {}
  <2> SUFFICES ASSUME Bad # {}
               PROVE  FALSE
    OBVIOUS
  <2>1. PICK n \in Bad : \A m \in Bad : n <= m
    BY LeastNat
  <2>2. PICK last \in Int : Ends(dates, last, n) /\ run[last] # n
    BY <2>1
  <2>3. n \in Nat
    BY <2>1
  <2>4. CASE n = 0
    <3>1. last \notin dates
      BY <2>2, <2>4 DEF Ends
    <3> QED BY <1>1, <2>2, <2>4, <3>1
  <2>5. CASE n # 0
    <3>1. n - 1 \in Nat /\ last - 1 \in Int
      BY <2>3, <2>5
    <3>2. last \in dates
      <4>1. 0 \in 0 .. n - 1 /\ last - 0 = last
        BY <2>3, <2>5
      <4> QED BY <2>2, <4>1 DEF Ends
    <3>3. Ends(dates, last - 1, n - 1)
      <4>1. (last - 1) - (n - 1) = last - n
        BY <2>3
      <4>2. ASSUME NEW m \in 0 .. n - 1 - 1
            PROVE  (last - 1) - m \in dates
        <5>1. m + 1 \in 0 .. n - 1 /\ last - (m + 1) = (last - 1) - m
          BY <2>3
        <5>2. last - (m + 1) \in dates
          BY <2>2, <5>1 DEF Ends
        <5> QED BY <5>1, <5>2
      <4> QED BY <2>2, <4>1, <4>2 DEF Ends
    <3>4. run[last - 1] = n - 1
      <4>1. n - 1 \notin Bad
        BY <2>1, <2>3, <3>1
      <4> QED BY <3>1, <3>3, <4>1
    <3> QED BY <1>1, <2>2, <2>3, <3>2, <3>4
  <2> QED BY <2>4, <2>5
<1>3. PICK n \in Nat : Ends(dates, now, n)
  BY EndsAre
<1>4. run[now] = n
  BY <1>2, <1>3
<1>5. n <= Cardinality(dates)
  <2>1. PICK a \in Int, b \in Int : a = now - n + 1 /\ b = now
    OBVIOUS
  <2>2. IsFiniteSet(a..b) /\ Cardinality(a..b) = n
    <3>1. IsFiniteSet(a..b) /\ Cardinality(a..b) = IF a > b THEN 0 ELSE b - a + 1
      BY FS_Interval
    <3> QED BY <2>1, <3>1
  <2>3. a..b \subseteq dates
    <3> SUFFICES ASSUME NEW x \in a..b
                 PROVE  x \in dates
      OBVIOUS
    <3>1. now - x \in 0 .. n - 1 /\ now - (now - x) = x
      BY <2>1
    <3> QED BY <1>3, <3>1 DEF Ends
  <2> QED BY <2>2, <2>3, FS_Subset
<1>6. Cardinality(dates) \in Nat
  BY FS_CardinalityType
<1> QED BY <1>3, <1>4, <1>5, <1>6

(* --------------------------------- cache ---------------------------------- *)

\* Days an entry may be valid to.
Days == 0 .. date + CacheTTL
\* A row or an entry.
EntryType == [quiz : 0..newest, expires : Days, gone : Days]
\* A worker slot.
ReaderType == [pc : {"rest", "postgres", "copy", "generate", "store"}, hold : EntryType]
\* The last hit of a slot.
HitType == [quiz : Nat, expires : Nat, at : Nat]

\* Types of the variables.
CacheTypes ==
    /\ date \in Nat /\ newest \in Nat
    /\ row \in EntryType /\ entry \in EntryType
    /\ reader \in [Readers -> ReaderType]
    /\ admin \in [pc : {"rest", "entry"}, gone : SUBSET (1..newest)]
    /\ barred \subseteq 1..newest
    /\ served \in [Readers -> HitType]

\* The slot is between the tiers.
Holding(w) == reader[w].pc \in {"copy", "store"}
\* The quizzes an invalidation has removed, or is removing.
Removed == barred \cup admin.gone
\* A slot holds nothing unless it is between the tiers, then no removed quiz; what it
\* copies was valid when it was read, and what it served was valid.
SlotOK(w) ==
    /\ ~Holding(w) => reader[w].hold.quiz = 0
    /\ reader[w].pc = "copy" => reader[w].hold.gone <= reader[w].hold.expires
    /\ reader[w].hold.quiz \notin Removed
    /\ served[w].at <= served[w].expires

\* The inductive invariant.
CacheInv ==
    /\ CacheTypes
    /\ row.quiz \notin Removed
    /\ entry.quiz \notin barred
    /\ \A w \in Readers : SlotOK(w)

\* The invariant holds at the start.
LEMMA CacheInitInv == CacheInit => CacheInv
BY CacheAssumption, SMTT(30) DEF CacheInit, CacheInv, CacheTypes, Days, EntryType, ReaderType, HitType,
   Holding, Removed, SlotOK, NoEntry, AtRest

\* The steps of a slot keep the invariant.
LEMMA ReaderStepInv ==
    ASSUME CacheInv, NEW w \in Readers,
           \/ lookupRedis(w) \/ lookupPostgres(w) \/ CopyToRedis(w)
           \/ StoreRow(w) \/ StoreEntry(w) \/ ReaderFails(w)
    PROVE  CacheInv'
<1> USE CacheAssumption DEF Days, EntryType, ReaderType, HitType
<1>0. /\ CacheTypes /\ reader[w] \in ReaderType /\ SlotOK(w)
  BY DEF CacheInv, CacheTypes
<1>1. CASE lookupRedis(w)
  <2>1. CASE date < entry.gone /\ date <= entry.expires /\ Serve(w, entry, date) /\ UNCHANGED <<entry, reader>>
    <3>1. UNCHANGED <<row, entry, reader, admin, date, newest, barred>>
      BY <1>1, <2>1 DEF lookupRedis
    <3>2. /\ served' \in [Readers -> HitType]
          /\ \A v \in Readers : served'[v].at <= served'[v].expires
      BY <1>0, <2>1 DEF CacheInv, CacheTypes, SlotOK, Serve
    <3> QED BY <3>1, <3>2 DEF CacheInv, CacheTypes, SlotOK, Holding, Removed
  <2>2. CASE /\ entry' \in {entry, NoEntry} /\ Go(w, "postgres", NoEntry)
             /\ UNCHANGED <<row, admin, date, newest, barred, served>>
    BY <1>0, <2>2 DEF CacheInv, CacheTypes, SlotOK, Holding, Removed, Go, NoEntry
  <2> QED BY <1>1, <2>1, <2>2 DEF lookupRedis
<1>2. CASE lookupPostgres(w)
  BY <1>0, <1>2, SMTT(60) DEF CacheInv, CacheTypes, SlotOK, Holding, Removed, lookupPostgres, Go, NoEntry
<1>3. CASE CopyToRedis(w)
  BY <1>0, <1>3, SMTT(60) DEF CacheInv, CacheTypes, SlotOK, Holding, Removed, CopyToRedis, Serve, setRedis, Go, NoEntry
<1>4. CASE StoreRow(w)
  BY <1>0, <1>4, SMTT(60) DEF CacheInv, CacheTypes, SlotOK, Holding, Removed, StoreRow, Go
<1>5. CASE StoreEntry(w)
  BY <1>0, <1>5, SMTT(60) DEF CacheInv, CacheTypes, SlotOK, Holding, Removed, StoreEntry, setRedis, Go, NoEntry
<1>6. CASE ReaderFails(w)
  BY <1>0, <1>6, SMTT(60) DEF CacheInv, CacheTypes, SlotOK, Holding, Removed, ReaderFails, Go, NoEntry
<1> QED BY <1>1, <1>2, <1>3, <1>4, <1>5, <1>6

\* Every step keeps the invariant.
LEMMA CacheStepInv ==
    ASSUME CacheInv, [CacheNext]_cacheVars
    PROVE  CacheInv'
<1> USE CacheAssumption DEF Days, EntryType, ReaderType, HitType
<1>1. CASE \E w \in Readers :
             \/ lookupRedis(w) \/ lookupPostgres(w) \/ CopyToRedis(w)
             \/ StoreRow(w) \/ StoreEntry(w) \/ ReaderFails(w)
  BY <1>1, ReaderStepInv
<1>2. CASE InvalidateRow
  BY <1>2, SMTT(60) DEF CacheInv, CacheTypes, SlotOK, Holding, Removed, InvalidateRow, Behind, NoEntry
<1>3. CASE InvalidateEntry
  <2>1. /\ admin'.gone = {} /\ admin' \in [pc : {"rest", "entry"}, gone : SUBSET (1..newest)]
        /\ UNCHANGED <<row, reader, date, newest, served>>
    BY <1>3 DEF InvalidateEntry
  <2>2. barred' \subseteq barred \cup admin.gone
    BY <1>3 DEF InvalidateEntry
  <2>3. Removed' \subseteq Removed
    BY <2>1, <2>2 DEF Removed
  <2>4. barred' \subseteq 1..newest
    BY <2>2 DEF CacheInv, CacheTypes
  <2>5. entry' \in EntryType /\ entry'.quiz \notin barred'
    BY <1>3, <2>4 DEF CacheInv, CacheTypes, InvalidateEntry, NoEntry
  <2> QED BY <2>1, <2>3, <2>4, <2>5 DEF CacheInv, CacheTypes, SlotOK, Holding
<1>4. CASE PurgeExpired
  BY <1>4, SMTT(60) DEF CacheInv, CacheTypes, SlotOK, Holding, Removed, PurgeExpired, NoEntry
<1>5. CASE PurgeAll
  BY <1>5, SMTT(60) DEF CacheInv, CacheTypes, SlotOK, Holding, Removed, PurgeAll, NoEntry, AtRest
<1>6. CASE CacheDay
  BY <1>6, SMTT(60) DEF CacheInv, CacheTypes, SlotOK, Holding, Removed, CacheDay
<1>7. CASE UNCHANGED cacheVars
  BY <1>7 DEF cacheVars, CacheInv, CacheTypes, SlotOK, Holding, Removed
<1> QED BY <1>1, <1>2, <1>3, <1>4, <1>5, <1>6, <1>7 DEF CacheNext

\* The invariant holds.
LEMMA CacheInvariant == CacheSpec => []CacheInv
BY CacheInitInv, CacheStepInv, PTL DEF CacheSpec

\* The invariant says what the types and the invalidations promise.
LEMMA CacheTruth == CacheInv => CacheTypeOK /\ CacheHolds
<1>1. CacheInv => CacheTypeOK
  BY CacheAssumption DEF CacheInv, CacheTypes, CacheTypeOK, Days, EntryType, ReaderType
<1>2. CacheInv => CacheHolds
  BY DEF CacheInv, CacheHolds, SlotOK, Removed
<1> QED BY <1>1, <1>2

\* Rows, entries, slots and history keep their types.
THEOREM CacheTypesHold == CacheSpec => []CacheTypeOK
BY CacheTruth, CacheInvariant, PTL

\* The quizzes of an invalidation that was reported done are in neither tier and with no
\* slot, and no lookup serves an entry past its date.
THEOREM InvalidationHolds == CacheSpec => []CacheHolds
BY CacheTruth, CacheInvariant, PTL

(* --------------------------------- phone ---------------------------------- *)

\* Statuses an entry of the queue can have.
Statuses == {"queued", "uploading", "processing", "review", "ready", "failed"}
\* What a form, a flow or an entry may hold as its pages.
Forms == Rolls \cup {<<>>}
\* An entry of the upload queue.
QueueEntry == [status : Statuses, uris : Rolls, job : Nat, sent : 0..NPages, attempts : Nat, quiz : Nat]
\* A queue of entries.
IsQueue(q) == DOMAIN q \subseteq Entries /\ \A i \in DOMAIN q : q[i] \in QueueEntry
\* A job of the server, with the pages that have reached it.
ServerJob == [for : Entries, rows : Nat, pages : SUBSET [no : Nat, uri : Pictures],
              status : {"uploading", "pending", "quiz_ready", "review_ready", "failed"},
              quiz : {"none", "quiz_ready", "review_ready"}]
\* A call of startUpload or retryUpload, from its start to its end.
FlowType == [pc : {"idle", "look", "check", "find", "job", "begin", "pages", "done", "caught"},
             id : 0..NUploads, new : BOOLEAN, handler : Nat, form : Forms, uris : Forms, job : Nat,
             sent : 0..NPages, attempts : Nat, page : 0..NPages]

\* The jobs the server has made for an upload.
Jobs(id) == {j \in DOMAIN server : server[j].for = id}
\* The pages are those the upload was started with, unless they were replaced.
Same(id, uris) == id \in DOMAIN origin /\ (id \in swapped \/ uris = origin[id])
\* Something has reached the server as the page of that number, and unless the pages
\* were replaced the page of that number.
Arrived(id, p) ==
    \E j \in Jobs(id) : \E page \in server[j].pages : page.no = p /\ (id \in swapped \/ page.uri = origin[id][p])
\* The first n pages of an upload have reached the server.
Reached(id, n) ==
    /\ id \in DOMAIN origin
    /\ id \in swapped \/ n <= Len(origin[id])
    /\ \A p \in 1..n : Arrived(id, p)
\* No job, or one the server made for the upload.
JobOf(id, job) == job = 0 \/ job \in Jobs(id)
\* A quiz or a review that is announced is there.
Offered(id, status, quiz) ==
    /\ JobOf(id, quiz)
    /\ status = "ready" => quiz # 0 /\ server[quiz].quiz = "quiz_ready"
    /\ status = "review" => quiz # 0 /\ server[quiz].quiz = "review_ready"

\* What an entry says of the server is so.
TrueEntry(id, e) == Reached(id, e.sent) /\ Same(id, e.uris) /\ JobOf(id, e.job) /\ Offered(id, e.status, e.quiz)
\* All entries are true.
TrueQueue(q) == \A id \in DOMAIN q : TrueEntry(id, q[id])
\* A patch makes no entry say more than the server has.
TruePatch(id, x) ==
    /\ "sent" \in DOMAIN x => x.sent \in 0..NPages /\ Reached(id, x.sent)
    /\ "uris" \in DOMAIN x => x.uris \in Rolls /\ Same(id, x.uris)
    /\ "job" \in DOMAIN x => x.job \in Nat /\ JobOf(id, x.job)
    /\ "attempts" \in DOMAIN x => x.attempts \in Nat
    /\ "status" \in DOMAIN x =>
         x.status \in Statuses /\ (x.status \in {"ready", "review"} => "quiz" \in DOMAIN x)
    /\ "quiz" \in DOMAIN x => "status" \in DOMAIN x /\ x.quiz \in Nat /\ Offered(id, x.status, x.quiz)
\* A write that waits for the storage leaves the queue true.
TrueWrite(c) ==
    /\ c \in [by : Flows \cup {"screen", "nobody"}, op : {"update", "add", "remove"}, id : Entries,
              patch : {c.patch}, read : BOOLEAN, seen : {c.seen}]
    /\ c.op # "remove" => TruePatch(c.id, c.patch)
    /\ c.op = "add" => "uris" \in DOMAIN c.patch
    /\ c.read => IsQueue(c.seen) /\ TrueQueue(c.seen)
\* A flow has the pages of its form and of its entry once it has found the entry, and a
\* new upload has them from its start.
Paged(r) == r.pc \in {"job", "begin", "pages", "done"} \/ (r.pc = "check" /\ r.new)
\* What a flow remembers of the server and of its entry is so.
TrueFlow(r) ==
    /\ r \in FlowType
    /\ r.pc # "idle" => r.id \in Entries
    /\ JobOf(r.id, r.job)
    /\ r.pc = "look" => ~r.new
    /\ r.pc = "find" => r.form \in Rolls
    /\ Paged(r) => /\ r.form \in Rolls /\ Same(r.id, r.form)
                   /\ r.uris \in Rolls /\ Same(r.id, r.uris)
                   /\ Reached(r.id, r.sent)
    /\ r.pc \in {"begin", "pages", "done"} => r.job # 0
    /\ r.pc = "pages" => r.page \in 1..Len(r.uris) /\ Reached(r.id, r.page - 1)

\* Jobs are typed, one that is ready has its quiz, and uploads were started with pages.
ServerOK ==
    /\ server \in Seq(ServerJob)
    /\ \A id \in DOMAIN origin : origin[id] \in Rolls
    /\ \A j \in DOMAIN server :
         server[j].status \in {"quiz_ready", "review_ready"} => server[j].quiz = server[j].status
\* The stored queue is true.
QueueOK == IsQueue(queue) /\ TrueQueue(queue)
\* The writes that wait are true and as many as the bound allows.
WritesOK == IsSeq(writes) /\ Len(writes) <= MaxWrites /\ \A c \in Elements(writes) : TrueWrite(c)
\* What the screens remember is true.
FlowsOK == flows \in [Flows -> FlowType] /\ \A f \in Flows : TrueFlow(flows[f])
\* A poll asks for a job of its upload.
PollsOK == polls \in [Entries -> Nat] /\ \A id \in Entries : JobOf(id, polls[id])
\* The form holds pages or none, and the reconnect handlers are counted.
ScreenOK ==
    /\ screen \in [draft : Forms, terms : BOOLEAN, busy : BOOLEAN, shown : {screen.shown}]
    /\ due \in Seq(SUBSET Entries)
\* What the phone says of the server is so.
PhoneInv == ServerOK /\ QueueOK /\ WritesOK /\ FlowsOK /\ PollsOK
\* The inductive invariant of the phone.
ScanPhoneInv == PhoneInv /\ ScreenOK

\* What a step may do to the jobs of the server and to the history.
ServerGrows ==
    /\ \A id \in DOMAIN origin : id \in DOMAIN origin' /\ origin'[id] = origin[id]
    /\ swapped \subseteq swapped'
    /\ \A j \in DOMAIN server :
        /\ j \in DOMAIN server' /\ server'[j].for = server[j].for /\ server[j].pages \subseteq server'[j].pages
        /\ server[j].quiz # "none" => server'[j].quiz = server[j].quiz

\* What has reached the server stays there.
LEMMA ReachedKept ==
    ASSUME ServerGrows, NEW id
    PROVE  /\ Jobs(id) \subseteq Jobs(id)'
           /\ \A uris : Same(id, uris) => Same(id, uris)'
           /\ \A n : Reached(id, n) => Reached(id, n)'
           /\ \A job : JobOf(id, job) => JobOf(id, job)'
           /\ \A status, quiz : Offered(id, status, quiz) => Offered(id, status, quiz)'
<1>1. \A j \in Jobs(id) : j \in Jobs(id)' /\ j \in DOMAIN server
  BY DEF ServerGrows, Jobs
<1>2. \A n : Reached(id, n) => Reached(id, n)'
  <2> SUFFICES ASSUME NEW n, Reached(id, n) PROVE Reached(id, n)'
    OBVIOUS
  <2>1. /\ id \in DOMAIN origin' /\ origin'[id] = origin[id]
        /\ id \in swapped => id \in swapped'
    BY DEF Reached, ServerGrows
  <2>2. ASSUME NEW p, Arrived(id, p)
        PROVE  Arrived(id, p)'
    BY <1>1, <2>1, <2>2 DEF Arrived, ServerGrows
  <2> QED
    BY <2>1, <2>2 DEF Reached
<1>5. \A uris : Same(id, uris) => Same(id, uris)'
  BY DEF Same, ServerGrows
<1>3. \A job : JobOf(id, job) => JobOf(id, job)'
  BY <1>1 DEF JobOf
<1>4. ASSUME NEW status, NEW quiz, Offered(id, status, quiz)
      PROVE  Offered(id, status, quiz)'
  <2>1. JobOf(id, quiz)'
    BY <1>3, <1>4 DEF Offered
  <2>2. quiz # 0 => quiz \in DOMAIN server
    BY <1>1, <1>4 DEF Offered, JobOf
  <2> QED
    BY <1>4, <2>1, <2>2 DEF Offered, ServerGrows
<1> QED
  BY <1>1, <1>2, <1>3, <1>4, <1>5

\* A true queue stays true when the server goes on.
LEMMA QueueKept ==
    ASSUME ServerGrows, NEW q, TrueQueue(q)
    PROVE  TrueQueue(q)'
<1>1. ASSUME NEW id \in DOMAIN q
      PROVE  TrueEntry(id, q[id])'
  BY <1>1, ReachedKept DEF TrueQueue, TrueEntry
<1> QED
  BY <1>1 DEF TrueQueue

\* So does a patch,
LEMMA PatchKept ==
    ASSUME ServerGrows, NEW id, NEW x, TruePatch(id, x)
    PROVE  TruePatch(id, x)'
BY ReachedKept DEF TruePatch

\* a write that waits,
LEMMA WriteKept ==
    ASSUME ServerGrows, NEW c, TrueWrite(c)
    PROVE  TrueWrite(c)'
BY QueueKept, PatchKept DEF TrueWrite

\* and what a screen remembers.
LEMMA FlowKept ==
    ASSUME ServerGrows, NEW r, TrueFlow(r)
    PROVE  TrueFlow(r)'
BY ReachedKept DEF TrueFlow, Paged

\* True changes are noted.
LEMMA NoteTrue ==
    ASSUME WritesOK, ServerGrows, NEW changes, IsSeq(changes), Note(changes),
           \A c \in Elements(changes) : TrueWrite(c)'
    PROVE  WritesOK'
<1> DEFINE w == writes \o changes
<1>1. writes' = w /\ Len(writes) + Len(changes) <= MaxWrites
  BY DEF Note
<1>2. IsSeq(w) /\ Elements(w) \subseteq Elements(writes) \cup Elements(changes) /\ Len(w) = Len(writes) + Len(changes)
  BY SeqConcat DEF WritesOK
<1>3. \A c \in Elements(w) : TrueWrite(c)'
  BY <1>2, WriteKept DEF WritesOK
<1> QED
  BY <1>1, <1>2, <1>3 DEF WritesOK

\* The writes stay true.
LEMMA WritesKept ==
    ASSUME WritesOK, ServerGrows, UNCHANGED writes
    PROVE  WritesOK'
BY WriteKept DEF WritesOK

\* The stored queue stays true.
LEMMA QueueOKKept ==
    ASSUME QueueOK, ServerGrows, UNCHANGED queue
    PROVE  QueueOK'
<1>1. TrueQueue(queue)'
  <2> DEFINE q == queue
  <2>1. TrueQueue(q)
    BY DEF QueueOK
  <2>2. PICK x : x = queue
    OBVIOUS
  <2>3. TrueQueue(x)'
    BY <2>1, <2>2, QueueKept
  <2> QED
    BY <2>2, <2>3 DEF TrueQueue, TrueEntry
<1> QED
  BY <1>1 DEF QueueOK

\* A screen that goes on truly leaves the others true.
LEMMA FlowsKept ==
    ASSUME FlowsOK, ServerGrows, NEW f, NEW r,
           flows' = flows \/ (f \in Flows /\ flows' = [flows EXCEPT ![f] = r] /\ TrueFlow(r)')
    PROVE  FlowsOK'
<1>1. ASSUME NEW g \in Flows, NEW x, x = flows'[g]
      PROVE  TrueFlow(x)'
  <2>1. CASE x = flows[g]
    BY <1>1, <2>1, FlowKept DEF FlowsOK
  <2>2. CASE x # flows[g]
    <3>1. f \in Flows /\ flows' = [flows EXCEPT ![f] = r] /\ TrueFlow(r)'
      BY <1>1, <2>2
    <3>2. x = r
      BY <1>1, <2>2, <3>1 DEF FlowsOK
    <3> QED
      BY <3>1, <3>2
  <2> QED
    BY <2>1, <2>2
<1>2. \A g \in Flows : flows'[g] \in FlowType /\ TrueFlow(flows[g])'
  <2> TAKE g \in Flows
  <2>1. PICK x : x = flows'[g]
    OBVIOUS
  <2>2. TrueFlow(x)'
    BY <1>1, <2>1
  <2>3. x \in FlowType
    BY <2>2 DEF TrueFlow
  <2> QED
    BY <2>1, <2>2, <2>3
<1>3. flows' \in [Flows -> FlowType]
  BY <1>2 DEF FlowsOK
<1> QED
  BY <1>2, <1>3 DEF FlowsOK

\* Polls keep asking for jobs that exist.
LEMMA PollsKept ==
    ASSUME PollsOK, ServerGrows, UNCHANGED polls
    PROVE  PollsOK'
BY ReachedKept DEF PollsOK

\* A step that leaves the server lets it grow by nothing.
LEMMA SameServer ==
    ASSUME ServerOK, UNCHANGED <<server, origin>>, swapped \subseteq swapped'
    PROVE  ServerOK' /\ ServerGrows
BY DEF ServerOK, ServerGrows

\* Nothing needs to have reached the server for no page.
LEMMA NoneReached ==
    ASSUME ServerOK, NEW id, NEW uris, Same(id, uris)
    PROVE  Reached(id, 0)
<1>1. id \in DOMAIN origin /\ origin[id] \in Rolls
  BY DEF Same, ServerOK
<1>2. Len(origin[id]) \in 1..NPages /\ NPages \in Nat
  BY <1>1, PhoneAssumption
<1>3. 0 <= Len(origin[id])
  BY <1>2
<1> QED
  BY <1>1, <1>3 DEF Reached

\* A fresh entry claims nothing but its pages.
LEMMA FreshTrue ==
    ASSUME ServerOK, NEW id, NEW uris \in Rolls, Same(id, uris)
    PROVE  Fresh(uris) \in QueueEntry /\ TrueEntry(id, Fresh(uris))
<1>1. Reached(id, 0)
  BY NoneReached
<1> QED
  BY <1>1, PhoneAssumption DEF Fresh, QueueEntry, Statuses, TrueEntry, JobOf, Offered

\* A true entry stays true under a true patch.
LEMMA PatchedTrue ==
    ASSUME ServerOK, NEW c, TrueWrite(c), c.read, c.op = "update" => c.id \in DOMAIN c.seen
    PROVE  IsQueue(Patched(c)) /\ TrueQueue(Patched(c))
<1>1. /\ c.op \in {"update", "add", "remove"} /\ c.id \in Entries
      /\ IsQueue(c.seen) /\ TrueQueue(c.seen)
  BY DEF TrueWrite
<1>2. \A i \in DOMAIN c.seen : i \in Entries /\ c.seen[i] \in QueueEntry /\ TrueEntry(i, c.seen[i])
  BY <1>1 DEF IsQueue, TrueQueue
<1>4. CASE c.op = "add"
  <2> DEFINE new == Fresh(c.patch.uris)
  <2>2. c.patch.uris \in Rolls /\ Same(c.id, c.patch.uris)
    BY <1>4 DEF TrueWrite, TruePatch
  <2>3. new \in QueueEntry /\ TrueEntry(c.id, new)
    BY <2>2, FreshTrue
  <2>1. /\ DOMAIN Patched(c) = DOMAIN c.seen \cup {c.id}
        /\ \A i \in DOMAIN Patched(c) : Patched(c)[i] = IF i = c.id THEN new ELSE c.seen[i]
    BY <1>4 DEF Patched
  <2> HIDE DEF new
  <2> QED
    BY <1>1, <1>2, <2>1, <2>3 DEF IsQueue, TrueQueue
<1>5. CASE c.op = "remove"
  <2>1. /\ DOMAIN Patched(c) = DOMAIN c.seen \ {c.id}
        /\ \A i \in DOMAIN Patched(c) : Patched(c)[i] = c.seen[i]
    BY <1>5 DEF Patched
  <2> QED
    BY <1>1, <1>2, <2>1 DEF IsQueue, TrueQueue
<1>6. CASE c.op = "update"
  <2> DEFINE old == c.seen[c.id]
             new == [x \in DOMAIN old |-> IF x \in DOMAIN c.patch THEN c.patch[x] ELSE old[x]]
  <2>1. /\ DOMAIN Patched(c) = DOMAIN c.seen
        /\ \A i \in DOMAIN Patched(c) : Patched(c)[i] = IF i = c.id THEN new ELSE c.seen[i]
    BY <1>6 DEF Patched
  <2>2. DOMAIN old = {"status", "uris", "job", "sent", "attempts", "quiz"}
    BY <1>2, <1>6 DEF QueueEntry
  <2>3. /\ new.status = IF "status" \in DOMAIN c.patch THEN c.patch.status ELSE old.status
        /\ new.uris = IF "uris" \in DOMAIN c.patch THEN c.patch.uris ELSE old.uris
        /\ new.job = IF "job" \in DOMAIN c.patch THEN c.patch.job ELSE old.job
        /\ new.sent = IF "sent" \in DOMAIN c.patch THEN c.patch.sent ELSE old.sent
        /\ new.attempts = IF "attempts" \in DOMAIN c.patch THEN c.patch.attempts ELSE old.attempts
        /\ new.quiz = IF "quiz" \in DOMAIN c.patch THEN c.patch.quiz ELSE old.quiz
        /\ new = [status |-> new.status, uris |-> new.uris, job |-> new.job, sent |-> new.sent,
                  attempts |-> new.attempts, quiz |-> new.quiz]
    BY <2>2
  <2>4. TruePatch(c.id, c.patch) /\ old \in QueueEntry /\ TrueEntry(c.id, old)
    BY <1>2, <1>6 DEF TrueWrite
  <2> HIDE DEF new, old
  <2>5. new \in QueueEntry
    BY <2>3, <2>4 DEF TruePatch, QueueEntry
  <2>6. Reached(c.id, new.sent) /\ Same(c.id, new.uris) /\ JobOf(c.id, new.job)
    BY <2>3, <2>4 DEF TruePatch, TrueEntry
  <2>7. Offered(c.id, new.status, new.quiz)
    <3>1. CASE "quiz" \in DOMAIN c.patch
      BY <2>3, <2>4, <3>1 DEF TruePatch
    <3>2. CASE "quiz" \notin DOMAIN c.patch
      BY <2>3, <2>4, <3>2 DEF TruePatch, TrueEntry, Offered
    <3> QED
      BY <3>1, <3>2
  <2> QED
    BY <1>1, <1>2, <2>1, <2>5, <2>6, <2>7 DEF IsQueue, TrueQueue, TrueEntry
<1> QED
  BY <1>1, <1>4, <1>5, <1>6

\* The write of a true patch is true.
LEMMA UpdateTrue ==
    ASSUME NEW by \in Flows \cup {"screen", "nobody"}, NEW id \in Entries, NEW x, TruePatch(id, x)'
    PROVE  TrueWrite(updateUpload(by, id, x))'
BY DEF TrueWrite, updateUpload, Change

\* The read of the stored queue, that starts a write, keeps the invariant.
LEMMA GetStep ==
    ASSUME PhoneInv, getQueuedUploads
    PROVE  PhoneInv'
<1>1. ServerOK' /\ ServerGrows
  BY SameServer DEF getQueuedUploads, PhoneInv
<1>2. PICK c : c = [Head(writes) EXCEPT !.read = TRUE, !.seen = queue]
  OBVIOUS
<1>3. /\ Head(writes) \in Elements(writes)
      /\ IsSeq(Tail(writes)) /\ Elements(Tail(writes)) \subseteq Elements(writes) /\ Len(Tail(writes)) = Len(writes) - 1
  <2>1. PICK s : s = writes
    OBVIOUS
  <2> QED
    BY <2>1, SeqTail DEF PhoneInv, WritesOK, getQueuedUploads
<1>4. TrueWrite(c)
  <2>1. PICK h : h = Head(writes)
    OBVIOUS
  <2>2. TrueWrite(h)
    BY <1>3, <2>1 DEF PhoneInv, WritesOK
  <2>3. /\ c.op = h.op /\ c.id = h.id /\ c.patch = h.patch /\ c.by = h.by /\ c.read = TRUE /\ c.seen = queue
        /\ c = [by |-> c.by, op |-> c.op, id |-> c.id, patch |-> c.patch, read |-> c.read, seen |-> c.seen]
    BY <1>2, <2>1, <2>2 DEF TrueWrite
  <2> QED
    BY <2>2, <2>3 DEF TrueWrite, PhoneInv, QueueOK
<1>5. PICK w : w = writes'
  OBVIOUS
<1>6. IsSeq(w) /\ Elements(w) \subseteq Elements(writes) \cup {c} /\ Len(w) = Len(writes)
  <2>1. PICK t : t = Tail(writes)
    OBVIOUS
  <2>2. w = Append(t, c)
    BY <1>2, <1>5, <2>1 DEF getQueuedUploads
  <2>3. IsSeq(w) /\ Elements(w) \subseteq Elements(t) \cup {c} /\ Len(w) = Len(t) + 1
    BY <1>3, <2>1, <2>2, SeqAppend
  <2>4. Len(writes) \in Nat
    BY DEF PhoneInv, WritesOK, IsSeq
  <2> QED
    BY <1>3, <2>1, <2>3, <2>4
<1>7. \A e \in Elements(w) : TrueWrite(e)'
  BY <1>1, <1>4, <1>6, WriteKept DEF PhoneInv, WritesOK
<1>8. WritesOK'
  BY <1>5, <1>6, <1>7 DEF PhoneInv, WritesOK
<1>9. QueueOK' /\ FlowsOK' /\ PollsOK'
  BY <1>1, QueueOKKept, FlowsKept, PollsKept DEF PhoneInv, getQueuedUploads
<1> QED
  BY <1>1, <1>8, <1>9 DEF PhoneInv

\* The save of a read queue keeps the invariant.
LEMMA SaveStep ==
    ASSUME PhoneInv, saveQueuedUploads
    PROVE  PhoneInv'
<1>1. ServerOK' /\ ServerGrows
  BY SameServer DEF saveQueuedUploads, PhoneInv
<1>2. /\ Head(writes) \in Elements(writes)
      /\ IsSeq(Tail(writes)) /\ Elements(Tail(writes)) \subseteq Elements(writes) /\ Len(Tail(writes)) = Len(writes) - 1
  <2>1. PICK s : s = writes
    OBVIOUS
  <2> QED
    BY <2>1, SeqTail DEF PhoneInv, WritesOK, saveQueuedUploads
<1>3. PICK c : c = Head(writes)
  OBVIOUS
<1>4. PICK q : q = queue'
  OBVIOUS
<1>5. TrueWrite(c) /\ c.read
  BY <1>2, <1>3 DEF PhoneInv, WritesOK, saveQueuedUploads
<1>6. IsQueue(q) /\ TrueQueue(q)
  <2>1. CASE c.op = "update" /\ c.id \notin DOMAIN c.seen
    BY <1>3, <1>4, <2>1 DEF saveQueuedUploads, PhoneInv, QueueOK
  <2>2. CASE ~(c.op = "update" /\ c.id \notin DOMAIN c.seen)
    <3>1. q = Patched(c)
      BY <1>3, <1>4, <2>2 DEF saveQueuedUploads
    <3> QED
      BY <1>5, <2>2, <3>1, PatchedTrue DEF PhoneInv
  <2> QED
    BY <2>1, <2>2
<1>7. QueueOK'
  BY <1>1, <1>4, <1>6, QueueKept DEF QueueOK
<1>8. WritesOK'
  <2>1. PICK w : w = writes'
    OBVIOUS
  <2>2. IsSeq(w) /\ Elements(w) \subseteq Elements(writes) /\ Len(w) = Len(writes) - 1
    BY <1>2, <2>1 DEF saveQueuedUploads
  <2>3. \A e \in Elements(w) : TrueWrite(e)'
    BY <1>1, <2>2, WriteKept DEF PhoneInv, WritesOK
  <2>4. Len(writes) \in Nat
    BY DEF PhoneInv, WritesOK, IsSeq
  <2> QED
    BY <2>1, <2>2, <2>3, <2>4, PhoneAssumption DEF PhoneInv, WritesOK
<1>9. FlowsOK' /\ PollsOK'
  BY <1>1, FlowsKept, PollsKept DEF PhoneInv, saveQueuedUploads
<1> QED
  BY <1>1, <1>7, <1>8, <1>9 DEF PhoneInv

\* The actions of the screens keep the invariant when they note true changes.
LEMMA ScreenStep ==
    ASSUME PhoneInv, EditForm \/ Reconnect
    PROVE  PhoneInv'
<1>1. UNCHANGED <<queue, writes, flows, polls, server, origin, swapped>>
  BY DEF EditForm, Reconnect
<1>2. ServerOK' /\ ServerGrows
  BY <1>1, SameServer DEF PhoneInv
<1> QED
  BY <1>1, <1>2, WritesKept, QueueOKKept, FlowsKept, PollsKept DEF PhoneInv

\* A screen at rest remembers nothing.
LEMMA IdleTrue == TrueFlow(NoFlow) /\ NoFlow \in FlowType
BY PhoneAssumption DEF TrueFlow, Paged, NoFlow, FlowType, Forms, JobOf

\* The start of an upload keeps the invariant: it writes down its pages.
LEMMA StartStep ==
    ASSUME ScanPhoneInv, NEW f \in Flows, NEW id \in Entries, startUpload(f, id)
    PROVE  PhoneInv'
<1>1. UNCHANGED <<queue, writes, polls, server, swapped>> /\ id \notin DOMAIN origin
  BY DEF startUpload
<1>2. PICK form : form = Form
  OBVIOUS
<1>3. form \in Rolls
  BY <1>2 DEF startUpload, Form, ScanPhoneInv, ScreenOK, Forms
<1>4. /\ DOMAIN origin' = DOMAIN origin \cup {id}
      /\ \A i \in DOMAIN origin' : origin'[i] = IF i = id THEN form ELSE origin[i]
  BY <1>2 DEF startUpload
<1>5. ServerOK' /\ ServerGrows
  BY <1>1, <1>3, <1>4 DEF ScanPhoneInv, PhoneInv, ServerOK, ServerGrows
<1>6. PICK r : r = [NoFlow EXCEPT !.pc = "check", !.id = id, !.new = TRUE, !.form = form, !.uris = form]
  OBVIOUS
<1>7. r = [pc |-> "check", id |-> id, new |-> TRUE, handler |-> 0, form |-> form, uris |-> form, job |-> 0,
           sent |-> 0, attempts |-> 0, page |-> 0]
  BY <1>6 DEF NoFlow
<1>8. r \in FlowType
  <2>1. NPages \in Nat /\ NUploads \in Nat /\ id \in 0..NUploads
    BY PhoneAssumption DEF Entries
  <2> QED
    BY <1>3, <1>7, <2>1 DEF FlowType, Forms
<1>9. flows' = [flows EXCEPT ![f] = r]
  BY <1>2, <1>6 DEF startUpload
<1>10. Same(id, form)'
  <2>1. id \in DOMAIN origin' /\ origin'[id] = form
    BY <1>4
  <2> QED
    BY <2>1 DEF Same
<1>11. Reached(id, 0)'
  <2>1. Len(form) \in 1..NPages /\ NPages \in Nat
    BY <1>3, PhoneAssumption
  <2>2. 0 <= Len(origin'[id]) /\ id \in DOMAIN origin'
    BY <1>4, <2>1
  <2> QED
    BY <2>2 DEF Reached
<1>12. TrueFlow(r)'
  <2>1. /\ r.pc = "check" /\ r.id = id /\ r.form = form /\ r.uris = form /\ r.job = 0 /\ r.sent = 0
    BY <1>7
  <2> QED
    BY <1>3, <1>8, <1>10, <1>11, <2>1 DEF TrueFlow, Paged, JobOf
<1> QED
  BY <1>1, <1>5, <1>9, <1>12, WritesKept, QueueOKKept, FlowsKept, PollsKept DEF ScanPhoneInv, PhoneInv

\* The start of a retry keeps the invariant.
LEMMA RetryStep ==
    ASSUME ScanPhoneInv, NEW f \in Flows, NEW id \in Entries, retryUpload(f, id)
    PROVE  PhoneInv'
<1>1. UNCHANGED <<queue, writes, polls, server, origin, swapped>>
  BY DEF retryUpload
<1>2. ServerOK' /\ ServerGrows
  BY <1>1, SameServer DEF ScanPhoneInv, PhoneInv
<1>3. PICK form : form = Form
  OBVIOUS
<1>4. form \in Forms
  BY <1>3 DEF Form, ScanPhoneInv, ScreenOK, Forms
<1>5. PICK h \in 0 .. Len(due) :
        flows' = [flows EXCEPT ![f] = [NoFlow EXCEPT !.pc = "look", !.id = id, !.handler = h, !.form = Form]]
  BY DEF retryUpload
<1>6. h \in Nat
  BY <1>5 DEF ScanPhoneInv, ScreenOK
<1>7. PICK r : r = [NoFlow EXCEPT !.pc = "look", !.id = id, !.handler = h, !.form = form]
  OBVIOUS
<1>8. r = [pc |-> "look", id |-> id, new |-> FALSE, handler |-> h, form |-> form, uris |-> <<>>, job |-> 0,
           sent |-> 0, attempts |-> 0, page |-> 0]
  BY <1>7 DEF NoFlow
<1>9. r \in FlowType
  <2>1. NPages \in Nat /\ NUploads \in Nat /\ id \in 0..NUploads
    BY PhoneAssumption DEF Entries
  <2> QED
    BY <1>4, <1>6, <1>8, <2>1 DEF FlowType, Forms
<1>10. flows' = [flows EXCEPT ![f] = r]
  BY <1>3, <1>5, <1>7
<1>11. TrueFlow(r)'
  <2>1. r.pc = "look" /\ r.id = id /\ r.new = FALSE /\ r.job = 0
    BY <1>8
  <2> QED
    BY <1>9, <2>1 DEF TrueFlow, Paged, JobOf
<1> QED
  BY <1>1, <1>2, <1>10, <1>11, WritesKept, QueueOKKept, FlowsKept, PollsKept DEF ScanPhoneInv, PhoneInv

\* The flow, its id and its job.
LEMMA FlowFacts ==
    ASSUME PhoneInv, NEW f \in Flows
    PROVE  flows[f] \in FlowType /\ TrueFlow(flows[f]) /\ (flows[f].pc # "idle" => flows[f].id \in Entries)
BY DEF PhoneInv, FlowsOK, TrueFlow

\* The look-up of the entry keeps the invariant.
LEMMA LookUpStep ==
    ASSUME PhoneInv, NEW f \in Flows, LookUp(f)
    PROVE  PhoneInv'
<1>1. UNCHANGED <<queue, polls, server, origin, swapped>>
  BY DEF LookUp
<1>2. ServerOK' /\ ServerGrows
  BY <1>1, SameServer DEF PhoneInv
<1>3. PICK o : o = flows[f]
  OBVIOUS
<1>4. o \in FlowType /\ TrueFlow(o) /\ o.id \in Entries /\ o.pc = "look"
  BY <1>3, FlowFacts DEF LookUp
<1>5. CASE o.id \notin DOMAIN queue
  <2>1. flows' = [flows EXCEPT ![f] = NoFlow] /\ UNCHANGED writes
    BY <1>3, <1>5 DEF LookUp
  <2>2. TrueFlow(NoFlow)'
    BY <1>2, IdleTrue, FlowKept DEF NoFlow
  <2> QED
    BY <1>1, <1>2, <2>1, <2>2, WritesKept, QueueOKKept, FlowsKept, PollsKept DEF PhoneInv
<1>6. CASE o.id \in DOMAIN queue
  <2>1. PICK e : e = queue[o.id]
    OBVIOUS
  <2>2. e \in QueueEntry /\ TrueEntry(o.id, e)
    BY <1>6, <2>1 DEF PhoneInv, QueueOK, IsQueue, TrueQueue
  <2>3. PICK r : r = [o EXCEPT !.pc = "check", !.job = e.job]
    OBVIOUS
  <2>4. PICK x : x = [status |-> "queued", sent |-> e.sent]
    OBVIOUS
  <2>5. flows' = [flows EXCEPT ![f] = r] /\ Note(<<updateUpload(f, o.id, x)>>)
    BY <1>3, <1>6, <2>1, <2>3, <2>4 DEF LookUp, PhoneInv, FlowsOK
  <2>6. TrueFlow(r)
    <3>1. /\ r \in FlowType /\ r.pc = "check" /\ r.id = o.id /\ r.new = o.new /\ r.job = e.job
      BY <1>4, <2>2, <2>3 DEF FlowType, QueueEntry
    <3> QED
      BY <1>4, <2>2, <3>1 DEF TrueFlow, Paged, TrueEntry
  <2>7. TruePatch(o.id, x)
    BY <2>2, <2>4 DEF TruePatch, QueueEntry, TrueEntry, Statuses
  <2>8. TrueFlow(r)' /\ TruePatch(o.id, x)'
    BY <1>2, <2>6, <2>7, FlowKept, PatchKept
  <2>9. TrueWrite(updateUpload(f, o.id, x))'
    BY <1>4, <2>8, UpdateTrue
  <2>10. WritesOK'
    BY <1>2, <2>5, <2>9, NoteTrue, SeqOne DEF PhoneInv
  <2> QED
    BY <1>1, <1>2, <2>5, <2>8, <2>10, QueueOKKept, FlowsKept, PollsKept DEF PhoneInv
<1> QED
  BY <1>5, <1>6

\* The check of the connection keeps the invariant.
LEMMA CheckStep ==
    ASSUME PhoneInv, NEW f \in Flows, Check(f)
    PROVE  PhoneInv'
<1>1. UNCHANGED <<queue, polls, server, origin, swapped>>
  BY DEF Check
<1>2. ServerOK' /\ ServerGrows
  BY <1>1, SameServer DEF PhoneInv
<1>3. PICK o : o = flows[f]
  OBVIOUS
<1>4. o \in FlowType /\ TrueFlow(o) /\ o.id \in Entries /\ o.pc = "check"
  BY <1>3, FlowFacts DEF Check
<1>5. PICK r : flows' = [flows EXCEPT ![f] = r] /\ TrueFlow(r)
  <2>1. CASE flows' = [flows EXCEPT ![f] = NoFlow]
    BY <2>1, IdleTrue
  <2>2. CASE flows' # [flows EXCEPT ![f] = NoFlow]
    <3>1. PICK pc \in {"job", "find"} : /\ flows' = [flows EXCEPT ![f].pc = pc]
                                       /\ o.form # <<>> /\ (pc = "job" => o.new)
      BY <1>3, <2>2 DEF Check, To
    <3>2. PICK r : r = [o EXCEPT !.pc = pc]
      OBVIOUS
    <3>4. /\ r \in FlowType /\ r.pc = pc /\ r.id = o.id /\ r.new = o.new /\ r.form = o.form /\ r.uris = o.uris
          /\ r.job = o.job /\ r.sent = o.sent
      BY <1>4, <3>1, <3>2 DEF FlowType
    <3>5. o.form \in Rolls
      BY <1>4, <3>1 DEF FlowType, Forms
    <3>3. TrueFlow(r)
      BY <1>4, <3>1, <3>4, <3>5 DEF TrueFlow, Paged
    <3> QED
      BY <1>3, <3>1, <3>2, <3>3 DEF PhoneInv, FlowsOK
  <2> QED
    BY <2>1, <2>2
<1>6. TrueFlow(r)'
  BY <1>2, <1>5, FlowKept
<1>7. WritesOK'
  <2>1. CASE UNCHANGED writes
    BY <1>2, <2>1, WritesKept DEF PhoneInv
  <2>2. CASE o.new /\ Note(<<enqueueUpload(f, o.id, o.form)>>)
    <3>2. PICK x : x = [uris |-> o.form]
      OBVIOUS
    <3>3. TruePatch(o.id, x)'
      <4>1. TrueFlow(o)'
        BY <1>2, <1>4, FlowKept
      <4> QED
        BY <1>4, <2>2, <3>2, <4>1 DEF TruePatch, TrueFlow, Paged
    <3>1. TrueWrite(enqueueUpload(f, o.id, o.form))'
      BY <1>4, <3>2, <3>3 DEF TrueWrite, enqueueUpload, Change
    <3> QED
      BY <1>2, <2>2, <3>1, NoteTrue, SeqOne DEF PhoneInv
  <2> QED
    BY <1>3, <2>1, <2>2 DEF Check
<1> QED
  BY <1>1, <1>2, <1>5, <1>6, <1>7, QueueOKKept, FlowsKept, PollsKept DEF PhoneInv

\* The look for an entry to resume keeps the invariant.
LEMMA FindEntryStep ==
    ASSUME PhoneInv, NEW f \in Flows, FindEntry(f)
    PROVE  PhoneInv'
<1>1. UNCHANGED <<queue, polls, server, origin>> /\ swapped \subseteq swapped'
  BY DEF FindEntry
<1>2. ServerOK' /\ ServerGrows
  BY <1>1, SameServer DEF PhoneInv
<1>3. PICK o : o = flows[f]
  OBVIOUS
<1>4. o \in FlowType /\ TrueFlow(o) /\ o.id \in Entries /\ o.pc = "find"
  BY <1>3, FlowFacts DEF FindEntry
<1>5. CASE o.id \notin DOMAIN queue
  <2>1. flows' = [flows EXCEPT ![f] = NoFlow] /\ UNCHANGED writes
    BY <1>3, <1>5 DEF FindEntry
  <2>2. TrueFlow(NoFlow)'
    BY <1>2, IdleTrue, FlowKept DEF NoFlow
  <2> QED
    BY <1>1, <1>2, <2>1, <2>2, WritesKept, QueueOKKept, FlowsKept, PollsKept DEF PhoneInv
<1>6. CASE o.id \in DOMAIN queue
  <2>1. PICK e : e = queue[o.id]
    OBVIOUS
  <2>2. e \in QueueEntry /\ TrueEntry(o.id, e)
    BY <1>6, <2>1 DEF PhoneInv, QueueOK, IsQueue, TrueQueue
  <2>3. PICK r : r = [o EXCEPT !.pc = "job", !.uris = e.uris, !.sent = e.sent, !.attempts = e.attempts,
                               !.job = IF o.job # 0 THEN o.job ELSE e.job]
    OBVIOUS
  <2>4. PICK x : x = [status |-> "uploading", uris |-> o.form]
    OBVIOUS
  <2>5. flows' = [flows EXCEPT ![f] = r] /\ Note(<<updateUpload(f, o.id, x)>>)
    <3>1. PICK z : z = [flows[f] EXCEPT !.pc = "job", !.uris = queue[flows[f].id].uris, !.sent = queue[flows[f].id].sent,
                          !.attempts = queue[flows[f].id].attempts,
                          !.job = IF flows[f].job # 0 THEN flows[f].job ELSE queue[flows[f].id].job]
      OBVIOUS
    <3>2. flows' = [flows EXCEPT ![f] = z] /\ Note(<<updateUpload(f, flows[f].id, [status |-> "uploading", uris |-> flows[f].form])>>)
      BY <1>3, <1>6, <3>1 DEF FindEntry
    <3>3. z = r
      BY <1>3, <1>4, <2>1, <2>3, <3>1 DEF FlowType
    <3> QED
      BY <1>3, <2>4, <3>2, <3>3
  <2>6. TrueEntry(o.id, e)' /\ TrueFlow(o)'
    BY <1>2, <1>4, <2>2, ReachedKept, FlowKept DEF TrueEntry
  <2>7. o.form \in Rolls /\ Same(o.id, o.form)'
    <3>1. swapped' = IF o.form = e.uris THEN swapped ELSE swapped \cup {o.id}
      BY <1>3, <1>6, <2>1 DEF FindEntry
    <3>2. Same(o.id, e.uris)'
      BY <2>6 DEF TrueEntry
    <3> QED
      BY <1>4, <3>1, <3>2 DEF TrueFlow, Same
  <2>8. TrueFlow(r)' /\ TruePatch(o.id, x)'
    <3>1. /\ r \in FlowType /\ r.pc = "job" /\ r.id = o.id /\ r.form = o.form /\ r.uris = e.uris /\ r.sent = e.sent
          /\ r.job = IF o.job # 0 THEN o.job ELSE e.job
      BY <1>4, <2>2, <2>3 DEF FlowType, QueueEntry, Forms
    <3>2. TrueFlow(r)'
      BY <1>4, <2>2, <2>6, <2>7, <3>1 DEF TrueFlow, Paged, QueueEntry, TrueEntry
    <3>3. TruePatch(o.id, x)'
      BY <2>4, <2>7 DEF TruePatch, Statuses
    <3> QED
      BY <3>2, <3>3
  <2>9. TrueWrite(updateUpload(f, o.id, x))'
    BY <1>4, <2>8, UpdateTrue
  <2>10. WritesOK'
    BY <1>2, <2>5, <2>9, NoteTrue, SeqOne DEF PhoneInv
  <2> QED
    BY <1>1, <1>2, <2>5, <2>8, <2>10, QueueOKKept, FlowsKept, PollsKept DEF PhoneInv
<1> QED
  BY <1>5, <1>6

\* A new job of the server is added to those there are.
LEMMA JobAdded ==
    ASSUME ServerOK, NEW job \in ServerJob, job.status = "uploading", server' = Append(server, job),
           UNCHANGED <<origin, swapped>>
    PROVE  /\ ServerOK' /\ ServerGrows
           /\ Len(server') \in Nat \ {0} /\ Len(server') \in Jobs(job.for)'
<1>1. /\ server \in Seq(ServerJob) /\ Len(server) \in Nat /\ DOMAIN server = 1..Len(server)
      /\ server' \in Seq(ServerJob) /\ Len(server') = Len(server) + 1 /\ DOMAIN server' = 1 .. Len(server) + 1
      /\ \A j \in DOMAIN server' : server'[j] = IF j = Len(server) + 1 THEN job ELSE server[j]
  BY DEF ServerOK
<1> QED
  BY <1>1 DEF ServerOK, ServerGrows, Jobs

\* Caught, for any step that may also change the server.
LEMMA CaughtStep ==
    ASSUME PhoneInv, NEW f \in Flows, flows[f].pc # "idle", Caught(f), ServerOK', ServerGrows, UNCHANGED <<queue, polls>>
    PROVE  PhoneInv'
<1>1. PICK o : o = flows[f]
  OBVIOUS
<1>2. o \in FlowType /\ TrueFlow(o) /\ o.id \in Entries
  BY <1>1, FlowFacts
<1>3. PICK r : r = [o EXCEPT !.pc = "caught"]
  OBVIOUS
<1>4. PICK x : x = [status |-> "failed", attempts |-> o.attempts + 1]
  OBVIOUS
<1>5. flows' = [flows EXCEPT ![f] = r] /\ Note(<<updateUpload(f, o.id, x)>>)
  BY <1>1, <1>3, <1>4 DEF Caught, To
<1>6. TrueFlow(r)
  <2>1. r \in FlowType /\ r.pc = "caught" /\ r.id = o.id /\ r.job = o.job
    BY <1>2, <1>3 DEF FlowType
  <2> QED
    BY <1>2, <2>1 DEF TrueFlow, Paged
<1>7. TruePatch(o.id, x)
  BY <1>2, <1>4 DEF TruePatch, FlowType, Statuses
<1>8. TrueFlow(r)' /\ TruePatch(o.id, x)'
  BY <1>6, <1>7, FlowKept, PatchKept
<1>9. WritesOK'
  BY <1>2, <1>5, <1>8, UpdateTrue, NoteTrue, SeqOne DEF PhoneInv
<1> QED
  BY <1>5, <1>8, <1>9, QueueOKKept, FlowsKept, PollsKept DEF PhoneInv

\* The creation of a job keeps the invariant.
LEMMA CreateJobStep ==
    ASSUME PhoneInv, NEW f \in Flows, CreateJob(f)
    PROVE  PhoneInv'
<1>1. UNCHANGED <<queue, polls, origin, swapped>>
  BY DEF CreateJob
<1>2. PICK o : o = flows[f]
  OBVIOUS
<1>3. o \in FlowType /\ TrueFlow(o) /\ o.id \in Entries /\ o.pc = "job"
  BY <1>2, FlowFacts DEF CreateJob
<1>4. PICK new : new = NewJob(f)
  OBVIOUS
<1>11. o.form \in Rolls /\ Same(o.id, o.form) /\ Len(o.form) \in Nat
  <2>1. o.form \in Rolls /\ Same(o.id, o.form)
    BY <1>3 DEF TrueFlow, Paged
  <2>2. o.form \in Seq(Pictures)
    BY <2>1, PhoneAssumption
  <2> QED
    BY <2>1, <2>2
<1>5. new \in ServerJob /\ new.status = "uploading" /\ new.for = o.id
  BY <1>2, <1>3, <1>4, <1>11 DEF NewJob, ServerJob
<1>6. /\ server' = Append(server, new)
         => ServerOK' /\ ServerGrows /\ Len(server') \in Nat \ {0} /\ Len(server') \in Jobs(o.id)'
      /\ UNCHANGED server => ServerOK' /\ ServerGrows
  BY <1>1, <1>5, JobAdded, SameServer DEF PhoneInv
<1>7. ASSUME NEW pc \in {"begin", "caught"}, NEW job \in Nat, JobOf(o.id, job)', pc = "begin" => job # 0, ServerGrows
      PROVE  TrueFlow([o EXCEPT !.pc = pc, !.job = job])'
  <2>1. TrueFlow(o)'
    BY <1>3, <1>7, FlowKept
  <2>2. PICK r : r = [o EXCEPT !.pc = pc, !.job = job]
    OBVIOUS
  <2>4. /\ r \in FlowType /\ r.pc = pc /\ r.job = job /\ r.id = o.id /\ r.new = o.new /\ r.form = o.form
        /\ r.uris = o.uris /\ r.sent = o.sent
    BY <1>3, <1>7, <2>2 DEF FlowType
  <2>3. TrueFlow(r)'
    BY <1>3, <1>7, <2>1, <2>4 DEF TrueFlow, Paged
  <2> QED
    BY <2>2, <2>3
<1>8. CASE o.job # 0 /\ To(f, "begin") /\ UNCHANGED <<writes, server>>
  <2>1. PICK r : r = [o EXCEPT !.pc = "begin"]
    OBVIOUS
  <2>2. TrueFlow(r)
    <3>1. /\ r \in FlowType /\ r.pc = "begin" /\ r.job = o.job /\ r.id = o.id /\ r.new = o.new /\ r.form = o.form
          /\ r.uris = o.uris /\ r.sent = o.sent
      BY <1>3, <2>1 DEF FlowType
    <3> QED
      BY <1>3, <1>8, <3>1 DEF TrueFlow, Paged
  <2>3. TrueFlow(r)'
    BY <1>6, <1>8, <2>2, FlowKept
  <2>4. flows' = [flows EXCEPT ![f] = r]
    BY <1>2, <1>8, <2>1 DEF To
  <2> QED
    BY <1>1, <1>6, <1>8, <2>3, <2>4, WritesKept, QueueOKKept, FlowsKept, PollsKept DEF PhoneInv
<1>9. CASE /\ o.job = 0 /\ server' = Append(server, new)
           /\ flows' = [flows EXCEPT ![f].pc = "begin", ![f].job = Len(server')]
           /\ Note(<<updateUpload(f, o.id, [job |-> Len(server'), uris |-> o.form])>>)
  <2>1. PICK n : n = Len(server')
    OBVIOUS
  <2>2. PICK r : r = [o EXCEPT !.pc = "begin", !.job = n]
    OBVIOUS
  <2>3. PICK x : x = [job |-> n, uris |-> o.form]
    OBVIOUS
  <2>4. n \in Nat \ {0} /\ JobOf(o.id, n)'
    BY <1>6, <1>9, <2>1 DEF JobOf
  <2>5. TrueFlow(r)'
    BY <1>6, <1>7, <1>9, <2>2, <2>4
  <2>6. flows' = [flows EXCEPT ![f] = r]
    BY <1>2, <1>3, <1>9, <2>1, <2>2 DEF PhoneInv, FlowsOK, FlowType
  <2>7. TruePatch(o.id, x)'
    <3>1. Same(o.id, o.form)'
      BY <1>6, <1>9, <1>11, ReachedKept
    <3> QED
      BY <1>11, <2>3, <2>4, <3>1 DEF TruePatch
  <2>8. TrueWrite(updateUpload(f, o.id, x))'
    BY <1>3, <2>7, UpdateTrue
  <2>9. WritesOK'
    BY <1>6, <1>9, <2>1, <2>3, <2>8, NoteTrue, SeqOne DEF PhoneInv
  <2> QED
    BY <1>1, <1>6, <1>9, <2>5, <2>6, <2>9, QueueOKKept, FlowsKept, PollsKept DEF PhoneInv
<1>10. CASE Caught(f) /\ (UNCHANGED server \/ server' = Append(server, new))
  BY <1>1, <1>2, <1>3, <1>6, <1>10, CaughtStep
<1> QED
  BY <1>2, <1>4, <1>8, <1>9, <1>10 DEF CreateJob

\* When n pages have reached the server, fewer have.
LEMMA FewerReached ==
    ASSUME ServerOK, NEW id, NEW n \in Nat, NEW m \in Int, m <= n, Reached(id, n)
    PROVE  Reached(id, m)
<1>1. id \in DOMAIN origin /\ origin[id] \in Rolls
  BY DEF Reached, ServerOK
<1>2. Len(origin[id]) \in Nat
  <2>1. origin[id] \in Seq(Pictures)
    BY <1>1, PhoneAssumption
  <2> QED
    BY <2>1
<1>3. PICK len : len = Len(origin[id])
  OBVIOUS
<1>4. id \in swapped \/ m <= len
  BY <1>2, <1>3 DEF Reached
<1>5. \A p \in 1..m : p \in 1..n
  OBVIOUS
<1> QED
  BY <1>1, <1>3, <1>4, <1>5 DEF Reached

\* The begin of the pages keeps the invariant.
LEMMA BeginStep ==
    ASSUME PhoneInv, NEW f \in Flows, BeginPages(f)
    PROVE  PhoneInv'
<1>1. UNCHANGED <<queue, polls, server, origin, swapped>>
  BY DEF BeginPages
<1>2. ServerOK' /\ ServerGrows
  BY <1>1, SameServer DEF PhoneInv
<1>3. PICK o : o = flows[f]
  OBVIOUS
<1>4. o \in FlowType /\ TrueFlow(o) /\ o.id \in Entries /\ o.pc = "begin" /\ o.job # 0
  BY <1>3, FlowFacts DEF BeginPages, TrueFlow
<1>14. PICK n : n = Len(o.uris)
  OBVIOUS
<1>15. n \in 1..NPages /\ NPages \in Nat
  <2>1. o.uris \in Rolls
    BY <1>4 DEF TrueFlow, Paged
  <2> QED
    BY <1>14, <2>1, PhoneAssumption
<1>5. PICK p : p = FirstPage(o.sent, n)
  OBVIOUS
<1>6. p \in 1..n /\ p \in 0..NPages /\ p - 1 <= o.sent
  <2>1. o.sent \in 0..NPages /\ n \in Nat \ {0} /\ n <= NPages
    BY <1>4, <1>15 DEF FlowType
  <2>2. PICK m : m = Min({o.sent, n - 1})
    OBVIOUS
  <2>3. m \in {o.sent, n - 1} /\ m <= o.sent /\ m <= n - 1
    <3>1. o.sent \in Int /\ n - 1 \in Int
      BY <2>1
    <3> QED
      BY <2>2, <3>1, TwoLeast
  <2>4. Max({0, m}) = m
    <3>1. m \in Int /\ m >= 0
      BY <2>1, <2>3
    <3>2. Max({0, m}) \in {0, m} /\ Max({0, m}) >= 0 /\ Max({0, m}) >= m
      BY <3>1, TwoMost
    <3> QED
      BY <3>1, <3>2
  <2> QED
    BY <1>5, <1>15, <2>1, <2>2, <2>3, <2>4 DEF FirstPage
<1>7. PICK r : r = [o EXCEPT !.pc = "pages", !.page = p]
  OBVIOUS
<1>8. PICK x : x = [status |-> "uploading"]
  OBVIOUS
<1>9. flows' = [flows EXCEPT ![f] = r] /\ Note(<<updateUpload(f, o.id, x)>>)
  <2>1. /\ flows' = [flows EXCEPT ![f].pc = "pages", ![f].page = p]
        /\ Note(<<updateUpload(f, o.id, x)>>)
    BY <1>3, <1>5, <1>8, <1>14 DEF BeginPages
  <2>2. flows' = [flows EXCEPT ![f] = r]
    BY <1>3, <1>4, <1>7, <2>1 DEF PhoneInv, FlowsOK, FlowType
  <2> QED
    BY <2>1, <2>2
<1>10. TrueFlow(r)
  <2>1. /\ r \in FlowType /\ r.id = o.id /\ r.job = o.job /\ r.sent = o.sent /\ r.page = p /\ r.pc = "pages"
        /\ r.form = o.form /\ r.uris = o.uris
    BY <1>4, <1>6, <1>7 DEF FlowType
  <2>2. Reached(o.id, p - 1)
    <3>1. o.sent \in Nat /\ p \in Nat \ {0}
      BY <1>4, <1>6, <1>15 DEF FlowType
    <3>2. Reached(o.id, o.sent)
      BY <1>4 DEF TrueFlow, Paged
    <3> QED
      BY <1>6, <3>1, <3>2, FewerReached DEF PhoneInv
  <2> QED
    BY <1>4, <1>6, <1>14, <2>1, <2>2 DEF TrueFlow, Paged
<1>11. TruePatch(o.id, x)
  BY <1>8 DEF TruePatch, Statuses
<1>12. TrueFlow(r)' /\ TruePatch(o.id, x)'
  BY <1>2, <1>10, <1>11, FlowKept, PatchKept
<1>13. WritesOK'
  BY <1>2, <1>4, <1>9, <1>12, UpdateTrue, NoteTrue, SeqOne DEF PhoneInv
<1> QED
  BY <1>1, <1>2, <1>9, <1>12, <1>13, QueueOKKept, FlowsKept, PollsKept DEF PhoneInv

\* A page that the server takes has reached it.
LEMMA PageTaken ==
    ASSUME PhoneInv, NEW f \in Flows, NEW o, o = flows[f], o.pc = "pages", NEW queues, server' = Received(f, queues),
           UNCHANGED <<origin, swapped>>
    PROVE  /\ ServerOK' /\ ServerGrows
           /\ Reached(o.id, o.page)'
<1>1. o \in FlowType /\ TrueFlow(o) /\ o.id \in Entries /\ o.job # 0
  BY FlowFacts DEF TrueFlow
<1>2. /\ o.job \in DOMAIN server /\ server[o.job].for = o.id /\ o.page \in 1..Len(o.uris) /\ Reached(o.id, o.page - 1)
      /\ o.uris \in Rolls /\ Same(o.id, o.uris)
  BY <1>1 DEF TrueFlow, Paged, JobOf, Jobs
<1>3. server \in Seq(ServerJob)
  BY DEF PhoneInv, ServerOK
<1>4. PICK was : was = server[o.job]
  OBVIOUS
<1>5. was \in ServerJob
  BY <1>2, <1>3, <1>4, ElementOfSeq
<1>13. PICK page : page = [no |-> o.page, uri |-> o.uris[o.page]]
  OBVIOUS
<1>14. page \in [no : Nat, uri : Pictures] /\ o.page \in Nat /\ o.page \in 1..Len(o.uris)
  <2>1. o.uris \in Seq(Pictures)
    BY <1>2, PhoneAssumption
  <2>2. Len(o.uris) \in Nat
    BY <2>1
  <2>3. o.uris[o.page] \in Pictures /\ o.page \in Nat
    BY <1>2, <2>1, <2>2
  <2> QED
    BY <1>2, <1>13, <2>3
<1>15. PICK pages : pages = was.pages \cup {page}
  OBVIOUS
<1>16. PICK status \in {"pending", was.status} : server' = [server EXCEPT ![o.job].pages = pages, ![o.job].status = status]
  <2>1. PICK ready : ready = (\A no \in 1 .. server[o.job].rows : \E x \in pages : x.no = no)
    OBVIOUS
  <2>2. PICK status : status = IF ready /\ queues THEN "pending" ELSE was.status
    OBVIOUS
  <2>3. server' = [server EXCEPT ![o.job].pages = pages, ![o.job].status = IF ready /\ queues THEN "pending" ELSE @]
    BY <1>4, <1>13, <1>15, <2>1 DEF Received
  <2>4. server' = [server EXCEPT ![o.job].pages = pages, ![o.job].status = status]
    BY <1>3, <1>2, <1>4, <1>5, <2>2, <2>3 DEF ServerJob
  <2> QED
    BY <2>2, <2>4, Zenon
<1>6. PICK is : is = [was EXCEPT !.pages = pages, !.status = status]
  OBVIOUS
<1>7. /\ is \in ServerJob /\ is.for = was.for /\ is.quiz = was.quiz /\ is.pages = pages
      /\ is.status \in {"pending", was.status}
  BY <1>5, <1>6, <1>14, <1>15, <1>16 DEF ServerJob
<1>8. server' = [server EXCEPT ![o.job] = is]
  BY <1>2, <1>3, <1>4, <1>5, <1>6, <1>16 DEF ServerJob
<1>9. /\ server' \in Seq(ServerJob) /\ DOMAIN server' = DOMAIN server
      /\ \A j \in DOMAIN server : server'[j] = IF j = o.job THEN is ELSE server[j]
  BY <1>2, <1>3, <1>7, <1>8
<1>10. ServerOK'
  BY <1>4, <1>7, <1>9 DEF PhoneInv, ServerOK
<1>11. ServerGrows
  BY <1>4, <1>7, <1>9, <1>15 DEF ServerGrows
<1>12. Reached(o.id, o.page)'
  <2>1. Reached(o.id, o.page - 1)'
    BY <1>2, <1>11, ReachedKept
  <2>2. o.job \in Jobs(o.id)' /\ page \in server'[o.job].pages
    BY <1>2, <1>4, <1>7, <1>9, <1>15 DEF Jobs
  <2>3. \A p \in 1..o.page : p \in 1 .. o.page - 1 \/ p = o.page
    BY <1>14
  <2>4. o.id \in swapped \/ o.uris = origin[o.id]
    BY <1>2 DEF Same
  <2>5. Arrived(o.id, o.page)'
    BY <1>13, <2>2, <2>4 DEF Arrived
  <2>6. o.id \in swapped \/ o.page <= Len(origin[o.id])
    BY <1>14, <2>4
  <2> QED
    BY <2>1, <2>3, <2>5, <2>6 DEF Reached
<1> QED
  BY <1>10, <1>11, <1>12

\* The progress noted after a page is true.
LEMMA ProgressTrue ==
    ASSUME NEW id \in Entries, NEW page \in 0..NPages, Reached(id, page)'
    PROVE  /\ TrueWrite(updateUpload("nobody", id, [sent |-> page]))'
           /\ TrueWrite(updateUpload("nobody", id, [status |-> "uploading"]))'
<1>1. PICK x : x = [sent |-> page]
  OBVIOUS
<1>2. PICK y : y = [status |-> "uploading"]
  OBVIOUS
<1>3. TruePatch(id, x)' /\ TruePatch(id, y)'
  BY <1>1, <1>2 DEF TruePatch, Statuses
<1> QED
  BY <1>1, <1>2, <1>3, UpdateTrue

\* The upload of a page keeps the invariant.
LEMMA UploadPageStep ==
    ASSUME PhoneInv, NEW f \in Flows, UploadPage(f)
    PROVE  PhoneInv'
<1>1. UNCHANGED <<queue, polls, origin, swapped>>
  BY DEF UploadPage
<1>2. PICK o : o = flows[f]
  OBVIOUS
<1>3. /\ o \in FlowType /\ TrueFlow(o) /\ o.id \in Entries /\ o.pc = "pages" /\ o.job # 0
      /\ o.uris \in Rolls
  BY <1>2, FlowFacts DEF UploadPage, TrueFlow, Paged
<1>10. PICK n : n = Len(o.uris)
  OBVIOUS
<1>11. n \in 1..NPages /\ NPages \in Nat /\ o.page \in 1..n /\ o.page \in 0..NPages
  <2>1. n \in 1..NPages /\ NPages \in Nat
    BY <1>3, <1>10, PhoneAssumption
  <2>2. o.page \in 1..n
    BY <1>3, <1>10 DEF TrueFlow
  <2> QED
    BY <2>1, <2>2
<1>4. CASE Caught(f) /\ (UNCHANGED server \/ server' = Received(f, TRUE))
  <2>1. ServerOK' /\ ServerGrows
    BY <1>1, <1>2, <1>3, <1>4, PageTaken, SameServer DEF PhoneInv
  <2> QED
    BY <1>1, <1>2, <1>3, <1>4, <2>1, CaughtStep
<1>5. PICK a : a = updateUpload("nobody", o.id, [sent |-> o.page])
  OBVIOUS
<1>6. PICK b : b = updateUpload("nobody", o.id, [status |-> "uploading"])
  OBVIOUS
<1>7. Progress(f) = <<a, b>>
  BY <1>2, <1>5, <1>6 DEF Progress
<1>8. ASSUME NEW queues \in BOOLEAN, server' = Received(f, queues), o.page < n,
             Note(Progress(f)), flows' = [flows EXCEPT ![f].page = @ + 1]
      PROVE  PhoneInv'
  <2>1. ServerOK' /\ ServerGrows /\ Reached(o.id, o.page)'
    BY <1>1, <1>2, <1>3, <1>8, PageTaken
  <2>2. TrueWrite(a)' /\ TrueWrite(b)'
    BY <1>3, <1>5, <1>6, <1>11, <2>1, ProgressTrue
  <2>3. WritesOK'
    BY <1>7, <1>8, <2>1, <2>2, NoteTrue, SeqTwo DEF PhoneInv
  <2>4. PICK r : r = [o EXCEPT !.page = o.page + 1]
    OBVIOUS
  <2>5. flows' = [flows EXCEPT ![f] = r]
    BY <1>2, <1>3, <1>8, <2>4 DEF PhoneInv, FlowsOK, FlowType
  <2>6. /\ r \in FlowType /\ r.id = o.id /\ r.job = o.job /\ r.sent = o.sent /\ r.pc = "pages"
        /\ r.form = o.form /\ r.uris = o.uris /\ r.page \in 1..n /\ r.page - 1 = o.page
    BY <1>3, <1>8, <1>11, <2>4 DEF FlowType
  <2>7. TrueFlow(o)'
    BY <1>3, <2>1, FlowKept
  <2>8. TrueFlow(r)'
    BY <1>3, <1>10, <2>1, <2>6, <2>7 DEF TrueFlow, Paged
  <2> QED
    BY <1>1, <2>1, <2>3, <2>5, <2>8, QueueOKKept, FlowsKept, PollsKept DEF PhoneInv
<1>9. ASSUME NEW queues \in BOOLEAN, server' = Received(f, queues), ~(o.page < n),
             Note(Progress(f) \o <<updateUpload(f, o.id, [status |-> "processing", sent |-> n])>>),
             To(f, "done")
      PROVE  PhoneInv'
  <2>1. ServerOK' /\ ServerGrows /\ Reached(o.id, o.page)'
    BY <1>1, <1>2, <1>3, <1>9, PageTaken
  <2>2. TrueWrite(a)' /\ TrueWrite(b)'
    BY <1>3, <1>5, <1>6, <1>11, <2>1, ProgressTrue
  <2>3. PICK x : x = [status |-> "processing", sent |-> n]
    OBVIOUS
  <2>4. o.page = n
    BY <1>9, <1>11
  <2>5. TruePatch(o.id, x)'
    BY <1>11, <2>1, <2>3, <2>4 DEF TruePatch, Statuses
  <2>6. PICK c : c = updateUpload(f, o.id, x)
    OBVIOUS
  <2>7. TrueWrite(c)'
    BY <1>3, <2>5, <2>6, UpdateTrue
  <2>8. PICK changes : changes = <<a, b>> \o <<c>>
    OBVIOUS
  <2>9. IsSeq(changes) /\ Elements(changes) \subseteq {a, b, c}
    <3>1. IsSeq(<<a, b>>) /\ Elements(<<a, b>>) = {a, b} /\ IsSeq(<<c>>) /\ Elements(<<c>>) = {c}
      BY SeqOne, SeqTwo
    <3>2. /\ IsSeq(<<a, b>> \o <<c>>)
          /\ Elements(<<a, b>> \o <<c>>) \subseteq Elements(<<a, b>>) \cup Elements(<<c>>)
      BY <3>1, SeqConcat
    <3> QED
      BY <2>8, <3>1, <3>2
  <2>10. Note(changes)
    BY <1>7, <1>9, <2>3, <2>6, <2>8
  <2>11. WritesOK'
    BY <2>1, <2>2, <2>7, <2>9, <2>10, NoteTrue DEF PhoneInv
  <2>12. PICK r : r = [o EXCEPT !.pc = "done"]
    OBVIOUS
  <2>13. flows' = [flows EXCEPT ![f] = r]
    BY <1>2, <1>9, <2>12 DEF To
  <2>14. TrueFlow(r)
    <3>1. /\ r \in FlowType /\ r.pc = "done" /\ r.id = o.id /\ r.job = o.job /\ r.sent = o.sent
          /\ r.form = o.form /\ r.uris = o.uris
      BY <1>3, <2>12 DEF FlowType
    <3> QED
      BY <1>3, <3>1 DEF TrueFlow, Paged
  <2>15. TrueFlow(r)'
    BY <2>1, <2>14, FlowKept
  <2> QED
    BY <1>1, <2>1, <2>11, <2>13, <2>15, QueueOKKept, FlowsKept, PollsKept DEF PhoneInv
<1>12. \/ Caught(f) /\ (UNCHANGED server \/ server' = Received(f, TRUE))
       \/ \E queues \in BOOLEAN :
            /\ server' = Received(f, queues)
            /\ IF o.page < n
               THEN Note(Progress(f)) /\ flows' = [flows EXCEPT ![f].page = @ + 1]
               ELSE /\ Note(Progress(f) \o <<updateUpload(f, o.id, [status |-> "processing", sent |-> n])>>)
                    /\ To(f, "done")
  BY <1>2, <1>10, Zenon DEF UploadPage
<1> QED
  BY <1>4, <1>8, <1>9, <1>12

\* The end of an upload keeps the invariant.
LEMMA FinishStep ==
    ASSUME PhoneInv, NEW f \in Flows, FinishUpload(f)
    PROVE  PhoneInv'
<1>1. UNCHANGED <<queue, writes, server, origin, swapped>> /\ flows' = [flows EXCEPT ![f] = NoFlow]
  BY DEF FinishUpload
<1>2. ServerOK' /\ ServerGrows
  BY <1>1, SameServer DEF PhoneInv
<1>3. PICK o : o = flows[f]
  OBVIOUS
<1>4. o \in FlowType /\ o.id \in Entries /\ JobOf(o.id, o.job) /\ o.job \in Nat
  BY <1>3, FlowFacts DEF FinishUpload, TrueFlow, FlowType
<1>5. PollsOK'
  <2>1. CASE UNCHANGED polls
    BY <1>2, <2>1, PollsKept DEF PhoneInv
  <2>2. CASE polls' = [polls EXCEPT ![o.id] = IF @ = 0 THEN o.job ELSE @]
    <3>1. /\ polls' \in [Entries -> Nat]
          /\ \A id \in Entries : polls'[id] = polls[id] \/ (id = o.id /\ polls'[id] = o.job)
      BY <1>4, <2>2 DEF PhoneInv, PollsOK
    <3>2. \A id \in Entries : JobOf(id, polls'[id])
      BY <1>4, <3>1 DEF PhoneInv, PollsOK
    <3> QED
      BY <1>1, <3>1, <3>2 DEF PollsOK, JobOf, Jobs
  <2> QED
    BY <1>3, <2>1, <2>2 DEF FinishUpload
<1>6. TrueFlow(NoFlow)'
  BY <1>2, IdleTrue, FlowKept DEF NoFlow
<1> QED
  BY <1>1, <1>2, <1>5, <1>6, WritesKept, QueueOKKept, FlowsKept DEF PhoneInv

\* The removal of an entry keeps the invariant.
LEMMA ClearStep ==
    ASSUME PhoneInv, NEW id \in Entries, clearUpload(id)
    PROVE  PhoneInv'
<1>1. UNCHANGED <<queue, flows, polls, server, origin, swapped>> /\ Note(<<removeUpload(id)>>)
  BY DEF clearUpload
<1>2. ServerOK' /\ ServerGrows
  BY <1>1, SameServer DEF PhoneInv
<1>3. TrueWrite(removeUpload(id))'
  BY DEF TrueWrite, removeUpload, Change
<1>4. WritesOK'
  BY <1>1, <1>2, <1>3, NoteTrue, SeqOne DEF PhoneInv
<1> QED
  BY <1>1, <1>2, <1>4, QueueOKKept, FlowsKept, PollsKept DEF PhoneInv

\* A poll that notes what the server answers keeps the invariant.
LEMMA PollStep ==
    ASSUME PhoneInv, NEW id \in Entries, PollTick(id)
    PROVE  PhoneInv'
<1>1. UNCHANGED <<queue, flows, server, origin, swapped>>
  BY DEF PollTick
<1>2. ServerOK' /\ ServerGrows
  BY <1>1, SameServer DEF PhoneInv
<1>3. PICK x : x = [status |-> "processing"]
  OBVIOUS
<1>4. PICK a : a = updateUpload("nobody", id, x)
  OBVIOUS
<1>5. TrueWrite(a)'
  <2>1. TruePatch(id, x)'
    BY <1>3 DEF TruePatch, Statuses
  <2> QED
    BY <1>4, <2>1, UpdateTrue
<1>6. PICK j : j = polls[id]
  OBVIOUS
<1>7. j \in Nat \ {0} /\ j \in Jobs(id)
  BY <1>6 DEF PhoneInv, PollsOK, PollTick, JobOf
<1>8. CASE server[j].status \notin Terminal
  <2>1. Note(<<a>>) /\ UNCHANGED polls
    BY <1>3, <1>4, <1>6, <1>8 DEF PollTick
  <2>2. WritesOK'
    BY <1>2, <1>5, <2>1, NoteTrue, SeqOne DEF PhoneInv
  <2> QED
    BY <1>1, <1>2, <2>1, <2>2, QueueOKKept, FlowsKept, PollsKept DEF PhoneInv
<1>9. CASE server[j].status \in Terminal
  <2>1. PICK y : y = Outcome(j)
    OBVIOUS
  <2>2. PICK b : b = updateUpload("screen", id, y)
    OBVIOUS
  <2>3. Note(<<a, b>>) /\ polls' = [polls EXCEPT ![id] = 0]
    BY <1>3, <1>4, <1>6, <1>9, <2>1, <2>2 DEF PollTick
  <2>4. server[j].status \in {"quiz_ready", "review_ready"} => server[j].quiz = server[j].status
    BY <1>7 DEF PhoneInv, ServerOK, Jobs
  <2>5. TruePatch(id, y)
    <3>1. CASE server[j].status = "quiz_ready"
      <4>1. y = [status |-> "ready", quiz |-> j]
        BY <2>1, <3>1 DEF Outcome
      <4>2. Offered(id, "ready", j)
        BY <1>7, <2>4, <3>1 DEF Offered, JobOf
      <4> QED
        BY <1>7, <4>1, <4>2 DEF TruePatch, Statuses
    <3>2. CASE server[j].status = "review_ready"
      <4>1. y = [status |-> "review", quiz |-> j]
        BY <2>1, <3>2 DEF Outcome
      <4>2. Offered(id, "review", j)
        BY <1>7, <2>4, <3>2 DEF Offered, JobOf
      <4> QED
        BY <1>7, <4>1, <4>2 DEF TruePatch, Statuses
    <3>3. CASE server[j].status = "failed"
      <4>1. y = [status |-> "failed", job |-> 0]
        BY <2>1, <3>3 DEF Outcome
      <4> QED
        BY <4>1 DEF TruePatch, Statuses, JobOf
    <3> QED
      BY <1>9, <3>1, <3>2, <3>3 DEF Terminal
  <2>6. TruePatch(id, y)'
    BY <1>2, <2>5, PatchKept
  <2>7. TrueWrite(b)'
    BY <2>2, <2>6, UpdateTrue
  <2>8. WritesOK'
    BY <1>2, <1>5, <2>3, <2>7, NoteTrue, SeqTwo DEF PhoneInv
  <2>9. PollsOK'
    <3>1. /\ polls' \in [Entries -> Nat]
          /\ \A i \in Entries : polls'[i] = polls[i] \/ polls'[i] = 0
      BY <2>3 DEF PhoneInv, PollsOK
    <3> QED
      BY <1>1, <3>1 DEF PhoneInv, PollsOK, JobOf, Jobs
  <2> QED
    BY <1>1, <1>2, <2>8, <2>9, QueueOKKept, FlowsKept DEF PhoneInv
<1> QED
  BY <1>8, <1>9

\* A poll that ends keeps the invariant.
LEMMA PollEndStep ==
    ASSUME PhoneInv, NEW id \in Entries, PollTimesOut(id)
    PROVE  PhoneInv'
<1>1. UNCHANGED <<queue, writes, flows, server, origin, swapped>> /\ polls' = [polls EXCEPT ![id] = 0]
  BY DEF PollTimesOut
<1>2. ServerOK' /\ ServerGrows
  BY <1>1, SameServer DEF PhoneInv
<1>3. PollsOK'
  <2>1. /\ polls' \in [Entries -> Nat]
        /\ \A i \in Entries : polls'[i] = polls[i] \/ polls'[i] = 0
    BY <1>1 DEF PhoneInv, PollsOK
  <2> QED
    BY <1>1, <2>1 DEF PhoneInv, PollsOK, JobOf, Jobs
<1> QED
  BY <1>1, <1>2, <1>3, WritesKept, QueueOKKept, FlowsKept DEF PhoneInv

\* The steps of the server keep the invariant.
LEMMA ServerStep ==
    ASSUME PhoneInv, NEW j \in DOMAIN server, ServerEnds(j)
    PROVE  PhoneInv'
<1>1. UNCHANGED <<queue, writes, flows, polls, origin, swapped>>
  BY DEF ServerEnds
<1>2. server \in Seq(ServerJob)
  BY DEF PhoneInv, ServerOK
<1>3. PICK was : was = server[j]
  OBVIOUS
<1>4. was \in ServerJob /\ was.status = "pending"
  BY <1>2, <1>3, ElementOfSeq DEF ServerEnds
<1>5. PICK is : /\ server' = [server EXCEPT ![j] = is] /\ is \in ServerJob /\ is.for = was.for /\ is.pages = was.pages
                /\ was.quiz # "none" => is.quiz = was.quiz
                /\ is.status \in {"quiz_ready", "review_ready"} => is.quiz = is.status
  <2>1. ASSUME NEW s \in {"quiz_ready", "review_ready"}, was.quiz \in {"none", s},
               server' = [server EXCEPT ![j].status = s, ![j].quiz = s]
        PROVE  \E is : /\ server' = [server EXCEPT ![j] = is] /\ is \in ServerJob /\ is.for = was.for /\ is.pages = was.pages
                       /\ was.quiz # "none" => is.quiz = was.quiz
                       /\ is.status \in {"quiz_ready", "review_ready"} => is.quiz = is.status
    <3>1. PICK is : is = [was EXCEPT !.status = s, !.quiz = s]
      OBVIOUS
    <3>2. server' = [server EXCEPT ![j] = is]
      BY <1>2, <1>3, <1>4, <2>1, <3>1 DEF ServerJob
    <3>3. /\ is \in ServerJob /\ is.for = was.for /\ is.pages = was.pages
          /\ was.quiz # "none" => is.quiz = was.quiz
          /\ is.status \in {"quiz_ready", "review_ready"} => is.quiz = is.status
      BY <1>4, <2>1, <3>1 DEF ServerJob
    <3> QED
      BY <3>2, <3>3, Zenon
  <2>2. CASE server' = [server EXCEPT ![j].status = "failed"]
    <3>1. PICK is : is = [was EXCEPT !.status = "failed"]
      OBVIOUS
    <3>2. server' = [server EXCEPT ![j] = is]
      BY <1>3, <2>2, <3>1
    <3>3. /\ is \in ServerJob /\ is.for = was.for /\ is.pages = was.pages
          /\ was.quiz # "none" => is.quiz = was.quiz
          /\ is.status \in {"quiz_ready", "review_ready"} => is.quiz = is.status
      BY <1>4, <3>1 DEF ServerJob
    <3> QED
      BY <3>2, <3>3, Zenon
  <2> QED
    BY <1>3, <2>1, <2>2 DEF ServerEnds
<1>6. /\ server' \in Seq(ServerJob) /\ DOMAIN server' = DOMAIN server
      /\ \A i \in DOMAIN server : server'[i] = IF i = j THEN is ELSE server[i]
  BY <1>2, <1>5
<1>7. ServerOK'
  BY <1>1, <1>5, <1>6 DEF PhoneInv, ServerOK
<1>8. ServerGrows
  BY <1>1, <1>3, <1>5, <1>6 DEF ServerGrows
<1> QED
  BY <1>1, <1>7, <1>8, WritesKept, QueueOKKept, FlowsKept, PollsKept DEF PhoneInv

\* A kill of the application keeps the invariant: the queue is what was saved.
LEMMA RestartStep ==
    ASSUME PhoneInv, Restart
    PROVE  PhoneInv'
<1>1. /\ UNCHANGED <<queue, server, origin, swapped>> /\ writes' = <<>> /\ flows' = [f \in Flows |-> NoFlow]
      /\ polls' = [i \in Entries |-> IF i \in DOMAIN queue /\ queue[i].status = "processing" THEN queue[i].job ELSE 0]
  BY DEF Restart
<1>2. ServerOK' /\ ServerGrows
  BY <1>1, SameServer DEF PhoneInv
<1>3. WritesOK'
  <2>1. writes' \in Seq({}) /\ Len(writes') = 0 /\ DOMAIN writes' = {}
    BY <1>1
  <2> QED
    BY <2>1, PhoneAssumption DEF WritesOK, IsSeq, Elements
<1>4. TrueFlow(NoFlow)'
  BY <1>2, IdleTrue, FlowKept DEF NoFlow
<1>5. FlowsOK'
  BY <1>1, <1>4 DEF FlowsOK, TrueFlow
<1>6. \A i \in Entries : polls'[i] = 0 \/ (i \in DOMAIN queue /\ polls'[i] = queue[i].job)
  BY <1>1
<1>7. \A i \in DOMAIN queue : queue[i].job \in Nat /\ JobOf(i, queue[i].job)
  BY DEF PhoneInv, QueueOK, IsQueue, TrueQueue, TrueEntry, QueueEntry
<1>8. PollsOK'
  <2>1. polls' \in [Entries -> Nat]
    BY <1>1, <1>7
  <2> QED
    BY <1>1, <1>6, <1>7, <2>1 DEF PollsOK, JobOf, Jobs
<1> QED
  BY <1>1, <1>2, <1>3, <1>5, <1>8, QueueOKKept DEF PhoneInv

\* Every step leaves a form and counted handlers.
LEMMA FormStep ==
    ASSUME ScanPhoneInv, [PhoneNext]_phoneVars
    PROVE  ScreenOK'
<1>1. \A i \in DOMAIN queue : queue[i].uris \in Forms
  BY DEF ScanPhoneInv, PhoneInv, QueueOK, IsQueue, QueueEntry, Forms
<1>2. ASSUME NEW draft \in Forms, NEW terms \in BOOLEAN, NEW busy \in BOOLEAN, NEW shown, UNCHANGED due,
             screen' = [screen EXCEPT !.draft = draft, !.terms = terms, !.busy = busy, !.shown = shown]
      PROVE  ScreenOK'
  BY <1>2 DEF ScanPhoneInv, ScreenOK
<1>3. CASE EditForm
  BY <1>3 DEF EditForm, ScanPhoneInv, ScreenOK, Forms
<1>4. CASE Reconnect
  <2>1. PICK more : /\ due' = Append(due, more) /\ more \subseteq DOMAIN queue /\ UNCHANGED screen
    BY <1>4 DEF Reconnect
  <2>2. more \in SUBSET Entries
    BY <2>1 DEF ScanPhoneInv, PhoneInv, QueueOK, IsQueue
  <2>3. due' \in Seq(SUBSET Entries)
    BY <2>1, <2>2 DEF ScanPhoneInv, ScreenOK
  <2> QED
    BY <2>1, <2>3 DEF ScanPhoneInv, ScreenOK
<1>5. CASE Restart
  <2>1. due' = <<>>
    BY <1>5 DEF Restart
  <2>2. due' \in Seq(SUBSET Entries)
    BY <2>1
  <2> QED
    BY <1>5, <2>2 DEF Restart, ScreenOK, Forms
<1>6. ASSUME NEW f \in Flows, NEW id \in Entries, retryUpload(f, id)
      PROVE  ScreenOK'
  <2>1. UNCHANGED screen
    BY <1>6 DEF retryUpload
  <2>2. PICK h \in 0 .. Len(due) : due' = due \/ (h # 0 /\ due' = [due EXCEPT ![h] = @ \ {id}])
    BY <1>6 DEF retryUpload
  <2>3. due' \in Seq(SUBSET Entries)
    BY <2>2 DEF ScanPhoneInv, ScreenOK
  <2> QED
    BY <2>1, <2>3 DEF ScanPhoneInv, ScreenOK
<1>7. ASSUME NEW f \in Flows, LookUp(f)
      PROVE  ScreenOK'
  BY <1>1, <1>7 DEF LookUp, ScanPhoneInv, ScreenOK
<1>8. ASSUME NEW f \in Flows, Check(f) \/ FindEntry(f)
      PROVE  ScreenOK'
  <2>3. PICK other : other = Shown(flows[f].id, "queued")
    OBVIOUS
  <2>4. other \in [draft : Forms, terms : BOOLEAN, busy : BOOLEAN, shown : {other.shown}]
    BY <2>3 DEF Shown, ScanPhoneInv, ScreenOK
  <2>1. \/ screen' \in {screen, other}
        \/ screen' \in {[screen EXCEPT !.busy = TRUE], [other EXCEPT !.busy = TRUE], [screen EXCEPT !.busy = FALSE]}
    BY <1>8, <2>3 DEF Check, FindEntry
  <2>2. UNCHANGED due
    BY <1>8 DEF Check, FindEntry
  <2> QED
    BY <2>1, <2>2, <2>4 DEF ScanPhoneInv, ScreenOK
<1>9. ASSUME NEW f \in Flows, FinishUpload(f)
      PROVE  ScreenOK'
  <2>3. PICK other : other \in {Shown(flows[f].id, "processing"), Shown(flows[f].id, "failed")}
                     /\ screen' \in {[other EXCEPT !.draft = <<>>, !.busy = FALSE], [other EXCEPT !.busy = FALSE]}
    BY <1>9 DEF FinishUpload
  <2>1. other \in [draft : Forms, terms : BOOLEAN, busy : BOOLEAN, shown : {other.shown}]
    BY <2>3 DEF Shown, ScanPhoneInv, ScreenOK
  <2>2. UNCHANGED due
    BY <1>9 DEF FinishUpload
  <2> QED
    BY <2>1, <2>2, <2>3 DEF ScanPhoneInv, ScreenOK, Forms
<1>10. CASE UNCHANGED <<screen, due>>
  BY <1>10 DEF ScanPhoneInv, ScreenOK
<1>11. ASSUME NEW shown, screen' = [screen EXCEPT !.shown = shown], UNCHANGED due
       PROVE  ScreenOK'
  BY <1>11 DEF ScanPhoneInv, ScreenOK
<1>12. \/ UNCHANGED <<screen, due>>
       \/ UNCHANGED due /\ \E shown : screen' = [screen EXCEPT !.shown = shown]
       \/ EditForm \/ Reconnect \/ Restart
       \/ \E f \in Flows, id \in Entries : retryUpload(f, id)
       \/ \E f \in Flows : LookUp(f) \/ Check(f) \/ FindEntry(f) \/ FinishUpload(f)
  <2>1. ASSUME saveQueuedUploads
        PROVE  UNCHANGED due /\ (UNCHANGED screen \/ \E shown : screen' = [screen EXCEPT !.shown = shown])
    BY <2>1 DEF saveQueuedUploads, Shown
  <2>2. ASSUME NEW f \in Flows, BeginPages(f) \/ UploadPage(f)
        PROVE  UNCHANGED due /\ (UNCHANGED screen \/ \E shown : screen' = [screen EXCEPT !.shown = shown])
    BY <2>2 DEF BeginPages, UploadPage, Shown
  <2>3. ASSUME NEW id \in Entries, PollTick(id)
        PROVE  UNCHANGED due /\ \E shown : screen' = [screen EXCEPT !.shown = shown]
    BY <2>3 DEF PollTick, Shown
  <2>4. ASSUME NEW f \in Flows, (\E id \in Entries : startUpload(f, id)) \/ CreateJob(f)
        PROVE  UNCHANGED <<screen, due>>
    BY <2>4 DEF startUpload, CreateJob
  <2>5. ASSUME NEW id \in Entries, clearUpload(id) \/ PollTimesOut(id)
        PROVE  UNCHANGED <<screen, due>>
    BY <2>5 DEF clearUpload, PollTimesOut
  <2>6. ASSUME NEW j \in DOMAIN server, ServerEnds(j)
        PROVE  UNCHANGED <<screen, due>>
    BY <2>6 DEF ServerEnds
  <2>7. ASSUME getQueuedUploads \/ UNCHANGED phoneVars
        PROVE  UNCHANGED <<screen, due>>
    BY <2>7 DEF getQueuedUploads, phoneVars
  <2> QED
    BY <2>1, <2>2, <2>3, <2>4, <2>5, <2>6, <2>7 DEF PhoneNext
<1> QED
  BY <1>3, <1>4, <1>5, <1>6, <1>7, <1>8, <1>9, <1>10, <1>11, <1>12

\* The invariant of the phone holds at the start.
LEMMA PhoneInitInv == PhoneInit => ScanPhoneInv
<1> SUFFICES ASSUME PhoneInit PROVE ScanPhoneInv
  OBVIOUS
<1>7. ScreenOK
  <2>1. due = <<>> /\ screen \in [draft : Rolls, terms : {TRUE}, busy : {FALSE}, shown : {[i \in Entries |-> "none"]}]
    BY DEF PhoneInit
  <2>2. due \in Seq(SUBSET Entries)
    BY <2>1
  <2> QED
    BY <2>1, <2>2 DEF ScreenOK, Forms
<1>1. server = <<>> /\ origin = <<>> /\ queue = <<>> /\ writes = <<>> /\ flows = [f \in Flows |-> NoFlow] /\ polls = [i \in Entries |-> 0]
  BY DEF PhoneInit
<1>2. ServerOK
  BY <1>1 DEF ServerOK
<1>3. QueueOK
  BY <1>1 DEF QueueOK, IsQueue, TrueQueue
<1>4. WritesOK
  <2>1. writes \in Seq({}) /\ Len(writes) = 0 /\ DOMAIN writes = {}
    BY <1>1
  <2> QED
    BY <2>1, PhoneAssumption DEF WritesOK, IsSeq, Elements
<1>5. FlowsOK
  BY <1>1, IdleTrue DEF FlowsOK
<1>6. PollsOK
  BY <1>1 DEF PollsOK, JobOf
<1> QED
  BY <1>2, <1>3, <1>4, <1>5, <1>6, <1>7 DEF PhoneInv, ScanPhoneInv

\* Every step of the phone keeps its invariant.
LEMMA PhoneStepInv == ScanPhoneInv /\ [PhoneNext]_phoneVars => ScanPhoneInv'
<1> SUFFICES ASSUME ScanPhoneInv, [PhoneNext]_phoneVars PROVE PhoneInv'
  BY FormStep DEF ScanPhoneInv
<1>9. PhoneInv
  BY DEF ScanPhoneInv
<1>1. CASE UNCHANGED phoneVars
  <2>1. UNCHANGED <<queue, writes, flows, polls, server, origin, swapped>>
    BY <1>1 DEF phoneVars
  <2> QED
    BY <1>9, <2>1, SameServer, WritesKept, QueueOKKept, FlowsKept, PollsKept DEF PhoneInv
<1>2. CASE EditForm \/ Reconnect
  BY <1>2, <1>9, ScreenStep
<1>3. CASE Restart
  BY <1>3, <1>9, RestartStep
<1>4. CASE getQueuedUploads
  BY <1>4, <1>9, GetStep
<1>5. CASE saveQueuedUploads
  BY <1>5, <1>9, SaveStep
<1>6. ASSUME NEW f \in Flows,
             \/ \E id \in Entries : startUpload(f, id) \/ retryUpload(f, id)
             \/ LookUp(f) \/ Check(f) \/ FindEntry(f) \/ CreateJob(f) \/ BeginPages(f)
             \/ UploadPage(f) \/ FinishUpload(f)
      PROVE  PhoneInv'
  BY <1>6, <1>9, StartStep, RetryStep, LookUpStep, CheckStep, FindEntryStep, CreateJobStep, BeginStep, UploadPageStep, FinishStep
<1>7. ASSUME NEW id \in Entries, clearUpload(id) \/ PollTick(id) \/ PollTimesOut(id)
      PROVE  PhoneInv'
  BY <1>7, <1>9, ClearStep, PollStep, PollEndStep
<1>8. ASSUME NEW j \in DOMAIN server, ServerEnds(j)
      PROVE  PhoneInv'
  BY <1>8, <1>9, ServerStep
<1> QED
  BY <1>1, <1>2, <1>3, <1>4, <1>5, <1>6, <1>7, <1>8 DEF PhoneNext

\* The invariant says what the properties of the phone do.
LEMMA PhoneTruth == ScanPhoneInv => QueueTellsTruth /\ PhoneTypeOK
<1> SUFFICES ASSUME PhoneInv PROVE QueueTellsTruth /\ PhoneTypeOK
  BY DEF ScanPhoneInv
<1>1. \A i \in DOMAIN queue : i \in Entries /\ queue[i] \in QueueEntry /\ TrueEntry(i, queue[i])
  BY DEF PhoneInv, QueueOK, IsQueue, TrueQueue
<1>2. QueueTellsTruth
  <2> SUFFICES ASSUME NEW i \in DOMAIN queue
               PROVE  /\ i \in swapped \/ (queue[i].uris = origin[i] /\ queue[i].sent <= Len(origin[i]))
                      /\ \A p \in 1 .. queue[i].sent : \E j \in DOMAIN server : \E page \in server[j].pages :
                           server[j].for = i /\ page.no = p /\ (i \in swapped \/ page.uri = origin[i][p])
                      /\ queue[i].status \in {"ready", "review"} =>
                           /\ queue[i].quiz # 0 /\ server[queue[i].quiz].for = i
                           /\ server[queue[i].quiz].quiz = IF queue[i].status = "ready" THEN "quiz_ready" ELSE "review_ready"
    BY DEF QueueTellsTruth
  <2>1. Reached(i, queue[i].sent) /\ Same(i, queue[i].uris) /\ Offered(i, queue[i].status, queue[i].quiz)
    BY <1>1 DEF TrueEntry
  <2>2. i \in swapped \/ (queue[i].uris = origin[i] /\ queue[i].sent <= Len(origin[i]))
    BY <2>1 DEF Reached, Same
  <2>3. \A p \in 1 .. queue[i].sent : \E j \in DOMAIN server : \E page \in server[j].pages :
          server[j].for = i /\ page.no = p /\ (i \in swapped \/ page.uri = origin[i][p])
    BY <2>1 DEF Reached, Arrived, Jobs
  <2> QED
    BY <2>1, <2>2, <2>3 DEF Offered, JobOf, Jobs
<1>3. \A id, job : JobOf(id, job) => job \in 0 .. Len(server)
  <2>1. DOMAIN server = 1 .. Len(server) /\ Len(server) \in Nat
    BY DEF PhoneInv, ServerOK
  <2> QED
    BY <2>1 DEF JobOf, Jobs
<1>4. PhoneTypeOK
  BY <1>1, <1>3 DEF PhoneTypeOK, PhoneInv, QueueEntry, Statuses, TrueEntry, Offered, FlowsOK, FlowType,
     PollsOK, WritesOK
<1> QED
  BY <1>2, <1>4

(* -------------------------------- attempts -------------------------------- *)

\* An attempt has its columns, and is running or completed.
ShapedAttempt(a) ==
    a \in [status : {"in_progress", "completed"}, started : Int, submitted : Int,
           correct : {a.correct}, wrong : {a.wrong}, skipped : {a.skipped}, score : {a.score}, rows : {a.rows}]
\* Attempts are rows with their columns.
AttemptsOK == IsSeq(attempts) /\ \A i \in DOMAIN attempts : ShapedAttempt(attempts[i])
\* What was told of an attempt is its result, once it has one.
ToldOK ==
    /\ IsSeq(told) /\ Len(told) = Len(attempts)
    /\ \A i \in DOMAIN attempts : told[i] # {} =>
         attempts[i].status = "completed" /\ told[i] = {loadResult(attempts[i])}
\* A request is about an attempt there is.
Asked ==
    /\ requests \in [Clients -> Elements(requests)]
    /\ \A c \in Clients : requests[c].kind = "create" => requests[c].started \in Int
\* Each running attempt has a client of its own, which is not starting another one.
Owners == {own \in [Running -> Clients] :
             /\ \A i, j \in Running : own[i] = own[j] => i = j
             /\ \A i \in Running : requests[own[i]].kind # "create"}
\* The inductive invariant of attempts.
QuizInv == AttemptsOK /\ ToldOK /\ Asked /\ today \in Int /\ Owners # {}

\* Requests that start no attempt beside a running one leave the owners.
LEMMA OwnersKept ==
    ASSUME Owners # {}, Running' \subseteq Running,
           \A c \in Clients : requests'[c].kind = "create" => requests[c].kind = "create" \/ Running' = {}
    PROVE  Owners' # {}
<1>1. PICK own \in Owners : TRUE
  OBVIOUS
<1> DEFINE new == [i \in Running' |-> own[i]]
<1>2. /\ own \in [Running -> Clients]
      /\ \A i \in Running : requests[own[i]].kind # "create"
      /\ \A i, j \in Running : own[i] = own[j] => i = j
  BY <1>1 DEF Owners
<1>3. new \in [Running' -> Clients] /\ \A i \in Running' : new[i] = own[i]
  BY <1>2
<1>4. /\ \A i, j \in Running' : new[i] = new[j] => i = j
      /\ \A i \in Running' : requests'[new[i]].kind # "create"
  BY <1>2, <1>3
<1> HIDE DEF new
<1>5. new \in Owners'
  BY <1>3, <1>4 DEF Owners
<1> QED BY <1>5

\* Attempts in progress with a client each are as many as there are clients at most.
LEMMA OwnersBound == Owners # {} => AttemptsBounded
<1> SUFFICES ASSUME Owners # {} PROVE AttemptsBounded
  OBVIOUS
<1>1. PICK own \in Owners : TRUE
  OBVIOUS
<1>2. own \in Injection(Running, Clients)
  BY <1>1 DEF Owners, Injection, IsInjective
<1>3. Cardinality(Running) <= Cardinality(Clients)
  BY <1>2, QuizAssumption, FS_Injection
<1> QED BY <1>3 DEF AttemptsBounded

\* A request that starts to wait leaves the others.
LEMMA AskFacts ==
    ASSUME Asked, NEW c \in Clients, NEW r, r.kind = "create" => r.started \in Int, Ask(c, r)
    PROVE  Asked' /\ requests'[c] = r /\ \A d \in Clients \ {c} : requests'[d] = requests[d]
<1>1. requests' = [requests EXCEPT ![c] = r] /\ DOMAIN requests = Clients
  BY DEF Ask, Asked
<1>2. requests' \in [Clients -> Elements(requests) \cup {r}]
  BY <1>1 DEF Asked
<1> DEFINE new == requests'
<1>3. new \in [Clients -> {new[k] : k \in DOMAIN new}]
  <2> HIDE DEF new
  <2>1. new \in [Clients -> Elements(requests) \cup {r}]
    BY <1>2 DEF new
  <2> QED BY <2>1
<1>4. requests'[c] = r /\ \A d \in Clients \ {c} : requests'[d] = requests[d]
  BY <1>1
<1>5. \A d \in Clients : requests'[d].kind = "create" => requests'[d].started \in Int
  BY <1>4 DEF Asked
<1> QED BY <1>3, <1>4, <1>5 DEF Asked, Elements

\* A request that is answered leaves the others.
LEMMA ReplyFacts ==
    ASSUME Asked, NEW c \in Clients, Reply(c)
    PROVE  Asked' /\ requests'[c] = Idle /\ \A d \in Clients \ {c} : requests'[d] = requests[d]
<1>1. Ask(c, Idle) /\ Idle.kind # "create"
  BY DEF Ask, Reply, Idle
<1> QED BY <1>1, AskFacts

\* Steps of requests alone.
LEMMA QuietStep ==
    ASSUME QuizInv, UNCHANGED <<attempts, told>>, Asked', today' \in Int,
           \A c \in Clients : requests'[c].kind = "create" => requests[c].kind = "create" \/ Running = {}
    PROVE  QuizInv'
<1>1. AttemptsOK' /\ ToldOK'
  BY DEF QuizInv, AttemptsOK, ToldOK, loadResult
<1>2. Running' = Running
  BY DEF Running
<1>3. Owners' # {}
  BY <1>2, OwnersKept DEF QuizInv
<1> QED BY <1>1, <1>3 DEF QuizInv

\* Requests that start or are refused keep the invariant.
LEMMA RequestStep ==
    ASSUME QuizInv, NEW c \in Clients,
           \/ \E draft \in Drafts : HandleSaveDraft(c, draft)
           \/ HandlePublishDraft(c) \/ ExplainQuestion(c) \/ PublishDraft(c)
           \/ HandleCreateAttempt(c, today)
           \/ HandleGetAnalytics(c) \/ StoreAnalytics(c) \/ RequestFails(c)
    PROVE  QuizInv'
<1> DEFINE rest == [requests[c] EXCEPT !.todo = Tail(@)]
<1>1. UNCHANGED <<attempts, told, today>> /\ today \in Int
  BY DEF QuizInv, HandleSaveDraft, HandlePublishDraft, ExplainQuestion, PublishDraft, HandleCreateAttempt,
         HandleGetAnalytics, StoreAnalytics, RequestFails
<1>2. ASSUME NEW r, Ask(c, r), r.kind = "create" => Running = {} /\ r.started \in Int
      PROVE  QuizInv'
  BY <1>1, <1>2, AskFacts, QuietStep DEF QuizInv
<1>3. ASSUME Reply(c)
      PROVE  QuizInv'
  <2>1. Ask(c, Idle) /\ Idle.kind # "create"
    BY <1>3 DEF Ask, Reply, Idle
  <2> QED BY <1>2, <2>1
<1>4. ASSUME NEW draft \in Drafts, HandleSaveDraft(c, draft)
      PROVE  QuizInv'
  BY <1>2, <1>4 DEF HandleSaveDraft
<1>5. CASE HandlePublishDraft(c)
  BY <1>2, <1>5 DEF HandlePublishDraft
<1>6. CASE ExplainQuestion(c)
  <2>1. Ask(c, rest) \/ Reply(c)
    BY <1>6 DEF ExplainQuestion
  <2>2. rest.kind # "create"
    BY <1>6 DEF ExplainQuestion
  <2> HIDE DEF rest
  <2> QED BY <1>2, <1>3, <2>1, <2>2
<1>7. CASE PublishDraft(c) \/ StoreAnalytics(c) \/ RequestFails(c)
  BY <1>3, <1>7 DEF PublishDraft, StoreAnalytics, RequestFails
<1>8. CASE HandleCreateAttempt(c, today)
  BY <1>1, <1>2, <1>8 DEF HandleCreateAttempt
<1>9. CASE HandleGetAnalytics(c)
  BY <1>2, <1>9 DEF HandleGetAnalytics
<1> QED BY <1>4, <1>5, <1>6, <1>7, <1>8, <1>9

\* Deleting questions takes answers from the attempts and nothing else.
LEMMA SaveDraftStep ==
    ASSUME QuizInv, NEW c \in Clients, SaveDraft(c)
    PROVE  QuizInv'
<1> DEFINE gone == IDs(questions)
           new == [i \in DOMAIN attempts |-> WithoutAnswers(attempts[i], gone)]
<1>1. attempts' = new /\ UNCHANGED <<told, today>>
  BY DEF SaveDraft
<1>2. Asked' /\ \A d \in Clients : requests'[d].kind = "create" => requests[d].kind = "create"
  BY ReplyFacts DEF SaveDraft, QuizInv, Idle
<1>3. DOMAIN attempts = 1 .. Len(attempts) /\ Len(attempts) \in Nat
  BY SeqIs DEF QuizInv, AttemptsOK
<1>4. new \in [1 .. Len(attempts) -> Elements(new)]
  <2>1. new \in [1 .. Len(attempts) -> {WithoutAnswers(attempts[i], gone) : i \in DOMAIN attempts}]
    BY <1>3
  <2> HIDE DEF new
  <2> QED BY <2>1 DEF Elements
<1>5. IsSeq(attempts') /\ Len(attempts') = Len(attempts) /\ DOMAIN attempts' = DOMAIN attempts
  <2> HIDE DEF new
  <2> QED BY <1>1, <1>3, <1>4, SeqFrom
<1>6. ASSUME NEW i \in DOMAIN attempts
      PROVE  /\ ShapedAttempt(attempts'[i])
             /\ attempts'[i].status = attempts[i].status
             /\ loadResult(attempts'[i]) = loadResult(attempts[i])
  <2>1. attempts'[i] = [attempts[i] EXCEPT !.rows = {r \in @ : r.question \notin gone}]
    BY <1>1 DEF WithoutAnswers
  <2>2. PICK rows : attempts'[i] = [attempts[i] EXCEPT !.rows = rows]
    BY <2>1
  <2>3. ShapedAttempt(attempts[i])
    BY DEF QuizInv, AttemptsOK
  <2>4. ShapedAttempt(attempts'[i])
    BY <2>2, <2>3 DEF ShapedAttempt
  <2> QED BY <2>2, <2>3, <2>4 DEF ShapedAttempt, loadResult
<1>7. AttemptsOK' /\ ToldOK'
  BY <1>1, <1>5, <1>6 DEF QuizInv, AttemptsOK, ToldOK
<1>8. Running' = Running
  BY <1>5, <1>6 DEF Running
<1>9. Owners' # {}
  BY <1>2, <1>8, OwnersKept DEF QuizInv
<1> QED BY <1>1, <1>2, <1>7, <1>9 DEF QuizInv

\* A new attempt keeps the invariant.
LEMMA CreateAttemptStep ==
    ASSUME QuizInv, NEW c \in Clients, CreateAttempt(c)
    PROVE  QuizInv'
<1> DEFINE n == Len(attempts) + 1
<1>1. PICK a : /\ a = [status |-> "in_progress", started |-> requests[c].started,
                       submitted |-> requests[c].started, correct |-> 0, wrong |-> 0, skipped |-> 0,
                       score |-> 0, rows |-> {}]
               /\ attempts' = Append(attempts, a)
  BY DEF CreateAttempt
<1>2. told' = Append(told, {}) /\ requests[c].kind = "create" /\ requests[c].started \in Int /\ UNCHANGED today
  BY DEF CreateAttempt, QuizInv, Asked
<1>3. /\ IsSeq(attempts) /\ Len(attempts) \in Nat /\ DOMAIN attempts = 1 .. Len(attempts)
      /\ IsSeq(told) /\ Len(told) = Len(attempts)
  BY SeqIs DEF QuizInv, AttemptsOK, ToldOK
<1>4. /\ IsSeq(attempts') /\ Len(attempts') = n /\ DOMAIN attempts' = 1..n
      /\ \A i \in DOMAIN attempts : attempts'[i] = attempts[i]
      /\ attempts'[n] = a
  BY <1>1, <1>3, SeqApp
<1>5. /\ IsSeq(told') /\ Len(told') = n
      /\ \A i \in DOMAIN attempts : told'[i] = told[i]
      /\ told'[n] = {}
  BY <1>2, <1>3, SeqApp
<1>6. \A i \in DOMAIN attempts' : i \in DOMAIN attempts \/ i = n
  BY <1>3, <1>4
<1>7. AttemptsOK'
  <2>1. ShapedAttempt(a) /\ a.status = "in_progress"
    BY <1>1, <1>2 DEF ShapedAttempt
  <2>2. \A i \in DOMAIN attempts' : ShapedAttempt(attempts'[i])
    BY <1>4, <1>6, <2>1 DEF QuizInv, AttemptsOK
  <2> QED BY <1>4, <2>2 DEF AttemptsOK
<1>8. ToldOK'
  <2>1. \A i \in DOMAIN attempts' : told'[i] # {} =>
          attempts'[i].status = "completed" /\ told'[i] = {loadResult(attempts'[i])}
    BY <1>4, <1>5, <1>6 DEF QuizInv, ToldOK
  <2> QED BY <1>4, <1>5, <2>1 DEF ToldOK
<1>9. Asked' /\ requests'[c] = Idle /\ \A d \in Clients \ {c} : requests'[d] = requests[d]
  BY ReplyFacts DEF CreateAttempt, QuizInv
<1>10. Owners' # {}
  <2>1. PICK own \in Owners : TRUE
    BY DEF QuizInv
  <2>2. /\ own \in [Running -> Clients]
        /\ \A i, j \in Running : own[i] = own[j] => i = j
        /\ \A i \in Running : requests[own[i]].kind # "create"
    BY <2>1 DEF Owners
  <2>3. n \notin Running /\ Running' = Running \cup {n}
    <3>1. n \notin DOMAIN attempts
      BY <1>3
    <3>2. \A i \in Running : i \in DOMAIN attempts
      BY DEF Running
    <3>3. \A i \in DOMAIN attempts' : attempts'[i].status = "in_progress" <=> i \in Running \/ i = n
      BY <1>1, <1>4, <1>6, <3>1 DEF Running
    <3>4. DOMAIN attempts' = DOMAIN attempts \cup {n}
      BY <1>3, <1>4
    <3> QED BY <3>1, <3>2, <3>3, <3>4 DEF Running
  <2> HIDE DEF n
  <2> DEFINE new == [i \in Running \cup {n} |-> IF i = n THEN c ELSE own[i]]
  <2>4. /\ new \in [Running' -> Clients]
        /\ new[n] = c /\ \A i \in Running : new[i] = own[i]
    BY <2>2, <2>3
  <2>5. \A i \in Running : own[i] # c
    BY <1>2, <2>2
  <2> HIDE DEF new
  <2>6. \A i, j \in Running' : new[i] = new[j] => i = j
    BY <2>2, <2>3, <2>4, <2>5
  <2>7. \A i \in Running' : requests'[new[i]].kind # "create"
    <3>1. requests'[c].kind # "create"
      BY <1>9 DEF Idle
    <3>2. \A i \in Running : requests'[own[i]] = requests[own[i]]
      BY <1>9, <2>2, <2>5
    <3> QED BY <2>2, <2>3, <2>4, <3>1, <3>2
  <2>8. new \in Owners'
    BY <2>4, <2>6, <2>7 DEF Owners
  <2> QED BY <2>8
<1> QED BY <1>2, <1>7, <1>8, <1>9, <1>10 DEF QuizInv

\* A submission changes one attempt, from running to completed, or none.
LEMMA SubmitAttemptStep ==
    ASSUME QuizInv, NEW c \in Clients, NEW i \in DOMAIN attempts, NEW answers, NEW at \in Int,
           HandleSubmitAttempt(c, i, answers, at)
    PROVE  QuizInv'
<1> DEFINE a == attempts[i]
<1>1. UNCHANGED <<requests, today>> /\ SubmitAttempt(i, answers, at)
  BY DEF HandleSubmitAttempt
<1>2. /\ IsSeq(attempts) /\ Len(attempts) \in Nat /\ DOMAIN attempts = 1 .. Len(attempts)
      /\ IsSeq(told) /\ Len(told) = Len(attempts) /\ DOMAIN told = DOMAIN attempts
      /\ \A j \in DOMAIN attempts : ShapedAttempt(attempts[j])
      /\ attempts \in [1 .. Len(attempts) -> Elements(attempts)]
      /\ told \in [1 .. Len(attempts) -> Elements(told)]
  <2>1. IsSeq(attempts) /\ IsSeq(told) /\ Len(told) = Len(attempts)
    BY DEF QuizInv, AttemptsOK, ToldOK
  <2>2. DOMAIN told = DOMAIN attempts
    BY <2>1, SeqIs
  <2>3. ASSUME NEW s, IsSeq(s)
        PROVE  s \in [1 .. Len(s) -> Elements(s)]
    BY <2>3, SeqIs DEF Elements
  <2> QED BY <2>1, <2>2, <2>3, SeqIs DEF QuizInv, AttemptsOK
<1>3. PICK b : /\ attempts' = [attempts EXCEPT ![i] = b]
               /\ told' = [told EXCEPT ![i] = @ \cup {loadResult(b)}]
               /\ ShapedAttempt(b) /\ b.status = "completed"
               /\ a.status = "completed" => b = a
  <2>1. CASE a.status # "in_progress"
    <3>1. told' = [told EXCEPT ![i] = @ \cup {loadResult(a)}] /\ attempts' = attempts
      BY <1>1, <2>1 DEF SubmitAttempt
    <3>2. attempts' = [attempts EXCEPT ![i] = a] /\ ShapedAttempt(a)
      BY <1>2, <3>1, Zenon
    <3>3. a.status = "completed"
      BY <2>1, <3>2 DEF ShapedAttempt
    <3> HIDE DEF a
    <3> QED BY <3>1, <3>2, <3>3
  <2>2. CASE a.status = "in_progress"
    <3>1. PICK b : /\ b = Graded(a, answers, at)
                   /\ attempts' = [attempts EXCEPT ![i] = b]
                   /\ told' = [told EXCEPT ![i] = @ \cup {loadResult(b)}]
      BY <1>1, <2>2 DEF SubmitAttempt
    <3>2. PICK rows, correct, wrong, skipped, score :
             b = [a EXCEPT !.status = "completed", !.submitted = at, !.rows = rows, !.correct = correct,
                           !.wrong = wrong, !.skipped = skipped, !.score = score]
      BY <3>1 DEF Graded
    <3>3. ShapedAttempt(a)
      BY <1>2
    <3>4. ShapedAttempt(b) /\ b.status = "completed"
      BY <3>2, <3>3 DEF ShapedAttempt
    <3> QED BY <2>2, <3>1, <3>4
  <2> QED BY <2>1, <2>2
<1>4. /\ IsSeq(attempts') /\ Len(attempts') = Len(attempts) /\ DOMAIN attempts' = DOMAIN attempts
      /\ attempts'[i] = b /\ \A j \in DOMAIN attempts \ {i} : attempts'[j] = attempts[j]
  BY <1>2, <1>3, SeqEx
<1>5. /\ IsSeq(told') /\ Len(told') = Len(attempts')
      /\ told'[i] = told[i] \cup {loadResult(b)}
      /\ \A j \in DOMAIN attempts \ {i} : told'[j] = told[j]
  <2>1. PICK e : told' = [told EXCEPT ![i] = e] /\ e = told[i] \cup {loadResult(b)}
    BY <1>3
  <2>2. IsSeq([told EXCEPT ![i] = e]) /\ Len([told EXCEPT ![i] = e]) = Len(told)
    BY <1>2, SeqEx
  <2> QED BY <1>2, <1>4, <2>1, <2>2
<1>6. AttemptsOK'
  BY <1>2, <1>3, <1>4 DEF AttemptsOK
<1>7. told'[i] = {loadResult(b)}
  <2>1. told[i] # {} => a.status = "completed" /\ told[i] = {loadResult(a)}
    BY DEF QuizInv, ToldOK
  <2> QED BY <1>3, <1>5, <2>1
<1>8. ToldOK'
  BY <1>3, <1>4, <1>5, <1>7 DEF QuizInv, ToldOK
<1>9. Running' \subseteq Running
  BY <1>3, <1>4 DEF Running
<1>10. Asked' /\ Owners' # {}
  BY <1>1, <1>9, OwnersKept DEF QuizInv, Asked, Elements
<1> QED BY <1>1, <1>6, <1>8, <1>10 DEF QuizInv

\* Every step of the quizzes keeps their invariant.
LEMMA QuizStepInv ==
    ASSUME QuizInv, [QuizNext]_quizVars
    PROVE  QuizInv'
<1>1. ASSUME UNCHANGED <<attempts, told, requests>>, today' \in Int
      PROVE  QuizInv'
  BY <1>1, QuietStep DEF QuizInv, Asked, Elements
<1>2. CASE UNCHANGED quizVars \/ invalidateAnalytics \/ EntryExpires \/ DayPasses
  BY <1>1, <1>2 DEF QuizInv, quizVars, invalidateAnalytics, EntryExpires, DayPasses
<1>3. CASE \E c \in Clients :
             \/ \E draft \in Drafts : HandleSaveDraft(c, draft)
             \/ HandlePublishDraft(c) \/ ExplainQuestion(c) \/ PublishDraft(c)
             \/ HandleCreateAttempt(c, today)
             \/ HandleGetAnalytics(c) \/ StoreAnalytics(c) \/ RequestFails(c)
  BY <1>3, RequestStep
<1>4. CASE \E c \in Clients : SaveDraft(c) \/ CreateAttempt(c)
  BY <1>4, SaveDraftStep, CreateAttemptStep
<1>5. CASE \E c \in Clients : \E i \in DOMAIN attempts, answers \in Sheets, skew \in Skews :
             HandleSubmitAttempt(c, i, answers, today + skew)
  BY <1>5, QuizAssumption, SubmitAttemptStep DEF QuizInv
<1> QED BY <1>2, <1>3, <1>4, <1>5 DEF QuizNext

\* The invariant of attempts holds at the start.
LEMMA QuizInitInv == QuizInit => QuizInv
<1> SUFFICES ASSUME QuizInit PROVE QuizInv
  OBVIOUS
<1>1. attempts = <<>> /\ told = <<>> /\ requests = [c \in Clients |-> Idle] /\ today \in Int
  BY QuizAssumption DEF QuizInit
<1>2. AttemptsOK /\ ToldOK
  BY <1>1 DEF AttemptsOK, ToldOK, IsSeq
<1>3. Asked
  BY <1>1 DEF Asked, Elements, Idle
<1>4. Running = {}
  BY <1>1 DEF Running
<1>5. [i \in Running |-> 0] \in Owners
  BY <1>4 DEF Owners
<1> QED BY <1>1, <1>2, <1>3, <1>5 DEF QuizInv

\* The completed attempts are finitely many.
LEMMA CompletedFinite ==
    ASSUME QuizInv
    PROVE  IsFiniteSet(DOMAIN attempts) /\ IsFiniteSet(Completed)
<1>1. Len(attempts) \in Nat /\ DOMAIN attempts = 1 .. Len(attempts)
  BY SeqIs DEF QuizInv, AttemptsOK
<1>2. IsFiniteSet(DOMAIN attempts)
  BY <1>1, UptoFinite
<1> QED BY <1>2, FS_Subset DEF Completed

\* In every order of the completed attempts, an attempt comes behind the newer ones and
\* among those of its time.
LEMMA PlaceInReports ==
    ASSUME QuizInv, NEW order \in RowOrders(attemptRows), NEW i \in Completed,
           NEW newer, newer = {j \in Completed : attempts[j].submitted > attempts[i].submitted},
           NEW tied, tied = {j \in Completed : attempts[j].submitted = attempts[i].submitted}
    PROVE  \E k \in DOMAIN order :
             /\ order[k] = i /\ Len(order) \in Nat /\ k \in Nat /\ k <= Len(order)
             /\ Cardinality(newer) \in Nat /\ Cardinality(tied) \in Nat
             /\ Cardinality(newer) <= Len(order) - k
             /\ Len(order) - k < Cardinality(newer) + Cardinality(tied)
<1>1. IsFiniteSet(Completed) /\ Cardinality(Completed) \in Nat
  BY CompletedFinite, FS_CardinalityType
<1>2. DOMAIN attemptRows = Completed /\ \A j \in Completed : attemptRows[j].submitted = attempts[j].submitted
  BY DEF attemptRows
<1>3. PICK n \in Nat : n = Cardinality(Completed)
  BY <1>1
<1>4. /\ order \in [1..n -> Completed]
      /\ \A k, l \in 1..n : k # l => order[k] # order[l]
      /\ \A k, l \in 1..n : k < l => attempts[order[k]].submitted <= attempts[order[l]].submitted
  <2>1. order \in SetToSeqs(Completed)
    BY <1>2 DEF RowOrders
  <2>2. order \in [1..n -> Completed] /\ \A k, l \in 1..n : k # l => order[k] # order[l]
    BY <1>3, <2>1 DEF SetToSeqs
  <2>3. \A k, l \in 1..n : k < l => attemptRows[order[k]].submitted <= attemptRows[order[l]].submitted
    BY <2>2 DEF RowOrders
  <2> QED BY <1>2, <2>2, <2>3
<1>5. Len(order) = n /\ DOMAIN order = 1..n
  BY <1>4
<1>6. IsFiniteSet(1..n) /\ Cardinality(1..n) = n
  <2>1. PICK a \in Int, b \in Int : a = 1 /\ b = n
    OBVIOUS
  <2>2. IsFiniteSet(a..b) /\ Cardinality(a..b) = IF a > b THEN 0 ELSE b - a + 1
    BY FS_Interval
  <2> QED BY <2>1, <2>2
<1>7. \A j \in Completed : \E k \in 1..n : order[k] = j
  <2>1. order \in Injection(1..n, Completed)
    BY <1>4 DEF Injection, IsInjective
  <2>2. order \in Surjection(1..n, Completed)
    BY <1>1, <1>3, <1>6, <2>1, FS_Injection
  <2> QED BY <2>2 DEF Surjection
<1>8. PICK k \in 1..n : order[k] = i
  BY <1>7
<1>9. \A j \in Completed : attempts[j].submitted \in Int
  BY DEF Completed, QuizInv, AttemptsOK, ShapedAttempt
<1>10. PICK later : later = {order[l] : l \in k + 1 .. n}
  OBVIOUS
<1>11. IsFiniteSet(later) /\ Cardinality(later) = n - k
  <2>1. PICK f : f = [l \in k + 1 .. n |-> order[l]]
    OBVIOUS
  <2>2. \A l \in k + 1 .. n : l \in 1..n
    OBVIOUS
  <2>3. f \in Injection(k + 1 .. n, later) /\ f \in Surjection(k + 1 .. n, later)
    BY <1>4, <1>10, <2>1, <2>2 DEF Injection, IsInjective, Surjection
  <2>4. ExistsBijection(k + 1 .. n, later)
    BY <2>3 DEF ExistsBijection, Bijection
  <2>5. IsFiniteSet(k + 1 .. n) /\ Cardinality(k + 1 .. n) = n - k
    <3>1. PICK a \in Int : a = k + 1
      OBVIOUS
    <3>2. IsFiniteSet(a..n) /\ Cardinality(a..n) = IF a > n THEN 0 ELSE n - a + 1
      BY FS_Interval
    <3> QED BY <3>1, <3>2
  <2> QED BY <2>4, <2>5, FS_Bijection
<1>12. newer \subseteq later
  <2>1. ASSUME NEW j \in newer PROVE j \in later
    <3>1. j \in Completed /\ attempts[j].submitted > attempts[i].submitted
      OBVIOUS
    <3>2. PICK l \in 1..n : order[l] = j
      BY <1>7, <3>1
    <3>3. ~(l < k) /\ l # k
      BY <1>4, <1>8, <1>9, <3>1, <3>2
    <3>4. l \in k + 1 .. n
      BY <3>3
    <3> QED BY <1>10, <3>2, <3>4
  <2> QED BY <2>1
<1>13. later \subseteq newer \cup (tied \ {i})
  <2>1. ASSUME NEW l \in k + 1 .. n PROVE order[l] \in newer \cup (tied \ {i})
    <3>1. l \in 1..n /\ k < l
      OBVIOUS
    <3>2. order[l] \in Completed /\ order[l] # i /\ attempts[i].submitted <= attempts[order[l]].submitted
      BY <1>4, <1>8, <3>1
    <3> QED BY <1>9, <3>2
  <2> QED BY <1>10, <2>1
<1>14. /\ IsFiniteSet(newer) /\ Cardinality(newer) \in Nat
       /\ IsFiniteSet(tied) /\ Cardinality(tied) \in Nat
  BY <1>1, FS_Subset, FS_CardinalityType
<1>15. Cardinality(newer) <= n - k
  BY <1>11, <1>12, FS_Subset
<1>16. n - k < Cardinality(newer) + Cardinality(tied)
  <2>1. PICK others : others = tied \ {i}
    OBVIOUS
  <2>2. IsFiniteSet(others) /\ Cardinality(others) = Cardinality(tied) - 1
    BY <1>14, <2>1, FS_RemoveElement
  <2>3. newer \cap others = {}
    BY <1>9, <2>1
  <2>4. Cardinality(newer \cap others) = 0
    BY <2>3, FS_EmptySet
  <2>5. /\ IsFiniteSet(newer \cup others)
        /\ Cardinality(newer \cup others) = Cardinality(newer) + Cardinality(others) - Cardinality(newer \cap others)
    BY <1>14, <2>2, FS_Union
  <2>6. Cardinality(later) <= Cardinality(newer \cup others)
    BY <1>13, <2>1, <2>5, FS_Subset
  <2>7. PICK a \in Nat, b \in Nat : a = Cardinality(newer) /\ b = Cardinality(tied)
    BY <1>14
  <2>8. Cardinality(newer \cup others) = a + (b - 1) - 0
    BY <2>2, <2>4, <2>5, <2>7
  <2>9. n - k <= a + (b - 1) - 0
    BY <1>11, <2>6, <2>8
  <2>10. n - k < a + b
    BY <2>9
  <2> QED BY <2>7, <2>10
<1>17. k \in DOMAIN order /\ Len(order) = n /\ k \in Nat /\ k <= n
  BY <1>5
<1>18. PICK a, b : a = Cardinality(newer) /\ b = Cardinality(tied)
  OBVIOUS
<1>19. a \in Nat /\ b \in Nat /\ a <= Len(order) - k /\ Len(order) - k < a + b
  BY <1>14, <1>15, <1>16, <1>17, <1>18
<1> QED BY <1>8, <1>17, <1>18, <1>19

\* A completed attempt is on one of the pages its submission time leaves it.
LEMMA ReportedOnce ==
    ASSUME QuizInv, NEW i \in Completed, NEW order \in RowOrders(attemptRows),
           NEW newer, newer = {j \in Completed : attempts[j].submitted > attempts[i].submitted},
           NEW tied, tied = {j \in Completed : attempts[j].submitted = attempts[i].submitted}
    PROVE  \E page \in Cardinality(newer) + 1 .. Cardinality(newer) + Cardinality(tied) :
             [attempt |-> i, score |-> attempts[i].score] \in GetUserReports(page, 1, order).items
<1>1. PICK k \in DOMAIN order :
        /\ order[k] = i /\ Len(order) \in Nat /\ k \in Nat /\ k <= Len(order)
        /\ Cardinality(newer) \in Nat /\ Cardinality(tied) \in Nat
        /\ Cardinality(newer) <= Len(order) - k
        /\ Len(order) - k < Cardinality(newer) + Cardinality(tied)
  BY PlaceInReports
<1>2. PICK page \in Nat : page = Len(order) - k + 1
  BY <1>1
<1>3. page \in Cardinality(newer) + 1 .. Cardinality(newer) + Cardinality(tied)
  BY <1>1, <1>2
<1>4. Max({page, 1}) = page
  <2>1. page >= 1
    BY <1>1, <1>2
  <2>2. page \in {page, 1} /\ \A y \in {page, 1} : page >= y
    BY <2>1
  <2>3. \A x \in {page, 1} : (\A y \in {page, 1} : x >= y) => x = page
    BY <2>1
  <2> QED BY <2>2, <2>3 DEF Max
<1>5. Len(order) - k \in (page - 1) * 1 .. page * 1 - 1 /\ 1 \in 1..100
  BY <1>1, <1>2
<1>6. [attempt |-> order[k], score |-> attempts[order[k]].score] \in GetUserReports(page, 1, order).items
  BY <1>4, <1>5 DEF GetUserReports
<1> QED BY <1>1, <1>3, <1>6

\* The invariant says what the properties of attempts do.
LEMMA QuizTruth == QuizInv => OneResult /\ AttemptsBounded
<1>1. ASSUME QuizInv, NEW i \in DOMAIN attempts, told[i] # {}
      PROVE  told[i] = {loadResult(attempts[i])} /\ i \in Completed
  BY <1>1 DEF QuizInv, ToldOK, Completed
<1>2. QuizInv => OneResult
  <2>1. SUFFICES ASSUME QuizInv PROVE OneResult
    OBVIOUS
  <2>2. ASSUME NEW i \in DOMAIN attempts, told[i] # {}, NEW order \in RowOrders(attemptRows)
        PROVE  LET newer == {j \in Completed : attempts[j].submitted > attempts[i].submitted}
                   tied == {j \in Completed : attempts[j].submitted = attempts[i].submitted}
               IN \E page \in Cardinality(newer) + 1 .. Cardinality(newer) + Cardinality(tied) :
                    [attempt |-> i, score |-> attempts[i].score] \in GetUserReports(page, 1, order).items
    BY <1>1, <2>1, <2>2, ReportedOnce
  <2> QED BY <1>1, <2>1, <2>2 DEF OneResult
<1> QED BY <1>2, OwnersBound DEF QuizInv

\* A question in the form of a save request.
DraftQuestion == [text : BOOLEAN, type : STRING, options : Seq(BOOLEAN), correctIndex : Int, explained : BOOLEAN]

\* A stored question.
ShapedQuestion(q) ==
    /\ q \in [id : Nat, options : 2..6, key : Int, answerStatus : {"set", "unknown"}, explained : BOOLEAN]
    /\ q.key \in NoKey .. q.options - 1

\* The questions of a quiz have ids of their own, which were given out before.
TypedList(list, last) ==
    /\ IsSeq(list)
    /\ \A i \in DOMAIN list : ShapedQuestion(list[i]) /\ list[i].id \in 1..last
    /\ \A i, j \in DOMAIN list : list[i].id = list[j].id => i = j

\* The answer rows of an attempt.
TypedRows(rows, last) ==
    /\ IsFiniteSet(rows)
    /\ \A r \in rows : /\ r.question \in 1..last /\ r.isCorrect \in {"true", "false", "null"}
                       /\ r.isCorrect = "null" <=> r.selected = NoOption

\* The numbers of an attempt.
TypedCounts(a) == a.score \in 0..1000 /\ a.correct \in Nat /\ a.wrong \in Nat /\ a.skipped \in Nat

\* A request that saves has a draft that was accepted while the quiz was one.
TypedRequest(r) ==
    /\ r.kind \in {"idle", "save", "publish", "create", "analytics"}
    /\ r.kind = "save" => r.draft \in Drafts /\ ValidDraft(r.draft) /\ r.status = "draft"

\* The types of a quiz, its attempts, the requests and the dashboard.
QuizTyped ==
    /\ quizStatus \in {"draft", "published"} /\ lastID \in Nat /\ TypedList(questions, lastID)
    /\ \A i \in DOMAIN attempts : TypedCounts(attempts[i]) /\ TypedRows(attempts[i].rows, lastID)
    /\ \A c \in Clients : TypedRequest(requests[c])
    /\ cached.kind \in {"none", "entry"} /\ dropping \in Nat /\ today \in Nat
    /\ overlapped \in BOOLEAN /\ lagging \in BOOLEAN

\* A saved draft becomes a list of questions with the next ids.
LEMMA InsertedTyped ==
    ASSUME NEW draft \in Seq(DraftQuestion), ValidDraft(draft), NEW after \in Nat
    PROVE  /\ TypedList(Inserted(draft, after), after + Len(draft))
           /\ Len(Inserted(draft, after)) = Len(draft) /\ DOMAIN Inserted(draft, after) = DOMAIN draft
<1>1. PICK n \in Nat : n = Len(draft) /\ DOMAIN draft = 1..n
  OBVIOUS
<1>2. PICK list : list = Inserted(draft, after)
  OBVIOUS
<1>3. list = [i \in 1..n |-> Normalized(draft[i], after + i)]
  BY <1>1, <1>2 DEF Inserted
<1>4. list \in [1..n -> {list[i] : i \in 1..n}]
  BY <1>3
<1>5. IsSeq(list) /\ Len(list) = n /\ DOMAIN list = 1..n
  BY <1>4, SeqFrom
<1>6. ASSUME NEW i \in 1..n
      PROVE  ShapedQuestion(list[i]) /\ list[i].id = after + i
  <2>1. PICK q \in DraftQuestion : q = draft[i]
    BY <1>1
  <2>2. PICK m : m = Options(q)
    OBVIOUS
  <2>3. m \in 2..6
    <3>1. m \in OptionRange(q.type)
      BY <1>1, <2>1, <2>2 DEF ValidDraft
    <3> QED BY <3>1 DEF OptionRange
  <2>4. q.correctIndex \in Int /\ q.explained \in BOOLEAN
    BY <2>1 DEF DraftQuestion
  <2>5. list[i] = Normalized(q, after + i)
    BY <1>3, <2>1
  <2>6. PICK key \in Int, status \in {"set", "unknown"} :
          /\ list[i] = [id |-> after + i, options |-> m, key |-> key, answerStatus |-> status, explained |-> q.explained]
          /\ key \in NoKey .. m - 1
    <3>1. Known(q) <=> q.correctIndex \in 0 .. m - 1
      BY <2>2 DEF Known
    <3>2. CASE Known(q)
      <4>1. list[i] = [id |-> after + i, options |-> m, key |-> q.correctIndex, answerStatus |-> "set", explained |-> q.explained]
        BY <2>2, <2>5, <3>2 DEF Normalized
      <4> QED BY <2>3, <2>4, <3>1, <3>2, <4>1 DEF NoKey
    <3>3. CASE ~Known(q)
      <4>1. list[i] = [id |-> after + i, options |-> m, key |-> NoKey, answerStatus |-> "unknown", explained |-> q.explained]
        BY <2>2, <2>5, <3>3 DEF Normalized
      <4> QED BY <2>3, <4>1 DEF NoKey
    <3> QED BY <3>2, <3>3
  <2> QED BY <2>3, <2>4, <2>6 DEF ShapedQuestion
<1>7. \A i \in 1..n : after + i \in 1 .. after + n
  OBVIOUS
<1>8. TypedList(list, after + n)
  BY <1>5, <1>6, <1>7 DEF TypedList
<1> QED BY <1>1, <1>2, <1>5, <1>8

\* A request that is typed keeps the others.
LEMMA TypedAsk ==
    ASSUME Asked, \A c \in Clients : TypedRequest(requests[c]), NEW c \in Clients, NEW r, TypedRequest(r), Ask(c, r)
    PROVE  \A d \in Clients : TypedRequest(requests'[d])
<1>1. requests' = [requests EXCEPT ![c] = r] /\ DOMAIN requests = Clients
  BY DEF Ask, Asked
<1> QED BY <1>1

\* A reply leaves a client idle.
LEMMA TypedReply ==
    ASSUME Asked, \A c \in Clients : TypedRequest(requests[c]), NEW c \in Clients, Reply(c)
    PROVE  \A d \in Clients : TypedRequest(requests'[d])
<1>1. Ask(c, Idle)
  BY DEF Ask, Reply
<1>2. TypedRequest(Idle)
  BY DEF TypedRequest, Idle
<1> QED BY <1>1, <1>2, TypedAsk

\* What is asked of a score in tenths of a percent.
LEMMA ScoreIs ==
    ASSUME NEW correct \in Nat, NEW total \in Nat, correct <= total
    PROVE  scorePercent(correct, total) \in 0..1000
<1>1. CASE total = 0
  BY <1>1 DEF scorePercent
<1>2. CASE total > 0
  <2>1. PICK s \in Int : s = (2000 * correct + total) \div (2 * total)
    BY <1>2
  <2>2. PICK d \in Nat \ {0} : d = 2 * total
    BY <1>2
  <2>3. PICK x \in Nat : x = 2000 * correct + total
    OBVIOUS
  <2>4. s = x \div d /\ x <= 1000 * d + total /\ total < d
    BY <1>2, <2>1, <2>2, <2>3
  <2>5. d * s <= x /\ x < d * s + d
    BY <2>2, <2>3, <2>4
  <2>6. s <= 1000
    <3> SUFFICES ASSUME s >= 1001
                 PROVE  FALSE
      BY <2>1
    <3>1. PICK k \in Nat : s = 1001 + k
      BY <2>1
    <3>2. d * s = 1001 * d + d * k /\ d * k >= 0
      BY <2>2, <3>1
    <3> QED BY <2>2, <2>3, <2>4, <2>5, <3>2
  <2>7. s >= 0
    <3> SUFFICES ASSUME s <= -1
                 PROVE  FALSE
      BY <2>1
    <3>1. PICK k \in Nat : s = -1 - k
      <4>1. (0 - 1) - s \in Nat /\ s = -1 - ((0 - 1) - s)
        BY <2>1
      <4> QED BY <4>1
    <3>2. d * s = -d - d * k /\ d * k >= 0
      BY <2>2, <3>1
    <3> QED BY <2>2, <2>3, <2>5, <3>2
  <2> QED BY <1>2, <2>1, <2>6, <2>7 DEF scorePercent
<1> QED BY <1>1, <1>2

\* The rows of a submission: one for each question.
GradedRows(answers) == {Grade(questions[i], answers) : i \in DOMAIN questions}

\* They are answer rows, as many as questions.
LEMMA GradedRowsAre ==
    ASSUME TypedList(questions, lastID), NEW answers
    PROVE  /\ TypedRows(GradedRows(answers), lastID)
           /\ Cardinality(GradedRows(answers)) \in Nat
           /\ Cardinality(GradedRows(answers)) <= Len(questions) /\ Len(questions) \in Nat
<1>1. PICK n \in Nat : n = Len(questions) /\ DOMAIN questions = 1..n
  BY SeqIs DEF TypedList
<1>2. PICK rows : rows = GradedRows(answers)
  OBVIOUS
<1>3. PICK f : f = [i \in 1..n |-> Grade(questions[i], answers)]
  OBVIOUS
<1>4. rows = {f[i] : i \in 1..n}
  BY <1>1, <1>2, <1>3 DEF GradedRows
<1>5. IsFiniteSet(1..n) /\ Cardinality(1..n) = n
  <2>1. PICK a \in Int, b \in Int : a = 1 /\ b = n
    OBVIOUS
  <2>2. IsFiniteSet(a..b) /\ Cardinality(a..b) = IF a > b THEN 0 ELSE b - a + 1
    BY FS_Interval
  <2> QED BY <2>1, <2>2
<1>6. IsFiniteSet(rows) /\ Cardinality(rows) <= n
  <2>1. f \in Surjection(1..n, rows)
    BY <1>3, <1>4 DEF Surjection
  <2> QED BY <1>5, <2>1, FS_Surjection
<1>7. ASSUME NEW r \in rows
      PROVE  /\ r.question \in 1..lastID /\ r.isCorrect \in {"true", "false", "null"}
             /\ r.isCorrect = "null" <=> r.selected = NoOption
  <2>1. PICK i \in 1..n : r = Grade(questions[i], answers)
    BY <1>3, <1>4
  <2>2. questions[i].id \in 1..lastID
    BY <1>1 DEF TypedList
  <2>3. PICK o : o = Selected(answers, questions[i].id)
    OBVIOUS
  <2>4. PICK mark \in {"true", "false", "null"} :
          /\ r = [question |-> questions[i].id, selected |-> o, isCorrect |-> mark]
          /\ mark = "null" <=> o = NoOption
    BY <2>1, <2>3 DEF Grade
  <2> QED BY <2>2, <2>4
<1>8. Cardinality(rows) \in Nat
  BY <1>6, FS_CardinalityType
<1> QED BY <1>1, <1>2, <1>6, <1>7, <1>8 DEF TypedRows

\* A count of marks is not greater than the number of rows.
LEMMA TallyIs ==
    ASSUME NEW rows, IsFiniteSet(rows), NEW mark
    PROVE  Tally(rows, mark) \in Nat /\ Tally(rows, mark) <= Cardinality(rows)
<1>1. PICK S : S = {r \in rows : r.isCorrect = mark}
  OBVIOUS
<1>2. S \in SUBSET rows
  BY <1>1
<1>3. IsFiniteSet(S) /\ Cardinality(S) <= Cardinality(rows) /\ Cardinality(S) \in Nat
  BY <1>2, FS_Subset, FS_CardinalityType
<1> QED BY <1>1, <1>3 DEF Tally

\* A graded attempt has its rows and their counts.
LEMMA GradedIs ==
    ASSUME TypedList(questions, lastID), NEW a, ShapedAttempt(a), NEW answers, NEW at
    PROVE  /\ Graded(a, answers, at).rows = GradedRows(answers)
           /\ Graded(a, answers, at).correct = Tally(GradedRows(answers), "true")
           /\ Graded(a, answers, at).wrong = Tally(GradedRows(answers), "false")
           /\ Graded(a, answers, at).skipped = Tally(GradedRows(answers), "null")
           /\ TypedCounts(Graded(a, answers, at)) /\ TypedRows(GradedRows(answers), lastID)
<1>1. PICK rows : rows = GradedRows(answers)
  OBVIOUS
<1>2. PICK correct, wrong, skipped, score, b :
        /\ correct = Tally(rows, "true") /\ wrong = Tally(rows, "false") /\ skipped = Tally(rows, "null")
        /\ score = scorePercent(correct, Len(questions))
        /\ b = [a EXCEPT !.status = "completed", !.submitted = at, !.rows = rows, !.correct = correct,
                         !.wrong = wrong, !.skipped = skipped, !.score = score]
  OBVIOUS
<1>3. Graded(a, answers, at) = b
  BY <1>1, <1>2, Zenon DEF Graded, GradedRows
<1>4. b.rows = rows /\ b.correct = correct /\ b.wrong = wrong /\ b.skipped = skipped /\ b.score = score
  BY <1>2 DEF ShapedAttempt
<1>5. TypedRows(rows, lastID) /\ Cardinality(rows) \in Nat /\ Cardinality(rows) <= Len(questions) /\ Len(questions) \in Nat
  BY <1>1, GradedRowsAre
<1>6. correct \in Nat /\ wrong \in Nat /\ skipped \in Nat /\ correct <= Len(questions)
  <2>1. \A mark : Tally(rows, mark) \in Nat /\ Tally(rows, mark) <= Cardinality(rows)
    BY <1>5, TallyIs DEF TypedRows
  <2>2. correct \in Nat /\ wrong \in Nat /\ skipped \in Nat /\ correct <= Cardinality(rows)
    BY <1>2, <2>1
  <2> QED BY <1>5, <2>2
<1>7. score \in 0..1000
  BY <1>2, <1>5, <1>6, ScoreIs
<1> QED BY <1>1, <1>2, <1>3, <1>4, <1>5, <1>6, <1>7 DEF TypedCounts

\* Steps that leave the quiz and the attempts keep the types.
LEMMA TypedQuiet ==
    ASSUME QuizTyped, UNCHANGED <<quizStatus, questions, lastID, attempts>>,
           \A c \in Clients : TypedRequest(requests'[c]),
           cached'.kind \in {"none", "entry"}, dropping' \in Nat, today' \in Nat, overlapped' \in BOOLEAN, lagging' \in BOOLEAN
    PROVE  QuizTyped'
BY DEF QuizTyped

\* Requests, replies and the cache keep the types.
LEMMA TypedRequestStep ==
    ASSUME QuizInv, QuizTyped, NEW c \in Clients,
           \/ \E draft \in Drafts : HandleSaveDraft(c, draft)
           \/ HandlePublishDraft(c) \/ HandleCreateAttempt(c, today)
           \/ HandleGetAnalytics(c) \/ StoreAnalytics(c) \/ RequestFails(c)
    PROVE  QuizTyped'
<1>1. Asked /\ \A d \in Clients : TypedRequest(requests[d])
  BY DEF QuizInv, QuizTyped
<1>2. cached.kind \in {"none", "entry"} /\ dropping \in Nat /\ today \in Nat /\ overlapped \in BOOLEAN /\ lagging \in BOOLEAN
  BY DEF QuizTyped
<1>3. UNCHANGED <<quizStatus, questions, lastID, attempts, dropping, today, overlapped>>
  BY DEF HandleSaveDraft, HandlePublishDraft, HandleCreateAttempt, HandleGetAnalytics, StoreAnalytics, RequestFails
<1>4. CASE UNCHANGED <<cached, lagging>>
  <2>1. ASSUME NEW r, TypedRequest(r), Ask(c, r)
        PROVE  QuizTyped'
    <3>1. \A d \in Clients : TypedRequest(requests'[d])
      BY <1>1, <2>1, TypedAsk
    <3> QED BY <1>2, <1>3, <1>4, <3>1, TypedQuiet
  <2>2. ASSUME Reply(c)
        PROVE  QuizTyped'
    <3>1. \A d \in Clients : TypedRequest(requests'[d])
      BY <1>1, <2>2, TypedReply
    <3> QED BY <1>2, <1>3, <1>4, <3>1, TypedQuiet
  <2>3. ASSUME NEW draft \in Drafts, HandleSaveDraft(c, draft)
        PROVE  QuizTyped'
    <3>1. PICK r : r = [kind |-> "save", status |-> quizStatus, draft |-> draft]
      OBVIOUS
    <3>2. Ask(c, r) /\ TypedRequest(r)
      BY <2>3, <3>1 DEF HandleSaveDraft, TypedRequest
    <3> QED BY <2>1, <3>2
  <2>4. CASE HandlePublishDraft(c)
    <3>1. PICK r, todo : Ask(c, r) /\ r = [kind |-> "publish", status |-> quizStatus, todo |-> todo]
      BY <2>4 DEF HandlePublishDraft
    <3>2. TypedRequest(r)
      BY <3>1 DEF TypedRequest
    <3> QED BY <2>1, <3>1, <3>2
  <2>5. CASE HandleCreateAttempt(c, today)
    <3>1. PICK r, at : Ask(c, r) /\ r = [kind |-> "create", started |-> at]
      BY <2>5 DEF HandleCreateAttempt
    <3>2. TypedRequest(r)
      BY <3>1 DEF TypedRequest
    <3> QED BY <2>1, <3>1, <3>2
  <2>6. CASE HandleGetAnalytics(c)
    <3>1. PICK r, payload, read : Ask(c, r) /\ r = [kind |-> "analytics", payload |-> payload, day |-> today, read |-> read]
      BY <2>6 DEF HandleGetAnalytics
    <3>2. TypedRequest(r)
      BY <3>1 DEF TypedRequest
    <3> QED BY <2>1, <3>1, <3>2
  <2>7. CASE StoreAnalytics(c) \/ RequestFails(c)
    BY <2>2, <2>7 DEF StoreAnalytics, RequestFails
  <2> QED BY <2>3, <2>4, <2>5, <2>6, <2>7
<1>5. CASE StoreAnalytics(c)
  <2>1. cached'.kind = "entry" /\ lagging' \in BOOLEAN /\ Reply(c)
    BY <1>5 DEF StoreAnalytics
  <2>2. \A d \in Clients : TypedRequest(requests'[d])
    BY <1>1, <2>1, TypedReply
  <2> QED BY <1>2, <1>3, <2>1, <2>2, TypedQuiet
<1>6. UNCHANGED <<cached, lagging>> \/ StoreAnalytics(c)
  BY DEF HandleSaveDraft, HandlePublishDraft, HandleCreateAttempt, HandleGetAnalytics, RequestFails
<1> QED BY <1>4, <1>5, <1>6

\* Steps without a client keep the types.
LEMMA TypedOtherStep ==
    ASSUME QuizTyped, invalidateAnalytics \/ EntryExpires \/ DayPasses \/ UNCHANGED quizVars
    PROVE  QuizTyped'
<1>1. UNCHANGED <<quizStatus, questions, lastID, attempts, requests, overlapped>>
  BY DEF invalidateAnalytics, EntryExpires, DayPasses, quizVars
<1>2. /\ cached.kind \in {"none", "entry"} /\ dropping \in Nat /\ today \in Nat /\ overlapped \in BOOLEAN /\ lagging \in BOOLEAN
      /\ \A c \in Clients : TypedRequest(requests[c])
  BY DEF QuizTyped
<1>3. CASE invalidateAnalytics
  <2>1. cached'.kind \in {"none", "entry"} /\ dropping' \in Nat /\ lagging' \in BOOLEAN /\ today' = today
    <3>1. cached' = None \/ cached' = cached
      BY <1>3 DEF invalidateAnalytics
    <3>2. lagging' = FALSE \/ lagging' = (lagging \/ cached # None)
      BY <1>3 DEF invalidateAnalytics
    <3>3. None.kind = "none"
      BY DEF None
    <3>4. dropping' \in Nat /\ today' = today
      BY <1>2, <1>3 DEF invalidateAnalytics
    <3>5. (lagging \/ cached # None) \in BOOLEAN
      BY <1>2
    <3> QED BY <1>2, <3>1, <3>2, <3>3, <3>4, <3>5
  <2> QED BY <1>1, <1>2, <2>1, TypedQuiet
<1>4. CASE EntryExpires
  <2>1. cached'.kind \in {"none", "entry"} /\ dropping' = dropping /\ lagging' \in BOOLEAN /\ today' = today
    BY <1>4 DEF EntryExpires, None
  <2> QED BY <1>1, <1>2, <2>1, TypedQuiet
<1>5. CASE DayPasses
  <2>1. cached' = cached /\ dropping' = dropping /\ lagging' = lagging /\ today' = today + 1
    BY <1>5 DEF DayPasses
  <2> QED BY <1>1, <1>2, <2>1, TypedQuiet
<1>6. CASE UNCHANGED quizVars
  <2>1. UNCHANGED <<cached, dropping, lagging, today>>
    BY <1>6 DEF quizVars
  <2> QED BY <1>1, <1>2, <2>1, TypedQuiet
<1> QED BY <1>3, <1>4, <1>5, <1>6

\* Ids that were given out stay among the given ones.
LEMMA TypedLater ==
    ASSUME NEW rows, NEW last \in Nat, NEW later \in Nat, last <= later, TypedRows(rows, last)
    PROVE  TypedRows(rows, later)
<1>1. \A id \in 1..last : id \in 1..later
  OBVIOUS
<1> QED BY <1>1 DEF TypedRows

\* Saving a draft replaces questions and deletes answers.
LEMMA TypedSave ==
    ASSUME QuizInv, QuizTyped, NEW c \in Clients, SaveDraft(c)
    PROVE  QuizTyped'
<1>1. PICK draft : draft = requests[c].draft
  OBVIOUS
<1>2. draft \in Seq(DraftQuestion) /\ ValidDraft(draft)
  <2>1. draft \in Drafts /\ ValidDraft(draft)
    BY <1>1 DEF QuizTyped, TypedRequest, SaveDraft
  <2> QED BY <2>1, DraftAssumption DEF DraftQuestion
<1>3. lastID \in Nat /\ Len(draft) \in Nat /\ lastID' = lastID + Len(draft) /\ lastID' \in Nat /\ lastID <= lastID'
  BY <1>1, <1>2 DEF QuizTyped, SaveDraft
<1>4. TypedList(questions', lastID')
  <2>1. questions' = Inserted(draft, lastID)
    BY <1>1 DEF SaveDraft
  <2>2. TypedList(Inserted(draft, lastID), lastID + Len(draft))
    BY <1>2, <1>3, InsertedTyped
  <2> QED BY <1>3, <2>1, <2>2
<1>5. PICK gone : gone = IDs(questions)
  OBVIOUS
<1>6. attempts' = [i \in DOMAIN attempts |-> WithoutAnswers(attempts[i], gone)]
  BY <1>5 DEF SaveDraft
<1>7. DOMAIN attempts' = DOMAIN attempts
  BY <1>6
<1>8. ASSUME NEW i \in DOMAIN attempts
      PROVE  TypedCounts(attempts'[i]) /\ TypedRows(attempts'[i].rows, lastID')
  <2>1. ShapedAttempt(attempts[i]) /\ TypedCounts(attempts[i]) /\ TypedRows(attempts[i].rows, lastID)
    BY DEF QuizInv, AttemptsOK, QuizTyped
  <2>2. PICK rows : rows = {r \in attempts[i].rows : r.question \notin gone}
    OBVIOUS
  <2>3. PICK b : b = [attempts[i] EXCEPT !.rows = rows]
    OBVIOUS
  <2>4. attempts'[i] = b
    BY <1>6, <2>2, <2>3 DEF WithoutAnswers
  <2>5. /\ b.rows = rows /\ b.score = attempts[i].score /\ b.correct = attempts[i].correct
        /\ b.wrong = attempts[i].wrong /\ b.skipped = attempts[i].skipped
    BY <2>1, <2>3 DEF ShapedAttempt
  <2>6. TypedCounts(b)
    BY <2>1, <2>5 DEF TypedCounts
  <2>7. TypedRows(rows, lastID)
    <3>1. rows \in SUBSET attempts[i].rows
      BY <2>2
    <3>2. IsFiniteSet(rows)
      BY <2>1, <3>1, FS_Subset DEF TypedRows
    <3> QED BY <2>1, <3>1, <3>2 DEF TypedRows
  <2>8. TypedRows(rows, lastID')
    <3>1. PICK later \in Nat : later = lastID'
      BY <1>3
    <3>2. TypedRows(rows, later)
      BY <1>3, <2>7, <3>1, TypedLater
    <3> QED BY <3>1, <3>2
  <2> QED BY <2>4, <2>5, <2>6, <2>8
<1>9. \A d \in Clients : TypedRequest(requests'[d])
  BY TypedReply DEF QuizInv, QuizTyped, SaveDraft
<1>10. UNCHANGED <<quizStatus, cached, dropping, today, lagging>> /\ overlapped' \in BOOLEAN
  BY DEF QuizTyped, SaveDraft
<1> QED BY <1>3, <1>4, <1>7, <1>8, <1>9, <1>10 DEF QuizTyped

\* An explanation and a publication change fields of questions that are no ids.
LEMMA TypedFields ==
    ASSUME TypedList(questions, lastID), NEW g,
           \A i \in DOMAIN questions : ShapedQuestion(g[i]) /\ g[i].id = questions[i].id,
           g = [i \in DOMAIN questions |-> g[i]]
    PROVE  TypedList(g, lastID) /\ DOMAIN g = DOMAIN questions
<1>1. PICK n \in Nat : n = Len(questions) /\ DOMAIN questions = 1..n
  BY SeqIs DEF TypedList
<1>2. g \in [1..n -> {g[i] : i \in 1..n}]
  BY <1>1
<1>3. IsSeq(g) /\ DOMAIN g = 1..n
  BY <1>2, SeqFrom
<1> QED BY <1>1, <1>3 DEF TypedList

\* Explaining keeps the types.
LEMMA TypedExplain ==
    ASSUME QuizInv, QuizTyped, NEW c \in Clients, ExplainQuestion(c)
    PROVE  QuizTyped' /\ DOMAIN questions' = DOMAIN questions
           /\ \A i \in DOMAIN questions : /\ questions'[i].id = questions[i].id /\ questions'[i].key = questions[i].key
                                          /\ questions'[i].answerStatus = questions[i].answerStatus
<1>1. PICK q : q = Head(requests[c].todo)
  OBVIOUS
<1>2. \/ UNCHANGED questions
      \/ questions' = [i \in DOMAIN questions |->
                        IF questions[i].id = q.id THEN [questions[i] EXCEPT !.explained = TRUE] ELSE questions[i]]
  BY <1>1 DEF ExplainQuestion
<1>3. TypedList(questions, lastID)
  BY DEF QuizTyped
<1>4. /\ TypedList(questions', lastID) /\ DOMAIN questions' = DOMAIN questions
      /\ \A i \in DOMAIN questions : /\ questions'[i].id = questions[i].id /\ questions'[i].key = questions[i].key
                                     /\ questions'[i].answerStatus = questions[i].answerStatus
  <2>1. CASE UNCHANGED questions
    BY <1>3, <2>1
  <2>2. CASE questions' = [i \in DOMAIN questions |->
                        IF questions[i].id = q.id THEN [questions[i] EXCEPT !.explained = TRUE] ELSE questions[i]]
    <3>1. PICK g : g = questions'
      OBVIOUS
    <3>2. \A i \in DOMAIN questions : g[i] = [questions[i] EXCEPT !.explained = TRUE] \/ g[i] = questions[i]
      BY <2>2, <3>1
    <3>3. g = [i \in DOMAIN questions |-> g[i]]
      BY <2>2, <3>1
    <3>4. ASSUME NEW i \in DOMAIN questions
          PROVE  /\ ShapedQuestion(g[i]) /\ g[i].id = questions[i].id /\ g[i].key = questions[i].key
                 /\ g[i].answerStatus = questions[i].answerStatus
      <4>1. ShapedQuestion(questions[i])
        BY <1>3 DEF TypedList
      <4> QED BY <3>2, <4>1 DEF ShapedQuestion
    <3>5. TypedList(g, lastID) /\ DOMAIN g = DOMAIN questions
      BY <1>3, <3>3, <3>4, TypedFields
    <3> QED BY <3>1, <3>4, <3>5
  <2> QED BY <1>2, <2>1, <2>2
<1>5. \A d \in Clients : TypedRequest(requests'[d])
  <2>1. Asked /\ \A d \in Clients : TypedRequest(requests[d])
    BY DEF QuizInv, QuizTyped
  <2>2. PICK rest : rest = [requests[c] EXCEPT !.todo = Tail(@)]
    OBVIOUS
  <2>3. Ask(c, rest) \/ Reply(c)
    BY <2>2 DEF ExplainQuestion
  <2>4. TypedRequest(rest)
    <3>1. rest.kind = requests[c].kind /\ requests[c].kind = "publish"
      BY <2>2 DEF ExplainQuestion
    <3> QED BY <3>1 DEF TypedRequest
  <2> QED BY <2>1, <2>3, <2>4, TypedAsk, TypedReply
<1>6. UNCHANGED <<quizStatus, lastID, attempts, cached, dropping, today, overlapped, lagging>>
  BY DEF ExplainQuestion
<1> QED BY <1>4, <1>5, <1>6 DEF QuizTyped

\* Publishing keeps the types.
LEMMA TypedPublish ==
    ASSUME QuizInv, QuizTyped, NEW c \in Clients, PublishDraft(c)
    PROVE  QuizTyped' /\ DOMAIN questions' = DOMAIN questions
           /\ \A i \in DOMAIN questions : /\ questions'[i].id = questions[i].id /\ questions'[i].key = questions[i].key
                                          /\ questions'[i].answerStatus = "set"
<1>1. PICK g : g = questions'
  OBVIOUS
<1>2. g = [i \in DOMAIN questions |-> [questions[i] EXCEPT !.answerStatus = "set"]]
  BY <1>1 DEF PublishDraft
<1>3. TypedList(questions, lastID)
  BY DEF QuizTyped
<1>4. ASSUME NEW i \in DOMAIN questions
      PROVE  ShapedQuestion(g[i]) /\ g[i].id = questions[i].id /\ g[i].key = questions[i].key /\ g[i].answerStatus = "set"
  <2>1. ShapedQuestion(questions[i]) /\ g[i] = [questions[i] EXCEPT !.answerStatus = "set"]
    BY <1>2, <1>3 DEF TypedList
  <2> QED BY <2>1 DEF ShapedQuestion
<1>5. g = [i \in DOMAIN questions |-> g[i]]
  BY <1>2
<1>6. TypedList(g, lastID) /\ DOMAIN g = DOMAIN questions
  BY <1>3, <1>4, <1>5, TypedFields
<1>7. \A d \in Clients : TypedRequest(requests'[d])
  BY TypedReply DEF QuizInv, QuizTyped, PublishDraft
<1>8. UNCHANGED <<lastID, attempts, cached, dropping, today, overlapped, lagging>> /\ quizStatus' = "published"
  BY DEF PublishDraft
<1> QED BY <1>1, <1>4, <1>6, <1>7, <1>8 DEF QuizTyped

\* A new attempt has no rows.
LEMMA TypedCreate ==
    ASSUME QuizInv, QuizTyped, NEW c \in Clients, CreateAttempt(c)
    PROVE  QuizTyped'
<1>1. PICK a : /\ a = [status |-> "in_progress", started |-> requests[c].started,
                       submitted |-> requests[c].started, correct |-> 0, wrong |-> 0, skipped |-> 0,
                       score |-> 0, rows |-> {}]
               /\ attempts' = Append(attempts, a)
  BY DEF CreateAttempt
<1>2. PICK n \in Nat : n = Len(attempts) /\ DOMAIN attempts = 1..n /\ IsSeq(attempts)
  BY SeqIs DEF QuizInv, AttemptsOK
<1>3. DOMAIN attempts' = 1 .. n + 1 /\ (\A i \in 1..n : attempts'[i] = attempts[i]) /\ attempts'[n + 1] = a
  BY <1>1, <1>2, SeqApp
<1>4. TypedCounts(a) /\ TypedRows(a.rows, lastID)
  <2>1. IsFiniteSet({})
    BY FS_EmptySet
  <2>2. a.rows = {} /\ a.score = 0 /\ a.correct = 0 /\ a.wrong = 0 /\ a.skipped = 0
    BY <1>1
  <2> QED BY <2>1, <2>2 DEF TypedCounts, TypedRows
<1>5. \A i \in 1 .. n + 1 : i \in 1..n \/ i = n + 1
  OBVIOUS
<1>6. \A i \in DOMAIN attempts' : TypedCounts(attempts'[i]) /\ TypedRows(attempts'[i].rows, lastID)
  BY <1>2, <1>3, <1>4, <1>5 DEF QuizTyped
<1>7. \A d \in Clients : TypedRequest(requests'[d])
  BY TypedReply DEF QuizInv, QuizTyped, CreateAttempt
<1>8. UNCHANGED <<quizStatus, questions, lastID, cached, dropping, today, overlapped, lagging>>
  BY DEF CreateAttempt
<1> QED BY <1>6, <1>7, <1>8 DEF QuizTyped

\* What a submission does to the attempts: the one that runs is graded.
LEMMA SubmitIs ==
    ASSUME QuizInv, NEW c \in Clients, NEW i \in DOMAIN attempts, NEW answers, NEW at \in Int,
           HandleSubmitAttempt(c, i, answers, at)
    PROVE  /\ DOMAIN attempts' = DOMAIN attempts /\ \A j \in DOMAIN attempts \ {i} : attempts'[j] = attempts[j]
           /\ \/ attempts[i].status = "completed" /\ attempts' = attempts /\ dropping' = dropping
              \/ attempts[i].status = "in_progress" /\ attempts'[i] = Graded(attempts[i], answers, at)
                   /\ dropping' = dropping + 1
           /\ UNCHANGED <<quizStatus, questions, lastID, requests, cached, today, overlapped, quizBudget, lagging>>
<1>1. SubmitAttempt(i, answers, at) /\ UNCHANGED <<quizStatus, questions, lastID, requests, cached, today, overlapped, quizBudget>>
  BY DEF HandleSubmitAttempt
<1>2. attempts[i].status \in {"in_progress", "completed"}
  BY DEF QuizInv, AttemptsOK, ShapedAttempt
<1>3. UNCHANGED lagging
  BY <1>1 DEF SubmitAttempt
<1>4. CASE attempts[i].status # "in_progress"
  BY <1>1, <1>2, <1>3, <1>4 DEF SubmitAttempt
<1>5. CASE attempts[i].status = "in_progress"
  <2>1. PICK b : b = Graded(attempts[i], answers, at)
    OBVIOUS
  <2>2. attempts' = [attempts EXCEPT ![i] = b] /\ dropping' = dropping + 1
    BY <1>1, <1>5, <2>1 DEF SubmitAttempt
  <2>3. DOMAIN attempts' = DOMAIN attempts /\ attempts'[i] = b /\ \A j \in DOMAIN attempts \ {i} : attempts'[j] = attempts[j]
    BY <2>2
  <2> QED BY <1>1, <1>3, <1>5, <2>1, <2>2, <2>3
<1> QED BY <1>4, <1>5

\* A submission keeps the types.
LEMMA TypedSubmit ==
    ASSUME QuizInv, QuizTyped, NEW c \in Clients, NEW i \in DOMAIN attempts, NEW answers, NEW at \in Int,
           HandleSubmitAttempt(c, i, answers, at)
    PROVE  QuizTyped'
<1>1. /\ DOMAIN attempts' = DOMAIN attempts /\ \A j \in DOMAIN attempts \ {i} : attempts'[j] = attempts[j]
      /\ \/ attempts[i].status = "completed" /\ attempts' = attempts /\ dropping' = dropping
         \/ attempts[i].status = "in_progress" /\ attempts'[i] = Graded(attempts[i], answers, at)
              /\ dropping' = dropping + 1
      /\ UNCHANGED <<quizStatus, questions, lastID, requests, cached, today, overlapped, quizBudget, lagging>>
  BY SubmitIs
<1>2. PICK a : a = attempts[i]
  OBVIOUS
<1>3. ShapedAttempt(a) /\ TypedList(questions, lastID)
  BY <1>2 DEF QuizInv, AttemptsOK, QuizTyped
<1>4. PICK b : b = Graded(a, answers, at)
  OBVIOUS
<1>5. TypedCounts(b) /\ TypedRows(b.rows, lastID)
  BY <1>3, <1>4, GradedIs
<1>6. attempts'[i] = b \/ attempts'[i] = attempts[i]
  BY <1>1, <1>2, <1>4
<1>7. \A j \in DOMAIN attempts' : TypedCounts(attempts'[j]) /\ TypedRows(attempts'[j].rows, lastID)
  BY <1>1, <1>5, <1>6 DEF QuizTyped
<1>8. dropping' \in Nat
  BY <1>1 DEF QuizTyped
<1> QED BY <1>1, <1>7, <1>8 DEF QuizTyped

\* Every step keeps the types.
LEMMA QuizTypedStep ==
    ASSUME QuizInv, QuizTyped, [QuizNext]_quizVars
    PROVE  QuizTyped'
<1>1. CASE invalidateAnalytics \/ EntryExpires \/ DayPasses \/ UNCHANGED quizVars
  BY <1>1, TypedOtherStep
<1>2. CASE \E c \in Clients :
             \/ \E draft \in Drafts : HandleSaveDraft(c, draft)
             \/ HandlePublishDraft(c) \/ HandleCreateAttempt(c, today)
             \/ HandleGetAnalytics(c) \/ StoreAnalytics(c) \/ RequestFails(c)
  BY <1>2, TypedRequestStep
<1>3. CASE \E c \in Clients : SaveDraft(c) \/ ExplainQuestion(c) \/ PublishDraft(c) \/ CreateAttempt(c)
  BY <1>3, TypedSave, TypedExplain, TypedPublish, TypedCreate
<1>4. CASE \E c \in Clients : \E i \in DOMAIN attempts, answers \in Sheets, skew \in Skews :
             HandleSubmitAttempt(c, i, answers, today + skew)
  <2>1. PICK c \in Clients, i \in DOMAIN attempts, answers \in Sheets, skew \in Skews :
          HandleSubmitAttempt(c, i, answers, today + skew)
    BY <1>4
  <2>2. today + skew \in Int
    BY QuizAssumption DEF QuizTyped
  <2> QED BY <2>1, <2>2, TypedSubmit
<1> QED BY <1>1, <1>2, <1>3, <1>4 DEF QuizNext

\* The types hold in the beginning.
LEMMA QuizTypedInit ==
    ASSUME QuizInit
    PROVE  QuizTyped
<1>1. PICK draft : draft \in {FirstDraft, Generated} /\ questions = Inserted(draft, 0) /\ lastID = Len(questions)
  BY DEF QuizInit
<1>2. draft \in Seq(DraftQuestion) /\ ValidDraft(draft)
  BY <1>1, DraftAssumption DEF DraftQuestion
<1>3. TypedList(questions, lastID) /\ lastID \in Nat
  <2>1. Len(draft) \in Nat /\ 0 + Len(draft) = Len(draft)
    BY <1>2
  <2>2. TypedList(Inserted(draft, 0), 0 + Len(draft)) /\ Len(Inserted(draft, 0)) = Len(draft)
    BY <1>2, InsertedTyped
  <2> QED BY <1>1, <2>1, <2>2
<1>4. attempts = <<>> /\ requests = [c \in Clients |-> Idle] /\ cached = None /\ dropping = 0 /\ today \in Nat
  BY QuizAssumption DEF QuizInit
<1>5. \A c \in Clients : TypedRequest(requests[c])
  BY <1>4 DEF TypedRequest, Idle
<1>6. quizStatus \in {"draft", "published"} /\ overlapped = FALSE /\ lagging = FALSE
  BY DEF QuizInit
<1>7. cached.kind = "none"
  BY <1>4 DEF None
<1>8. DOMAIN attempts = {}
  BY <1>4
<1> QED BY <1>3, <1>4, <1>5, <1>6, <1>7, <1>8 DEF QuizTyped

\* The types are those of the type invariant.
LEMMA QuizTypes ==
    ASSUME QuizInv, QuizTyped
    PROVE  QuizTypeOK
<1>1. \A i \in DOMAIN questions :
         /\ questions[i].id \in 1..lastID /\ questions[i].options \in 2..6
         /\ questions[i].key \in NoKey .. questions[i].options - 1
  BY DEF QuizTyped, TypedList, ShapedQuestion
<1>2. \A i \in DOMAIN attempts :
         /\ attempts[i].status \in {"in_progress", "completed"} /\ attempts[i].score \in 0..1000
         /\ \A r \in attempts[i].rows : r.question \in 1..lastID /\ r.isCorrect \in {"true", "false", "null"}
  BY DEF QuizInv, AttemptsOK, ShapedAttempt, QuizTyped, TypedCounts, TypedRows
<1>3. \A c \in Clients : requests[c].kind \in {"idle", "save", "publish", "create", "analytics"}
  BY DEF QuizTyped, TypedRequest
<1>4. ASSUME NEW i \in DOMAIN told
      PROVE  told[i] \subseteq Results
  <2>1. i \in DOMAIN attempts
    BY SeqIs DEF QuizInv, AttemptsOK, ToldOK
  <2>2. PICK a : a = attempts[i]
    OBVIOUS
  <2>3. ShapedAttempt(a) /\ TypedCounts(a)
    BY <2>1, <2>2 DEF QuizInv, AttemptsOK, QuizTyped
  <2>4. PICK time : time = Max({0, a.submitted - a.started})
    OBVIOUS
  <2>5. time \in Nat
    <3>1. PICK d \in Int : d = a.submitted - a.started
      BY <2>3 DEF ShapedAttempt
    <3>2. Max({0, d}) \in {0, d} /\ Max({0, d}) >= 0
      BY TwoMost
    <3> QED BY <2>4, <3>1, <3>2
  <2>6. PICK total \in Nat : total = a.correct + a.wrong + a.skipped
    BY <2>3 DEF TypedCounts
  <2>7. loadResult(a) = [score |-> a.score, correct |-> a.correct, wrong |-> a.wrong, skipped |-> a.skipped,
                         total |-> total, time |-> time]
    BY <2>4, <2>6 DEF loadResult
  <2>8. loadResult(a) \in Results
    BY <2>3, <2>5, <2>6, <2>7 DEF TypedCounts, Results
  <2>9. told[i] = {} \/ told[i] = {loadResult(a)}
    BY <2>1, <2>2 DEF QuizInv, ToldOK
  <2> QED BY <2>8, <2>9
<1> QED BY <1>1, <1>2, <1>3, <1>4 DEF QuizTypeOK, QuizTyped, Marks

\* Every question has a key.
AllKeyed == \A i \in DOMAIN questions : Keyed(questions[i])

\* A graded attempt has one row for each question, and the counts of its marks.
AllAnswered(a, ids) ==
    /\ \A r \in a.rows : r.question \in ids
    /\ \A id \in ids : \E r \in a.rows : r.question = id
    /\ \A r, s \in a.rows : r.question = s.question => r = s
    /\ a.correct = Tally(a.rows, "true") /\ a.wrong = Tally(a.rows, "false") /\ a.skipped = Tally(a.rows, "null")

\* A draft has no attempts.  Unless a save overlapped a publication, questions have their
\* keys from the moment a publication has checked them, and attempts their rows.
QuizStable ==
    /\ quizStatus = "draft" => attempts = <<>> /\ \A c \in Clients : requests[c].kind # "create"
    /\ ~overlapped =>
         /\ Publishing # {} \/ quizStatus = "published" => AllKeyed
         /\ quizStatus = "published" =>
              /\ \A i \in DOMAIN questions : questions[i].answerStatus = "set"
              /\ \A i \in Completed : AllAnswered(attempts[i], IDs(questions))

\* The rows of a submission answer every question once.
LEMMA GradedAnswered ==
    ASSUME TypedList(questions, lastID), NEW a, ShapedAttempt(a), NEW answers, NEW at
    PROVE  AllAnswered(Graded(a, answers, at), IDs(questions))
<1>1. PICK rows : rows = GradedRows(answers)
  OBVIOUS
<1>2. PICK b : b = Graded(a, answers, at)
  OBVIOUS
<1>3. /\ b.rows = rows /\ b.correct = Tally(rows, "true") /\ b.wrong = Tally(rows, "false")
      /\ b.skipped = Tally(rows, "null")
  BY <1>1, <1>2, GradedIs
<1>4. \A q : Grade(q, answers).question = q.id
  BY DEF Grade
<1>5. \A r \in rows : \E i \in DOMAIN questions : r = Grade(questions[i], answers) /\ r.question = questions[i].id
  BY <1>1, <1>4 DEF GradedRows
<1>6. \A r \in rows : r.question \in IDs(questions)
  BY <1>5 DEF IDs
<1>7. ASSUME NEW id \in IDs(questions)
      PROVE  \E r \in rows : r.question = id
  <2>1. PICK i \in DOMAIN questions : id = questions[i].id
    BY DEF IDs
  <2>2. Grade(questions[i], answers) \in rows
    BY <1>1 DEF GradedRows
  <2> QED BY <1>4, <2>1, <2>2
<1>8. ASSUME NEW r \in rows, NEW s \in rows, r.question = s.question
      PROVE  r = s
  <2>1. PICK i \in DOMAIN questions : r = Grade(questions[i], answers) /\ r.question = questions[i].id
    BY <1>5
  <2>2. PICK j \in DOMAIN questions : s = Grade(questions[j], answers) /\ s.question = questions[j].id
    BY <1>5
  <2>3. i = j
    BY <1>8, <2>1, <2>2 DEF TypedList
  <2> QED BY <2>1, <2>2, <2>3
<1> QED BY <1>2, <1>3, <1>6, <1>7, <1>8 DEF AllAnswered

\* Steps that touch neither the questions nor the attempts, and start no publication or
\* attempt that the status does not allow.
LEMMA StableQuiet ==
    ASSUME QuizStable, UNCHANGED <<quizStatus, questions, attempts, overlapped>>,
           \A c \in Clients : /\ requests'[c].kind = "create" => requests[c].kind = "create" \/ quizStatus # "draft"
                              /\ requests'[c].kind = "publish" => requests[c].kind = "publish" \/ AllKeyed
    PROVE  QuizStable'
<1>1. Publishing' # {} => Publishing # {} \/ AllKeyed
  BY DEF Publishing
<1>2. Completed' = Completed /\ (AllKeyed' <=> AllKeyed)
  BY DEF Completed, AllKeyed
<1> QED BY <1>1, <1>2 DEF QuizStable, Publishing

\* Requests and replies.
LEMMA StableRequestStep ==
    ASSUME QuizInv, QuizStable, NEW c \in Clients,
           \/ \E draft \in Drafts : HandleSaveDraft(c, draft)
           \/ HandlePublishDraft(c) \/ HandleCreateAttempt(c, today)
           \/ HandleGetAnalytics(c) \/ StoreAnalytics(c) \/ RequestFails(c)
    PROVE  QuizStable'
<1>1. UNCHANGED <<quizStatus, questions, attempts, overlapped>>
  BY DEF HandleSaveDraft, HandlePublishDraft, HandleCreateAttempt, HandleGetAnalytics, StoreAnalytics, RequestFails
<1>2. requests \in [Clients -> Elements(requests)]
  BY DEF QuizInv, Asked
<1>3. ASSUME NEW r, Ask(c, r), r.kind = "create" => quizStatus # "draft", r.kind = "publish" => AllKeyed
      PROVE  QuizStable'
  <2>1. requests'[c] = r /\ \A d \in Clients \ {c} : requests'[d] = requests[d]
    BY <1>2, <1>3 DEF Ask
  <2> QED BY <1>1, <1>3, <2>1, StableQuiet
<1>4. ASSUME NEW draft \in Drafts, HandleSaveDraft(c, draft)
      PROVE  QuizStable'
  BY <1>3, <1>4 DEF HandleSaveDraft
<1>5. CASE HandlePublishDraft(c)
  BY <1>3, <1>5 DEF HandlePublishDraft, AllKeyed
<1>6. CASE HandleCreateAttempt(c, today)
  BY <1>3, <1>6 DEF HandleCreateAttempt
<1>7. CASE HandleGetAnalytics(c)
  BY <1>3, <1>7 DEF HandleGetAnalytics
<1>8. CASE StoreAnalytics(c) \/ RequestFails(c)
  <2>1. Ask(c, Idle) /\ Idle.kind = "idle"
    BY <1>8 DEF StoreAnalytics, RequestFails, Ask, Reply, Idle
  <2> QED BY <1>3, <2>1
<1> QED BY <1>4, <1>5, <1>6, <1>7, <1>8

\* A save while a publication runs, or after it, counts as overlapped.
LEMMA StableSave ==
    ASSUME QuizInv, QuizTyped, QuizStable, NEW c \in Clients, SaveDraft(c)
    PROVE  QuizStable'
<1>1. requests[c].status = "draft" /\ requests[c].kind = "save"
  BY DEF SaveDraft, QuizTyped, TypedRequest
<1>2. overlapped' = (overlapped \/ quizStatus # "draft" \/ Publishing # {}) /\ UNCHANGED quizStatus
  BY <1>1 DEF SaveDraft
<1>3. requests'[c] = Idle /\ \A d \in Clients \ {c} : requests'[d] = requests[d]
  BY ReplyFacts DEF SaveDraft, QuizInv
<1>4. Idle.kind = "idle"
  BY DEF Idle
<1>5. CASE quizStatus = "draft"
  <2>1. attempts = <<>> /\ \A d \in Clients : requests[d].kind # "create"
    BY <1>5 DEF QuizStable
  <2>2. attempts' = <<>>
    <3>1. PICK gone : gone = IDs(questions)
      OBVIOUS
    <3>2. attempts' = [i \in DOMAIN attempts |-> WithoutAnswers(attempts[i], gone)] /\ DOMAIN attempts = {}
      BY <2>1, <3>1 DEF SaveDraft
    <3>3. DOMAIN attempts' = {} /\ attempts' = [i \in {} |-> WithoutAnswers(attempts[i], gone)]
      BY <3>2
    <3>4. <<>> = [i \in {} |-> WithoutAnswers(attempts[i], gone)]
      OBVIOUS
    <3> QED BY <3>3, <3>4
  <2>3. Publishing' # {} => Publishing # {}
    BY <1>3, <1>4 DEF Publishing
  <2>4. ~overlapped' => Publishing = {}
    BY <1>2
  <2>5. quizStatus' = "draft"
    BY <1>2, <1>5
  <2> QED BY <1>3, <1>4, <2>1, <2>2, <2>3, <2>4, <2>5 DEF QuizStable
<1>6. CASE quizStatus # "draft"
  BY <1>2, <1>6 DEF QuizStable
<1> QED BY <1>5, <1>6

\* Explaining a question changes no key and no id.
LEMMA StableExplain ==
    ASSUME QuizInv, QuizTyped, QuizStable, NEW c \in Clients, ExplainQuestion(c)
    PROVE  QuizStable'
<1>1. /\ DOMAIN questions' = DOMAIN questions
      /\ \A i \in DOMAIN questions : /\ questions'[i].id = questions[i].id /\ questions'[i].key = questions[i].key
                                     /\ questions'[i].answerStatus = questions[i].answerStatus
  BY TypedExplain
<1>2. IDs(questions') = IDs(questions)
  BY <1>1 DEF IDs
<1>3. AllKeyed' <=> AllKeyed
  BY <1>1 DEF AllKeyed, Keyed
<1>4. UNCHANGED <<quizStatus, attempts, overlapped>> /\ requests[c].kind = "publish"
  BY DEF ExplainQuestion
<1>5. PICK rest : rest = [requests[c] EXCEPT !.todo = Tail(@)]
  OBVIOUS
<1>6. \A d \in Clients : requests'[d] = requests[d] \/ (d = c /\ requests'[d].kind \in {"publish", "idle"})
  <2>1. Ask(c, rest) \/ Reply(c)
    BY <1>5 DEF ExplainQuestion
  <2>2. rest.kind = "publish" /\ Idle.kind = "idle"
    BY <1>4, <1>5 DEF Idle
  <2>3. requests \in [Clients -> Elements(requests)]
    BY DEF QuizInv, Asked
  <2>4. PICK r : requests' = [requests EXCEPT ![c] = r] /\ r.kind \in {"publish", "idle"}
    BY <2>1, <2>2 DEF Ask, Reply
  <2>5. requests'[c] = r /\ \A d \in Clients : d # c => requests'[d] = requests[d]
    BY <2>3, <2>4
  <2>6. requests'[c].kind \in {"publish", "idle"}
    BY <2>4, <2>5
  <2>7. \A d \in Clients : d # c => requests'[d] = requests[d]
    BY <2>5
  <2> QED BY <2>6, <2>7
<1>7. Publishing' # {} => Publishing # {}
  BY <1>4, <1>6 DEF Publishing
<1>8. \A d \in Clients : requests'[d].kind = "create" => requests[d].kind = "create"
  BY <1>6
<1>9. Completed' = Completed
  BY <1>4 DEF Completed
<1> QED BY <1>1, <1>2, <1>3, <1>4, <1>7, <1>8, <1>9 DEF QuizStable

\* A publication marks what was checked.
LEMMA StablePublish ==
    ASSUME QuizInv, QuizTyped, QuizStable, NEW c \in Clients, PublishDraft(c)
    PROVE  QuizStable'
<1>1. /\ DOMAIN questions' = DOMAIN questions
      /\ \A i \in DOMAIN questions : /\ questions'[i].id = questions[i].id /\ questions'[i].key = questions[i].key
                                     /\ questions'[i].answerStatus = "set"
  BY TypedPublish
<1>2. IDs(questions') = IDs(questions)
  BY <1>1 DEF IDs
<1>3. AllKeyed' <=> AllKeyed
  BY <1>1 DEF AllKeyed, Keyed
<1>4. UNCHANGED <<attempts, overlapped>> /\ quizStatus' = "published" /\ c \in Publishing
  BY DEF PublishDraft, Publishing
<1>5. ~overlapped => AllKeyed
  BY <1>4 DEF QuizStable
<1>6. Completed' = Completed /\ (attempts = <<>> => Completed = {})
  BY <1>4 DEF Completed
<1>7. quizStatus \in {"draft", "published"}
  BY DEF QuizTyped
<1>8. ~overlapped => \A i \in Completed : AllAnswered(attempts[i], IDs(questions))
  BY <1>6, <1>7 DEF QuizStable
<1> QED BY <1>1, <1>2, <1>3, <1>4, <1>5, <1>6, <1>8 DEF QuizStable

\* A new attempt is not completed.
LEMMA StableCreate ==
    ASSUME QuizInv, QuizTyped, QuizStable, NEW c \in Clients, CreateAttempt(c)
    PROVE  QuizStable'
<1>1. PICK a : /\ a = [status |-> "in_progress", started |-> requests[c].started,
                       submitted |-> requests[c].started, correct |-> 0, wrong |-> 0, skipped |-> 0,
                       score |-> 0, rows |-> {}]
               /\ attempts' = Append(attempts, a)
  BY DEF CreateAttempt
<1>2. PICK n \in Nat : n = Len(attempts) /\ DOMAIN attempts = 1..n /\ IsSeq(attempts)
  BY SeqIs DEF QuizInv, AttemptsOK
<1>3. DOMAIN attempts' = 1 .. n + 1 /\ (\A i \in 1..n : attempts'[i] = attempts[i]) /\ attempts'[n + 1] = a
  BY <1>1, <1>2, SeqApp
<1>4. \A i \in 1 .. n + 1 : i \in 1..n \/ i = n + 1
  OBVIOUS
<1>5. a.status = "in_progress"
  BY <1>1
<1>6. \A i \in Completed' : i \in Completed /\ attempts'[i] = attempts[i]
  BY <1>2, <1>3, <1>4, <1>5 DEF Completed
<1>7. UNCHANGED <<quizStatus, questions, overlapped>> /\ requests[c].kind = "create"
  BY DEF CreateAttempt
<1>8. requests'[c] = Idle /\ Idle.kind = "idle" /\ \A d \in Clients \ {c} : requests'[d] = requests[d]
  BY ReplyFacts DEF CreateAttempt, QuizInv, Idle
<1>9. Publishing' # {} => Publishing # {}
  BY <1>8 DEF Publishing
<1>10. (AllKeyed' <=> AllKeyed) /\ quizStatus # "draft"
  BY <1>7 DEF AllKeyed, QuizStable
<1> QED BY <1>6, <1>7, <1>9, <1>10 DEF QuizStable

\* A submission answers the questions there are.
LEMMA StableSubmit ==
    ASSUME QuizInv, QuizTyped, QuizStable, NEW c \in Clients, NEW i \in DOMAIN attempts, NEW answers, NEW at \in Int,
           HandleSubmitAttempt(c, i, answers, at)
    PROVE  QuizStable'
<1>1. /\ DOMAIN attempts' = DOMAIN attempts /\ \A j \in DOMAIN attempts \ {i} : attempts'[j] = attempts[j]
      /\ \/ attempts[i].status = "completed" /\ attempts' = attempts
         \/ attempts[i].status = "in_progress" /\ attempts'[i] = Graded(attempts[i], answers, at)
      /\ UNCHANGED <<quizStatus, questions, requests, overlapped>>
  BY SubmitIs
<1>2. PICK a : a = attempts[i]
  OBVIOUS
<1>3. ShapedAttempt(a) /\ TypedList(questions, lastID)
  BY <1>2 DEF QuizInv, AttemptsOK, QuizTyped
<1>4. PICK b : b = Graded(a, answers, at)
  OBVIOUS
<1>5. AllAnswered(b, IDs(questions))
  BY <1>3, <1>4, GradedAnswered
<1>6. attempts'[i] = b \/ attempts' = attempts
  BY <1>1, <1>2, <1>4
<1>7. ~overlapped /\ quizStatus = "published" => \A j \in Completed' : AllAnswered(attempts'[j], IDs(questions))
  <2>1. CASE attempts' = attempts
    BY <2>1 DEF QuizStable, Completed
  <2>2. CASE attempts'[i] = b
    <3>1. \A j \in Completed' : j = i \/ (j \in Completed /\ attempts'[j] = attempts[j])
      BY <1>1 DEF Completed
    <3> QED BY <1>5, <2>2, <3>1 DEF QuizStable
  <2> QED BY <1>6, <2>1, <2>2
<1>8. quizStatus # "draft"
  <2>1. attempts # <<>>
    OBVIOUS
  <2> QED BY <2>1 DEF QuizStable
<1>9. (Publishing' # {} <=> Publishing # {}) /\ (AllKeyed' <=> AllKeyed) /\ IDs(questions') = IDs(questions)
  BY <1>1 DEF Publishing, AllKeyed
<1> QED BY <1>1, <1>7, <1>8, <1>9 DEF QuizStable

\* Every step keeps a published quiz as it was checked.
LEMMA QuizStableStep ==
    ASSUME QuizInv, QuizTyped, QuizStable, [QuizNext]_quizVars
    PROVE  QuizStable'
<1>1. CASE invalidateAnalytics \/ EntryExpires \/ DayPasses \/ UNCHANGED quizVars
  <2>1. UNCHANGED <<quizStatus, questions, attempts, overlapped, requests>>
    BY <1>1 DEF invalidateAnalytics, EntryExpires, DayPasses, quizVars
  <2> QED BY <2>1, StableQuiet
<1>2. CASE \E c \in Clients :
             \/ \E draft \in Drafts : HandleSaveDraft(c, draft)
             \/ HandlePublishDraft(c) \/ HandleCreateAttempt(c, today)
             \/ HandleGetAnalytics(c) \/ StoreAnalytics(c) \/ RequestFails(c)
  BY <1>2, StableRequestStep
<1>3. CASE \E c \in Clients : SaveDraft(c) \/ ExplainQuestion(c) \/ PublishDraft(c) \/ CreateAttempt(c)
  BY <1>3, StableSave, StableExplain, StablePublish, StableCreate
<1>4. CASE \E c \in Clients : \E i \in DOMAIN attempts, answers \in Sheets, skew \in Skews :
             HandleSubmitAttempt(c, i, answers, today + skew)
  <2>1. PICK c \in Clients, i \in DOMAIN attempts, answers \in Sheets, skew \in Skews :
          HandleSubmitAttempt(c, i, answers, today + skew)
    BY <1>4
  <2>2. today + skew \in Int
    BY QuizAssumption DEF QuizTyped
  <2> QED BY <2>1, <2>2, StableSubmit
<1> QED BY <1>1, <1>2, <1>3, <1>4 DEF QuizNext

\* A generated quiz has its keys.
LEMMA QuizStableInit ==
    ASSUME QuizInit
    PROVE  QuizStable
<1>1. attempts = <<>> /\ requests = [c \in Clients |-> Idle]
  BY DEF QuizInit
<1>2. Completed = {} /\ Publishing = {} /\ \A c \in Clients : requests[c].kind # "create"
  BY <1>1 DEF Completed, Publishing, Idle
<1>3. ASSUME quizStatus = "published"
      PROVE  AllKeyed /\ \A i \in DOMAIN questions : questions[i].answerStatus = "set"
  <2>1. questions = [i \in DOMAIN Generated |-> Normalized(Generated[i], 0 + i)]
    BY <1>3 DEF QuizInit, Inserted
  <2>2. ASSUME NEW i \in DOMAIN questions
        PROVE  Keyed(questions[i]) /\ questions[i].answerStatus = "set"
    <3>1. i \in DOMAIN Generated /\ questions[i] = Normalized(Generated[i], 0 + i)
      BY <2>1
    <3>2. PICK q : q = Generated[i]
      OBVIOUS
    <3>3. Known(q) /\ q.correctIndex \in Nat
      <4>1. Known(q)
        BY <3>1, <3>2, DraftAssumption
      <4>2. q \in DraftQuestion
        <5>1. Generated \in Seq(DraftQuestion)
          BY DraftAssumption DEF DraftQuestion
        <5> QED BY <3>1, <3>2, <5>1
      <4>3. q.correctIndex \in 0 .. Options(q) - 1 /\ q.correctIndex \in Int
        BY <4>1, <4>2 DEF Known, DraftQuestion
      <4> QED BY <4>1, <4>3
    <3>4. Normalized(q, 0 + i) = [id |-> 0 + i, options |-> Options(q), key |-> q.correctIndex,
                                 answerStatus |-> "set", explained |-> q.explained]
      BY <3>3 DEF Normalized
    <3> QED BY <3>1, <3>2, <3>3, <3>4 DEF Keyed, NoKey
  <2> QED BY <2>2 DEF AllKeyed
<1> QED BY <1>1, <1>2, <1>3 DEF QuizStable

\* The marks divide the rows of an attempt.
LEMMA MarksDivide ==
    ASSUME NEW rows, NEW last, TypedRows(rows, last)
    PROVE  Cardinality(rows) = Tally(rows, "true") + Tally(rows, "false") + Tally(rows, "null")
<1>1. PICK T, F, N : /\ T = {r \in rows : r.isCorrect = "true"} /\ F = {r \in rows : r.isCorrect = "false"}
                     /\ N = {r \in rows : r.isCorrect = "null"}
  OBVIOUS
<1>2. IsFiniteSet(T) /\ IsFiniteSet(F) /\ IsFiniteSet(N)
  BY <1>1, FS_Subset DEF TypedRows
<1>3. T \cap F = {} /\ (T \cup F) \cap N = {} /\ rows = (T \cup F) \cup N
  BY <1>1 DEF TypedRows
<1>4. Cardinality(T) \in Nat /\ Cardinality(F) \in Nat /\ Cardinality(N) \in Nat /\ Cardinality({}) = 0
  BY <1>2, FS_CardinalityType, FS_EmptySet
<1>5. IsFiniteSet(T \cup F) /\ Cardinality(T \cup F) = Cardinality(T) + Cardinality(F) - Cardinality({})
  BY <1>2, <1>3, FS_Union
<1>6. Cardinality((T \cup F) \cup N) = Cardinality(T \cup F) + Cardinality(N) - Cardinality({})
  BY <1>2, <1>3, <1>5, FS_Union
<1>7. Cardinality(rows) = Cardinality(T) + Cardinality(F) + Cardinality(N)
  BY <1>3, <1>4, <1>5, <1>6
<1> QED BY <1>1, <1>7 DEF Tally

\* The mark of a row as the review shows it.
MarkOf(shown) == CASE shown = "correct" -> "true" [] shown = "wrong" -> "false" [] OTHER -> "null"

\* A question is reviewed as its row was marked.
LEMMA ReviewIs ==
    ASSUME NEW a, TypedRows(a.rows, lastID), AllAnswered(a, IDs(questions)),
           NEW n \in DOMAIN questions, NEW marked \in a.rows, marked.question = questions[n].id,
           NEW shown \in {"correct", "wrong", "skipped"}
    PROVE  GetReview(a)[n] = shown <=> marked.isCorrect = MarkOf(shown)
<1>1. PICK mine : mine = {r \in a.rows : r.question = questions[n].id}
  OBVIOUS
<1>2. mine = {marked}
  BY <1>1 DEF AllAnswered
<1>3. GetReview(a)[n] = IF marked.selected = NoOption THEN "skipped"
                        ELSE IF marked.isCorrect = "true" THEN "correct" ELSE "wrong"
  BY <1>1, <1>2 DEF GetReview
<1>4. marked.isCorrect \in {"true", "false", "null"} /\ (marked.isCorrect = "null" <=> marked.selected = NoOption)
  BY DEF TypedRows
<1>5. /\ MarkOf("correct") = "true" /\ MarkOf("wrong") = "false" /\ MarkOf("skipped") = "null"
  BY DEF MarkOf
<1> QED BY <1>3, <1>4, <1>5

\* The review shows each mark as often as the attempt counts it.
LEMMA ReviewCounts ==
    ASSUME TypedList(questions, lastID), NEW a, TypedRows(a.rows, lastID), AllAnswered(a, IDs(questions)),
           NEW shown \in {"correct", "wrong", "skipped"}
    PROVE  Cardinality({n \in DOMAIN questions : GetReview(a)[n] = shown}) = Tally(a.rows, MarkOf(shown))
<1>1. PICK mark : mark = MarkOf(shown)
  OBVIOUS
<1>2. PICK S, T : /\ S = {n \in DOMAIN questions : GetReview(a)[n] = shown}
                  /\ T = {r \in a.rows : r.isCorrect = mark}
  OBVIOUS
<1>3. PICK marked : marked = [n \in DOMAIN questions |-> CHOOSE r \in a.rows : r.question = questions[n].id]
  OBVIOUS
<1>4. ASSUME NEW n \in DOMAIN questions
      PROVE  /\ marked[n] \in a.rows /\ marked[n].question = questions[n].id
             /\ GetReview(a)[n] = shown <=> marked[n].isCorrect = mark
  <2>1. questions[n].id \in IDs(questions)
    BY DEF IDs
  <2>2. marked[n] \in a.rows /\ marked[n].question = questions[n].id
    BY <1>3, <2>1 DEF AllAnswered
  <2>3. PICK r \in a.rows : r = marked[n]
    BY <2>2
  <2>4. GetReview(a)[n] = shown <=> r.isCorrect = MarkOf(shown)
    BY <2>2, <2>3, ReviewIs
  <2> QED BY <1>1, <2>2, <2>3, <2>4
<1>5. PICK f : f = [n \in S |-> marked[n]]
  OBVIOUS
<1>6. f \in [S -> T]
  BY <1>2, <1>4, <1>5
<1>7. \A m, n \in S : f[m] = f[n] => m = n
  BY <1>2, <1>4, <1>5 DEF TypedList
<1>8. ASSUME NEW r \in T
      PROVE  \E n \in S : f[n] = r
  <2>1. r \in a.rows /\ r.isCorrect = mark /\ r.question \in IDs(questions)
    BY <1>2 DEF AllAnswered
  <2>2. PICK n \in DOMAIN questions : r.question = questions[n].id
    BY <2>1 DEF IDs
  <2>3. marked[n] = r
    BY <1>4, <2>1, <2>2 DEF AllAnswered
  <2>4. n \in S
    BY <1>2, <1>4, <2>1, <2>3
  <2> QED BY <1>5, <2>3, <2>4
<1>9. IsFiniteSet(S)
  <2>1. Len(questions) \in Nat /\ DOMAIN questions = 1 .. Len(questions)
    BY SeqIs DEF TypedList
  <2>2. IsFiniteSet(DOMAIN questions)
    BY <2>1, UptoFinite
  <2> QED BY <1>2, <2>2, FS_Subset
<1>10. Cardinality(T) = Cardinality(S)
  BY <1>6, <1>7, <1>8, <1>9, SameSize
<1> QED BY <1>1, <1>2, <1>10 DEF Tally

\* The topic statistics count the answers of the completed attempts as the summary does.
LEMMA TopicCounts ==
    ASSUME QuizInv, QuizTyped, \A i \in Completed : AllAnswered(attempts[i], IDs(questions))
    PROVE  /\ GetTopicAnalytics.total = buildSummary(attemptRows, today).attempted
           /\ GetTopicAnalytics.correct = buildSummary(attemptRows, today).correct
<1>1. PICK S : S = Completed
  OBVIOUS
<1>2. IsFiniteSet(S) /\ S \subseteq DOMAIN attempts
  BY <1>1, CompletedFinite DEF Completed
<1>3. PICK R, right : /\ R = [i \in S |-> attempts[i].rows]
                      /\ right = [i \in S |-> {r \in attempts[i].rows : r.isCorrect = "true"}]
  OBVIOUS
<1>4. PICK f, g : /\ f = [i \in S |-> attempts[i].correct + attempts[i].wrong + attempts[i].skipped]
                  /\ g = [i \in S |-> attempts[i].correct]
  OBVIOUS
<1>5. ASSUME NEW i \in S
      PROVE  /\ IsFiniteSet(R[i]) /\ f[i] = Cardinality(R[i])
             /\ IsFiniteSet(right[i]) /\ g[i] = Cardinality(right[i])
  <2>1. PICK a : a = attempts[i]
    OBVIOUS
  <2>2. TypedRows(a.rows, lastID) /\ AllAnswered(a, IDs(questions))
    BY <1>1, <1>2, <2>1 DEF QuizTyped
  <2>3. R[i] = a.rows /\ right[i] = {r \in a.rows : r.isCorrect = "true"}
    BY <1>3, <2>1
  <2>4. f[i] = a.correct + a.wrong + a.skipped /\ g[i] = a.correct
    BY <1>4, <2>1
  <2>5. Cardinality(a.rows) = Tally(a.rows, "true") + Tally(a.rows, "false") + Tally(a.rows, "null")
    BY <2>2, MarksDivide
  <2>6. f[i] = Cardinality(R[i])
    BY <2>2, <2>3, <2>4, <2>5 DEF AllAnswered
  <2>7. g[i] = Cardinality(right[i])
    BY <2>2, <2>3, <2>4 DEF AllAnswered, Tally
  <2>8. IsFiniteSet(a.rows)
    BY <2>2 DEF TypedRows
  <2>9. IsFiniteSet(R[i]) /\ IsFiniteSet(right[i])
    BY <2>3, <2>8, FS_Subset
  <2> QED BY <2>6, <2>7, <2>9
<1>6. Cardinality(Pairs(R, S)) = SumOver(f, S) /\ Cardinality(Pairs(right, S)) = SumOver(g, S)
  BY <1>2, <1>5, PairsCount
<1>7. GetTopicAnalytics.total = Cardinality(Pairs(R, S)) /\ GetTopicAnalytics.correct = Cardinality(Pairs(right, S))
  <2>1. PICK rows : rows = UNION {{<<i, r>> : r \in attempts[i].rows} : i \in Completed}
    OBVIOUS
  <2>2. PICK marked : marked = {x \in rows : x[2].isCorrect = "true"}
    OBVIOUS
  <2>3. GetTopicAnalytics.total = Cardinality(rows) /\ GetTopicAnalytics.correct = Cardinality(marked)
    BY <2>1, <2>2 DEF GetTopicAnalytics
  <2>4. rows = Pairs(R, S)
    BY <1>1, <1>3, <2>1 DEF Pairs
  <2>5. marked = Pairs(right, S)
    <3>1. ASSUME NEW x
          PROVE  x \in marked <=> \E i \in S : \E r \in attempts[i].rows : r.isCorrect = "true" /\ x = <<i, r>>
      BY <1>1, <2>1, <2>2
    <3>2. ASSUME NEW x
          PROVE  x \in Pairs(right, S) <=> \E i \in S : \E r \in attempts[i].rows : r.isCorrect = "true" /\ x = <<i, r>>
      BY <1>3 DEF Pairs
    <3> QED BY <3>1, <3>2
  <2> QED BY <2>3, <2>4, <2>5
<1>8. /\ buildSummary(attemptRows, today).attempted = SumOver(f, S)
      /\ buildSummary(attemptRows, today).correct = SumOver(g, S)
  <2>1. DOMAIN attemptRows = S
    BY <1>1 DEF attemptRows
  <2>2. \A i \in S : /\ attemptRows[i].correct = attempts[i].correct
                     /\ attemptRows[i].wrong = attempts[i].wrong /\ attemptRows[i].skipped = attempts[i].skipped
    BY <1>1 DEF attemptRows
  <2>3. PICK rows : rows = attemptRows
    OBVIOUS
  <2>4. [i \in DOMAIN rows |-> rows[i].correct + rows[i].wrong + rows[i].skipped] = f
    BY <1>4, <2>1, <2>2, <2>3
  <2>5. [i \in DOMAIN rows |-> rows[i].correct] = g
    BY <1>4, <2>1, <2>2, <2>3
  <2>6. DOMAIN f = S /\ DOMAIN g = S
    BY <1>4
  <2>7. FoldFunction(+, 0, f) = SumOver(f, S) /\ FoldFunction(+, 0, g) = SumOver(g, S)
    BY <2>6, FoldIsSum
  <2>8. /\ buildSummary(rows, today).attempted = FoldFunction(+, 0, f)
        /\ buildSummary(rows, today).correct = FoldFunction(+, 0, g)
    BY <2>4, <2>5 DEF buildSummary
  <2> QED BY <2>3, <2>7, <2>8
<1> QED BY <1>6, <1>7, <1>8

\* A published quiz is what was checked.
LEMMA StableTruth ==
    ASSUME QuizInv, QuizTyped, QuizStable
    PROVE  PublishedIsStable
<1> SUFFICES ASSUME quizStatus = "published", ~overlapped
             PROVE  /\ \A i \in DOMAIN questions : Keyed(questions[i]) /\ questions[i].answerStatus = "set"
                    /\ \A i \in Completed :
                         LET marked(m) == Cardinality({n \in DOMAIN questions : GetReview(attempts[i])[n] = m}) IN
                         <<marked("correct"), marked("wrong"), marked("skipped")>>
                           = <<attempts[i].correct, attempts[i].wrong, attempts[i].skipped>>
                    /\ GetTopicAnalytics.total = buildSummary(attemptRows, today).attempted
                    /\ GetTopicAnalytics.correct = buildSummary(attemptRows, today).correct
  BY DEF PublishedIsStable
<1>1. \A i \in DOMAIN questions : Keyed(questions[i]) /\ questions[i].answerStatus = "set"
  BY DEF QuizStable, AllKeyed
<1>2. \A i \in Completed : AllAnswered(attempts[i], IDs(questions))
  BY DEF QuizStable
<1>3. ASSUME NEW i \in Completed
      PROVE  LET marked(m) == Cardinality({n \in DOMAIN questions : GetReview(attempts[i])[n] = m}) IN
             <<marked("correct"), marked("wrong"), marked("skipped")>>
               = <<attempts[i].correct, attempts[i].wrong, attempts[i].skipped>>
  <2>1. PICK a : a = attempts[i]
    OBVIOUS
  <2>2. TypedList(questions, lastID) /\ TypedRows(a.rows, lastID) /\ AllAnswered(a, IDs(questions))
    BY <1>2, <2>1 DEF QuizTyped, Completed
  <2>3. \A shown \in {"correct", "wrong", "skipped"} :
          Cardinality({n \in DOMAIN questions : GetReview(a)[n] = shown}) = Tally(a.rows, MarkOf(shown))
    BY <2>2, ReviewCounts
  <2>4. MarkOf("correct") = "true" /\ MarkOf("wrong") = "false" /\ MarkOf("skipped") = "null"
    BY DEF MarkOf
  <2>5. /\ Cardinality({n \in DOMAIN questions : GetReview(a)[n] = "correct"}) = a.correct
        /\ Cardinality({n \in DOMAIN questions : GetReview(a)[n] = "wrong"}) = a.wrong
        /\ Cardinality({n \in DOMAIN questions : GetReview(a)[n] = "skipped"}) = a.skipped
    BY <2>2, <2>3, <2>4 DEF AllAnswered
  <2> QED BY <2>1, <2>5
<1>4. /\ GetTopicAnalytics.total = buildSummary(attemptRows, today).attempted
      /\ GetTopicAnalytics.correct = buildSummary(attemptRows, today).correct
  BY <1>2, TopicCounts
<1> QED BY <1>1, <1>3, <1>4

\* The days in a row before a day or the next one are the longest run that ends there.
LEMMA StreakIs ==
    ASSUME NEW dates \in SUBSET Int, IsFiniteSet(dates), NEW now \in Int,
           NEW bound \in Nat, Cardinality(dates) <= bound,
           NEW end, end = IF now \in dates THEN now ELSE now - 1
    PROVE  computeStreak(dates, now) = Max({n \in 0 .. bound : (end - n + 1) .. end \subseteq dates})
<1>1. PICK run : run = CHOOSE f : f = [d \in Int |-> IF d \in dates THEN 1 + f[d - 1] ELSE 0]
  OBVIOUS
<1>2. IsRun(dates, run)
  <2>1. \E f : IsRun(dates, f)
    BY RunExists
  <2>2. run = CHOOSE f : IsRun(dates, f)
    BY <1>1, Zenon DEF IsRun
  <2> QED BY <2>1, <2>2, Zenon
<1>3. computeStreak(dates, now) = run[end]
  <2>1. computeStreak(dates, now) =
          IF now \in dates THEN (CHOOSE f : f = [d \in Int |-> IF d \in dates THEN 1 + f[d - 1] ELSE 0])[now]
          ELSE (CHOOSE f : f = [d \in Int |-> IF d \in dates THEN 1 + f[d - 1] ELSE 0])[now - 1]
    BY Zenon DEF computeStreak
  <2>2. computeStreak(dates, now) = IF now \in dates THEN run[now] ELSE run[now - 1]
    BY <1>1, <2>1, Zenon
  <2> QED BY <2>2
<1>4. end \in Int
  OBVIOUS
<1>5. PICK k : k = run[end]
  OBVIOUS
<1>6. k \in 0 .. Cardinality(dates) /\ Ends(dates, end, k) /\ Cardinality(dates) \in Nat
  BY <1>2, <1>4, <1>5, RunBound, FS_CardinalityType
<1>7. PICK S : S = {n \in 0 .. bound : (end - n + 1) .. end \subseteq dates}
  OBVIOUS
<1>8. k \in S
  <2>1. ASSUME NEW x \in (end - k + 1) .. end
        PROVE  x \in dates
    <3>1. end - x \in 0 .. k - 1 /\ end - (end - x) = x
      BY <1>4, <1>6
    <3> QED BY <1>6, <3>1 DEF Ends
  <2>2. k \in 0 .. bound
    BY <1>6
  <2> QED BY <1>7, <2>1, <2>2
<1>9. ASSUME NEW n \in S, ~(n <= k)
      PROVE  FALSE
  <2>1. n \in Nat /\ k \in Nat /\ (end - n + 1) .. end \subseteq dates
    BY <1>6, <1>7
  <2>2. end - k \in (end - n + 1) .. end
    BY <1>4, <1>9, <2>1
  <2> QED BY <1>6, <2>1, <2>2 DEF Ends
<1>10. S \in SUBSET Int
  BY <1>7
<1>11. Max(S) = k
  BY <1>8, <1>9, <1>10, MaxIs
<1> QED BY <1>3, <1>5, <1>7, <1>11

\* What the analytics query reads of the attempts.
RowOf(a) == [score |-> a.score, submitted |-> a.submitted, correct |-> a.correct, wrong |-> a.wrong, skipped |-> a.skipped]
\* The rows of the attempts in S.
RowsOf(list, S) == [i \in S |-> RowOf(list[i])]

\* The query returns the rows of the completed attempts.
LEMMA QueryIs == attemptRows = RowsOf(attempts, Completed)
BY DEF attemptRows, RowsOf, RowOf

\* A payload computed on a day from the attempts in S, as many as were read.
SeenIn(S, payload, on, read) == Cardinality(S) = read /\ payload \in computeAnalytics(RowsOf(attempts, S), on)
\* A payload computed from as many of the completed attempts as were read.
Seen(payload, on, read) == \E S \in SUBSET Completed : SeenIn(S, payload, on, read)

\* A dashboard that is being computed has seen attempts that are still as they were; one
\* in the cache that is not marked as lagging has seen all of them, or is about to go.
QuizFresh ==
    /\ \A c \in Clients : requests[c].kind = "analytics" =>
         requests[c].day \in Int /\ Seen(requests[c].payload, requests[c].day, requests[c].read)
    /\ cached # None =>
         /\ cached.day \in Int
         /\ ~lagging => dropping > 0 \/ cached.payload \in computeAnalytics(RowsOf(attempts, Completed), cached.day)

\* Attempts that stay completed keep what was seen of them.
LEMMA SeenKept ==
    ASSUME Completed \subseteq Completed', \A i \in Completed : RowOf(attempts'[i]) = RowOf(attempts[i])
    PROVE  /\ \A S \in SUBSET Completed : S \in SUBSET Completed' /\ RowsOf(attempts', S) = RowsOf(attempts, S)
           /\ \A payload, on, read : Seen(payload, on, read) => Seen(payload, on, read)'
<1>1. ASSUME NEW S \in SUBSET Completed
      PROVE  S \in SUBSET Completed' /\ RowsOf(attempts', S) = RowsOf(attempts, S)
  <2>1. \A i \in S : RowOf(attempts'[i]) = RowOf(attempts[i])
    OBVIOUS
  <2> QED BY <2>1 DEF RowsOf
<1>2. ASSUME NEW payload, NEW on, NEW read, Seen(payload, on, read)
      PROVE  Seen(payload, on, read)'
  <2>1. PICK S \in SUBSET Completed : SeenIn(S, payload, on, read)
    BY <1>2 DEF Seen
  <2>2. S \in SUBSET Completed' /\ RowsOf(attempts', S) = RowsOf(attempts, S)
    BY <1>1
  <2>3. Cardinality(S) = read /\ payload \in computeAnalytics(RowsOf(attempts', S), on)
    BY <2>1, <2>2 DEF SeenIn
  <2> QED BY <2>2, <2>3 DEF Seen, SeenIn
<1> QED BY <1>1, <1>2

\* Steps that leave the cache alone, and start an invalidation when there is a new
\* completed attempt.
LEMMA FreshQuiet ==
    ASSUME QuizFresh, Completed \subseteq Completed',
           \A i \in Completed : RowOf(attempts'[i]) = RowOf(attempts[i]),
           \A c \in Clients : requests'[c].kind = "analytics" => requests'[c] = requests[c],
           UNCHANGED <<cached, lagging>>,
           (Completed' = Completed /\ dropping' = dropping) \/ dropping' > 0
    PROVE  QuizFresh'
<1>1. ASSUME NEW c \in Clients, requests'[c].kind = "analytics"
      PROVE  requests'[c].day \in Int /\ Seen(requests[c].payload, requests[c].day, requests[c].read)'
  <2>1. PICK payload, on, read : payload = requests[c].payload /\ on = requests[c].day /\ read = requests[c].read
    OBVIOUS
  <2>2. requests'[c] = requests[c]
    BY <1>1
  <2>3. on \in Int /\ Seen(payload, on, read)
    BY <1>1, <2>1, <2>2 DEF QuizFresh
  <2>4. Seen(payload, on, read)'
    BY <2>3, SeenKept
  <2>5. payload = requests'[c].payload /\ on = requests'[c].day /\ read = requests'[c].read
    BY <2>1, <2>2
  <2> QED BY <2>3, <2>4, <2>5
<1>2. ASSUME cached' # None
      PROVE  /\ cached'.day \in Int
             /\ ~lagging' => dropping' > 0 \/ cached'.payload \in computeAnalytics(RowsOf(attempts', Completed'), cached'.day)
  <2>1. cached # None /\ cached'.day \in Int
    BY <1>2 DEF QuizFresh
  <2>2. ASSUME ~lagging', ~(dropping' > 0)
        PROVE  cached'.payload \in computeAnalytics(RowsOf(attempts', Completed'), cached'.day)
    <3>1. Completed' = Completed /\ cached.payload \in computeAnalytics(RowsOf(attempts, Completed), cached.day)
      BY <2>1, <2>2 DEF QuizFresh
    <3>2. RowsOf(attempts', Completed) = RowsOf(attempts, Completed)
      BY SeenKept
    <3>3. RowsOf(attempts', Completed') = RowsOf(attempts, Completed)
      BY <3>1, <3>2
    <3> QED BY <3>1, <3>3
  <2> QED BY <2>1, <2>2
<1> QED BY <1>1, <1>2 DEF QuizFresh

\* Steps of a request that leave the attempts alone and start no analytics.
LEMMA FreshRequest ==
    ASSUME QuizInv, QuizFresh, NEW c \in Clients, NEW r, r.kind # "analytics", Ask(c, r),
           UNCHANGED <<attempts, cached, dropping, lagging>>
    PROVE  QuizFresh'
<1>1. requests \in [Clients -> Elements(requests)]
  BY DEF QuizInv, Asked
<1>2. requests'[c] = r /\ \A d \in Clients \ {c} : requests'[d] = requests[d]
  BY <1>1 DEF Ask
<1>3. Completed' = Completed
  BY DEF Completed
<1> QED BY <1>2, <1>3, FreshQuiet

\* Requests and replies.
LEMMA FreshRequestStep ==
    ASSUME QuizInv, QuizTyped, QuizFresh, NEW c \in Clients,
           \/ \E draft \in Drafts : HandleSaveDraft(c, draft)
           \/ HandlePublishDraft(c) \/ ExplainQuestion(c) \/ PublishDraft(c)
           \/ HandleCreateAttempt(c, today) \/ RequestFails(c)
    PROVE  QuizFresh'
<1>1. UNCHANGED <<attempts, cached, dropping, lagging>>
  BY DEF HandleSaveDraft, HandlePublishDraft, ExplainQuestion, PublishDraft, HandleCreateAttempt, RequestFails
<1>2. ASSUME NEW draft \in Drafts, HandleSaveDraft(c, draft)
      PROVE  QuizFresh'
  <2>1. PICK r : r = [kind |-> "save", status |-> quizStatus, draft |-> draft]
    OBVIOUS
  <2>2. Ask(c, r) /\ r.kind # "analytics"
    BY <1>2, <2>1 DEF HandleSaveDraft
  <2> QED BY <1>1, <2>2, FreshRequest
<1>3. CASE HandlePublishDraft(c)
  <2>1. PICK r, todo : Ask(c, r) /\ r = [kind |-> "publish", status |-> quizStatus, todo |-> todo]
    BY <1>3 DEF HandlePublishDraft
  <2> QED BY <1>1, <2>1, FreshRequest
<1>4. CASE ExplainQuestion(c)
  <2>1. PICK rest : rest = [requests[c] EXCEPT !.todo = Tail(@)]
    OBVIOUS
  <2>2. Ask(c, rest) \/ Ask(c, Idle)
    BY <1>4, <2>1 DEF ExplainQuestion, Ask, Reply
  <2>3. rest.kind = requests[c].kind /\ requests[c].kind = "publish" /\ Idle.kind = "idle"
    BY <1>4, <2>1 DEF ExplainQuestion, Idle
  <2> QED BY <1>1, <2>2, <2>3, FreshRequest
<1>5. CASE HandleCreateAttempt(c, today)
  <2>1. PICK r, at : Ask(c, r) /\ r = [kind |-> "create", started |-> at]
    BY <1>5 DEF HandleCreateAttempt
  <2> QED BY <1>1, <2>1, FreshRequest
<1>6. CASE PublishDraft(c) \/ RequestFails(c)
  <2>1. Ask(c, Idle) /\ Idle.kind = "idle"
    BY <1>6 DEF PublishDraft, RequestFails, Ask, Reply, Idle
  <2> QED BY <1>1, <2>1, FreshRequest
<1> QED BY <1>2, <1>3, <1>4, <1>5, <1>6

\* A request for the dashboard has seen what there is.
LEMMA FreshGet ==
    ASSUME QuizInv, QuizTyped, QuizFresh, NEW c \in Clients, HandleGetAnalytics(c)
    PROVE  QuizFresh'
<1>1. PICK payload, read, r :
        /\ payload \in computeAnalytics(RowsOf(attempts, Completed), today) /\ read = Cardinality(Completed)
        /\ r = [kind |-> "analytics", payload |-> payload, day |-> today, read |-> read]
        /\ Ask(c, r)
  BY QueryIs DEF HandleGetAnalytics
<1>2. Ask(c, r) /\ UNCHANGED <<attempts, cached, dropping, lagging>>
  BY <1>1 DEF HandleGetAnalytics
<1>3. requests \in [Clients -> Elements(requests)] /\ today \in Int
  BY DEF QuizInv, Asked
<1>4. requests'[c] = r /\ \A d \in Clients \ {c} : requests'[d] = requests[d]
  BY <1>2, <1>3 DEF Ask
<1>5. Completed' = Completed
  BY <1>2 DEF Completed
<1>6. \A p, on, n : Seen(p, on, n) => Seen(p, on, n)'
  BY <1>2, <1>5, SeenKept
<1>7. PICK on \in Int : on = today
  BY <1>3
<1>8. Seen(payload, on, read)'
  <2>1. SeenIn(Completed, payload, on, read)
    BY <1>1, <1>7 DEF SeenIn
  <2>2. Seen(payload, on, read)
    BY <2>1 DEF Seen
  <2> QED BY <1>6, <2>2
<1>9. ASSUME NEW d \in Clients, requests'[d].kind = "analytics"
      PROVE  requests'[d].day \in Int /\ Seen(requests[d].payload, requests[d].day, requests[d].read)'
  <2>1. CASE d = c
    <3>1. requests'[d].day = on /\ requests'[d].payload = payload /\ requests'[d].read = read
      BY <1>1, <1>4, <1>7, <2>1
    <3> QED BY <1>8, <3>1
  <2>2. CASE d # c
    <3>1. PICK p, o, n : p = requests[d].payload /\ o = requests[d].day /\ n = requests[d].read
      OBVIOUS
    <3>2. requests'[d] = requests[d]
      BY <1>4, <2>2
    <3>3. o \in Int /\ Seen(p, o, n)
      BY <1>9, <3>1, <3>2 DEF QuizFresh
    <3>4. Seen(p, o, n)'
      BY <1>6, <3>3
    <3>5. p = requests'[d].payload /\ o = requests'[d].day /\ n = requests'[d].read
      BY <3>1, <3>2
    <3> QED BY <3>3, <3>4, <3>5
  <2> QED BY <2>1, <2>2
<1>10. (cached # None =>
         /\ cached.day \in Int
         /\ ~lagging => dropping > 0 \/ cached.payload \in computeAnalytics(RowsOf(attempts, Completed), cached.day))'
  BY <1>2, <1>5 DEF QuizFresh
<1> QED BY <1>9, <1>10 DEF QuizFresh

\* What is stored has seen as many completed attempts as there are, or is marked as lagging.
LEMMA FreshStore ==
    ASSUME QuizInv, QuizTyped, QuizFresh, NEW c \in Clients, StoreAnalytics(c)
    PROVE  QuizFresh'
<1>1. PICK r : r = requests[c]
  OBVIOUS
<1>2. /\ r.kind = "analytics" /\ cached' = [kind |-> "entry", payload |-> r.payload, day |-> r.day]
      /\ lagging' = (r.read < Cardinality(Completed)) /\ Reply(c) /\ UNCHANGED <<attempts, dropping>>
  BY <1>1 DEF StoreAnalytics
<1>3. r.day \in Int /\ Seen(r.payload, r.day, r.read)
  BY <1>1, <1>2 DEF QuizFresh
<1>4. PICK S \in SUBSET Completed : SeenIn(S, r.payload, r.day, r.read)
  BY <1>3 DEF Seen
<1>5. Completed' = Completed
  BY <1>2 DEF Completed
<1>6. cached'.day = r.day /\ cached'.payload = r.payload
  BY <1>2
<1>7. ASSUME ~lagging'
      PROVE  cached'.payload \in computeAnalytics(RowsOf(attempts', Completed'), cached'.day)
  <2>1. IsFiniteSet(Completed) /\ Cardinality(Completed) \in Nat
    BY CompletedFinite, FS_CardinalityType
  <2>2. Cardinality(S) = r.read /\ Cardinality(S) <= Cardinality(Completed) /\ Cardinality(S) \in Nat
    BY <1>4, <2>1, FS_Subset, FS_CardinalityType DEF SeenIn
  <2>3. ~(r.read < Cardinality(Completed))
    BY <1>2, <1>7
  <2>4. Cardinality(Completed) = Cardinality(S)
    BY <2>1, <2>2, <2>3
  <2>5. S = Completed
    BY <2>1, <2>4, FS_Subset
  <2>6. r.payload \in computeAnalytics(RowsOf(attempts, S), r.day)
    BY <1>4 DEF SeenIn
  <2> QED BY <1>2, <1>5, <1>6, <2>5, <2>6
<1>8. \A p, on, n : Seen(p, on, n) => Seen(p, on, n)'
  BY <1>2, <1>5, SeenKept
<1>9. requests'[c] = Idle /\ \A d \in Clients \ {c} : requests'[d] = requests[d]
  BY <1>2, ReplyFacts DEF QuizInv
<1>10. ASSUME NEW d \in Clients, requests'[d].kind = "analytics"
       PROVE  requests'[d].day \in Int /\ Seen(requests[d].payload, requests[d].day, requests[d].read)'
  <2>1. d # c /\ requests'[d] = requests[d]
    BY <1>9, <1>10 DEF Idle
  <2>2. PICK p, o, n : p = requests[d].payload /\ o = requests[d].day /\ n = requests[d].read
    OBVIOUS
  <2>3. o \in Int /\ Seen(p, o, n)
    BY <1>10, <2>1, <2>2 DEF QuizFresh
  <2>4. Seen(p, o, n)'
    BY <1>8, <2>3
  <2>5. p = requests'[d].payload /\ o = requests'[d].day /\ n = requests'[d].read
    BY <2>1, <2>2
  <2> QED BY <2>3, <2>4, <2>5
<1>11. cached'.day \in Int
  BY <1>3, <1>6
<1> QED BY <1>7, <1>10, <1>11 DEF QuizFresh

\* A save deletes answers, which the dashboard does not show.
LEMMA FreshSave ==
    ASSUME QuizInv, QuizTyped, QuizFresh, NEW c \in Clients, SaveDraft(c)
    PROVE  QuizFresh'
<1>1. PICK gone : gone = IDs(questions)
  OBVIOUS
<1>2. attempts' = [i \in DOMAIN attempts |-> WithoutAnswers(attempts[i], gone)]
  BY <1>1 DEF SaveDraft
<1>3. ASSUME NEW i \in DOMAIN attempts
      PROVE  attempts'[i].status = attempts[i].status /\ RowOf(attempts'[i]) = RowOf(attempts[i])
  <2>1. PICK a, rows : a = attempts[i] /\ rows = {r \in a.rows : r.question \notin gone}
    OBVIOUS
  <2>2. attempts'[i] = [a EXCEPT !.rows = rows]
    BY <1>2, <2>1 DEF WithoutAnswers
  <2>3. ShapedAttempt(a)
    BY <2>1 DEF QuizInv, AttemptsOK
  <2>4. PICK b : b = [a EXCEPT !.rows = rows]
    OBVIOUS
  <2>5. /\ b.status = a.status /\ b.score = a.score /\ b.submitted = a.submitted /\ b.correct = a.correct
        /\ b.wrong = a.wrong /\ b.skipped = a.skipped
    BY <2>3, <2>4 DEF ShapedAttempt
  <2> QED BY <2>1, <2>2, <2>4, <2>5 DEF RowOf
<1>4. DOMAIN attempts' = DOMAIN attempts
  BY <1>2
<1>5. Completed' = Completed
  BY <1>3, <1>4 DEF Completed
<1>6. \A i \in Completed : RowOf(attempts'[i]) = RowOf(attempts[i])
  BY <1>3 DEF Completed
<1>7. requests'[c] = Idle /\ Idle.kind = "idle" /\ \A d \in Clients \ {c} : requests'[d] = requests[d]
  BY ReplyFacts DEF SaveDraft, QuizInv, Idle
<1>8. UNCHANGED <<cached, dropping, lagging>>
  BY DEF SaveDraft
<1> QED BY <1>5, <1>6, <1>7, <1>8, FreshQuiet

\* A new attempt is not completed.
LEMMA FreshCreate ==
    ASSUME QuizInv, QuizTyped, QuizFresh, NEW c \in Clients, CreateAttempt(c)
    PROVE  QuizFresh'
<1>1. PICK a : /\ a = [status |-> "in_progress", started |-> requests[c].started,
                       submitted |-> requests[c].started, correct |-> 0, wrong |-> 0, skipped |-> 0,
                       score |-> 0, rows |-> {}]
               /\ attempts' = Append(attempts, a)
  BY DEF CreateAttempt
<1>2. PICK n \in Nat : n = Len(attempts) /\ DOMAIN attempts = 1..n /\ IsSeq(attempts)
  BY SeqIs DEF QuizInv, AttemptsOK
<1>3. DOMAIN attempts' = 1 .. n + 1 /\ (\A i \in 1..n : attempts'[i] = attempts[i]) /\ attempts'[n + 1] = a
  BY <1>1, <1>2, SeqApp
<1>4. a.status = "in_progress" /\ \A i \in 1 .. n + 1 : i \in 1..n \/ i = n + 1
  BY <1>1
<1>5. Completed' = Completed
  <2>1. \A i \in Completed' : i \in Completed
    BY <1>2, <1>3, <1>4 DEF Completed
  <2>2. \A i \in Completed : i \in Completed'
    BY <1>2, <1>3 DEF Completed
  <2> QED BY <2>1, <2>2
<1>6. \A i \in Completed : RowOf(attempts'[i]) = RowOf(attempts[i])
  BY <1>2, <1>3 DEF Completed
<1>7. requests'[c] = Idle /\ Idle.kind = "idle" /\ \A d \in Clients \ {c} : requests'[d] = requests[d]
  BY ReplyFacts DEF CreateAttempt, QuizInv, Idle
<1>8. UNCHANGED <<cached, dropping, lagging>>
  BY DEF CreateAttempt
<1> QED BY <1>5, <1>6, <1>7, <1>8, FreshQuiet

\* A first submission completes an attempt and starts an invalidation.
LEMMA FreshSubmit ==
    ASSUME QuizInv, QuizTyped, QuizFresh, NEW c \in Clients, NEW i \in DOMAIN attempts, NEW answers, NEW at \in Int,
           HandleSubmitAttempt(c, i, answers, at)
    PROVE  QuizFresh'
<1>1. /\ DOMAIN attempts' = DOMAIN attempts /\ \A j \in DOMAIN attempts \ {i} : attempts'[j] = attempts[j]
      /\ \/ attempts[i].status = "completed" /\ attempts' = attempts /\ dropping' = dropping
         \/ attempts[i].status = "in_progress" /\ attempts'[i] = Graded(attempts[i], answers, at)
              /\ dropping' = dropping + 1
      /\ UNCHANGED <<requests, cached, lagging>>
  BY SubmitIs
<1>2. CASE attempts' = attempts /\ dropping' = dropping
  <2>1. Completed' = Completed
    BY <1>2 DEF Completed
  <2> QED BY <1>1, <1>2, <2>1, FreshQuiet
<1>3. CASE attempts[i].status = "in_progress" /\ dropping' = dropping + 1
  <2>1. \A j \in Completed : j # i /\ attempts'[j] = attempts[j]
    BY <1>1, <1>3 DEF Completed
  <2>2. Completed \subseteq Completed'
    BY <1>1, <2>1 DEF Completed
  <2>3. dropping' > 0
    BY <1>3 DEF QuizTyped
  <2> QED BY <1>1, <2>1, <2>2, <2>3, FreshQuiet
<1> QED BY <1>1, <1>2, <1>3

\* An invalidation empties the cache, or leaves it marked as lagging.
LEMMA FreshOther ==
    ASSUME QuizTyped, QuizFresh, invalidateAnalytics \/ EntryExpires \/ DayPasses \/ UNCHANGED quizVars
    PROVE  QuizFresh'
<1>1. UNCHANGED <<attempts, requests>>
  BY DEF invalidateAnalytics, EntryExpires, DayPasses, quizVars
<1>2. Completed' = Completed
  BY <1>1 DEF Completed
<1>3. \A c \in Clients : requests'[c].kind = "analytics" =>
         requests'[c].day \in Int /\ Seen(requests[c].payload, requests[c].day, requests[c].read)'
  BY <1>1, <1>2 DEF QuizFresh, Seen, SeenIn
<1>4. CASE cached' = None
  BY <1>3, <1>4 DEF QuizFresh
<1>5. CASE cached' = cached /\ lagging' = (lagging \/ cached # None)
  BY <1>3, <1>5 DEF QuizFresh
<1>6. CASE UNCHANGED <<cached, lagging, dropping>>
  BY <1>1, <1>2, <1>3, <1>6 DEF QuizFresh
<1> QED BY <1>4, <1>5, <1>6 DEF invalidateAnalytics, EntryExpires, DayPasses, quizVars

\* Every step keeps the dashboard fresh.
LEMMA QuizFreshStep ==
    ASSUME QuizInv, QuizTyped, QuizFresh, [QuizNext]_quizVars
    PROVE  QuizFresh'
<1>1. CASE invalidateAnalytics \/ EntryExpires \/ DayPasses \/ UNCHANGED quizVars
  BY <1>1, FreshOther
<1>2. CASE \E c \in Clients :
             \/ \E draft \in Drafts : HandleSaveDraft(c, draft)
             \/ HandlePublishDraft(c) \/ ExplainQuestion(c) \/ PublishDraft(c)
             \/ HandleCreateAttempt(c, today) \/ RequestFails(c)
  BY <1>2, FreshRequestStep
<1>3. CASE \E c \in Clients : SaveDraft(c) \/ CreateAttempt(c) \/ HandleGetAnalytics(c) \/ StoreAnalytics(c)
  BY <1>3, FreshSave, FreshCreate, FreshGet, FreshStore
<1>4. CASE \E c \in Clients : \E i \in DOMAIN attempts, answers \in Sheets, skew \in Skews :
             HandleSubmitAttempt(c, i, answers, today + skew)
  <2>1. PICK c \in Clients, i \in DOMAIN attempts, answers \in Sheets, skew \in Skews :
          HandleSubmitAttempt(c, i, answers, today + skew)
    BY <1>4
  <2>2. today + skew \in Int
    BY QuizAssumption DEF QuizTyped
  <2> QED BY <2>1, <2>2, FreshSubmit
<1> QED BY <1>1, <1>2, <1>3, <1>4 DEF QuizNext

\* In the beginning nothing is computed and nothing cached.
LEMMA QuizFreshInit ==
    ASSUME QuizInit
    PROVE  QuizFresh
<1>1. requests = [c \in Clients |-> Idle] /\ cached = None
  BY DEF QuizInit
<1>2. \A c \in Clients : requests[c].kind = "idle"
  BY <1>1 DEF Idle
<1> QED BY <1>1, <1>2 DEF QuizFresh

\* A fresh dashboard shows all completed attempts and the longest run of days.
LEMMA FreshTruth ==
    ASSUME QuizInv, QuizTyped, QuizFresh
    PROVE  AnalyticsFresh
<1> SUFFICES ASSUME cached # None, dropping = 0, ~lagging
             PROVE  LET dates == DaysOf(attemptRows)
                        last == IF cached.day \in dates THEN cached.day ELSE cached.day - 1
                    IN /\ cached.payload \in computeAnalytics(attemptRows, cached.day)
                       /\ cached.payload.summary.streak =
                            Max({n \in 0 .. Len(attempts) : (last - n + 1) .. last \subseteq dates})
  BY Zenon DEF AnalyticsFresh
<1>1. cached.day \in Int /\ cached.payload \in computeAnalytics(attemptRows, cached.day)
  BY QueryIs DEF QuizFresh
<1>2. PICK rows, now, dates, last :
        /\ rows = attemptRows /\ now = cached.day /\ dates = DaysOf(rows)
        /\ last = IF now \in dates THEN now ELSE now - 1
  OBVIOUS
<1>3. cached.payload.summary.streak = computeStreak(dates, now)
  <2>1. \A payload \in computeAnalytics(rows, now) : payload.summary = buildSummary(rows, now)
    BY DEF computeAnalytics
  <2>2. buildSummary(rows, now).streak = computeStreak(dates, now)
    BY <1>2 DEF buildSummary
  <2> QED BY <1>1, <1>2, <2>1, <2>2
<1>4. DOMAIN rows = Completed /\ \A i \in Completed : rows[i].submitted = attempts[i].submitted
  BY <1>2 DEF attemptRows
<1>5. dates = {attempts[i].submitted : i \in Completed}
  BY <1>2, <1>4 DEF DaysOf
<1>6. dates \in SUBSET Int
  BY <1>5 DEF Completed, QuizInv, AttemptsOK, ShapedAttempt
<1>7. IsFiniteSet(Completed) /\ Cardinality(Completed) <= Len(attempts) /\ Len(attempts) \in Nat
  <2>1. PICK n \in Nat : n = Len(attempts) /\ DOMAIN attempts = 1..n
    BY SeqIs DEF QuizInv, AttemptsOK
  <2>2. PICK a \in Int, b \in Int : a = 1 /\ b = n
    OBVIOUS
  <2>3. IsFiniteSet(a..b) /\ Cardinality(a..b) = IF a > b THEN 0 ELSE b - a + 1
    BY FS_Interval
  <2>4. IsFiniteSet(1..n) /\ Cardinality(1..n) = n
    BY <2>2, <2>3
  <2>5. Completed \in SUBSET (1..n)
    BY <2>1 DEF Completed
  <2>6. IsFiniteSet(Completed) /\ Cardinality(Completed) <= Cardinality(1..n)
    BY <2>4, <2>5, FS_Subset
  <2> QED BY <2>1, <2>4, <2>6
<1>8. IsFiniteSet(dates) /\ Cardinality(dates) <= Len(attempts)
  <2>1. PICK f : f = [i \in Completed |-> attempts[i].submitted]
    OBVIOUS
  <2>2. f \in Surjection(Completed, dates)
    BY <1>5, <2>1 DEF Surjection
  <2>3. IsFiniteSet(dates) /\ Cardinality(dates) <= Cardinality(Completed)
    BY <1>7, <2>2, FS_Surjection
  <2>4. Cardinality(dates) \in Nat /\ Cardinality(Completed) \in Nat
    BY <1>7, <2>3, FS_CardinalityType
  <2> QED BY <1>7, <2>3, <2>4
<1>9. now \in Int
  BY <1>1, <1>2
<1>10. computeStreak(dates, now) = Max({n \in 0 .. Len(attempts) : (last - n + 1) .. last \subseteq dates})
  BY <1>2, <1>6, <1>7, <1>8, <1>9, StreakIs
<1> QED BY <1>1, <1>2, <1>3, <1>10, Zenon

(* -------------------------------- practice -------------------------------- *)

\* A row of the goals.
GoalType == [goal : Goals, status : {"active", "abandoned"}]
\* A goal is there once.
GoalsOK ==
    /\ IsSeq(goals) /\ \A i \in DOMAIN goals : goals[i] \in GoalType
    /\ \A i, j \in DOMAIN goals : goals[i].goal = goals[j].goal => i = j
\* What a selection holds between its statements.
SelectOK(r) ==
    /\ r.pc = "select" => r.goal \in Goals
    /\ r.pc = "activate" => /\ r \in [pc : {"activate"}, goal : Goals, seen : {r.seen}, alone : BOOLEAN]
                            /\ r.alone => Active \subseteq r.seen
\* Each active goal has a device of its own, which has seen it if it is selecting another.
Keepers == {own \in [Active -> Devices] :
              /\ \A i, j \in Active : own[i] = own[j] => i = j
              /\ \A i \in Active : device[own[i]].pc = "activate" => i \in device[own[i]].seen}
\* The inductive invariant of the goals.
GoalInv ==
    /\ GoalsOK /\ clash \in BOOLEAN /\ device \in [Devices -> Elements(device)]
    /\ \A d \in Devices : SelectOK(device[d])
    /\ Keepers # {}
    /\ ~clash => \A i, j \in Active : i = j

\* A device that waits leaves the others.
LEMMA WaitFacts ==
    ASSUME device \in [Devices -> Elements(device)], NEW d \in Devices, NEW r, Wait(d, r)
    PROVE  /\ device' \in [Devices -> Elements(device)']
           /\ device'[d] = r /\ \A e \in Devices \ {d} : device'[e] = device[e]
<1>1. device' = [device EXCEPT ![d] = r] /\ DOMAIN device = Devices
  BY DEF Wait
<1>2. device' \in [Devices -> Elements(device) \cup {r}]
  BY <1>1
<1> DEFINE new == device'
<1>3. new \in [Devices -> {new[k] : k \in DOMAIN new}]
  <2> HIDE DEF new
  <2>1. new \in [Devices -> Elements(device) \cup {r}]
    BY <1>2 DEF new
  <2> QED BY <2>1
<1> QED BY <1>1, <1>3 DEF Elements

\* The owners remain when goals are only abandoned and a device that starts to select
\* has seen all of them.
LEMMA KeepersKept ==
    ASSUME Keepers # {}, Active' \subseteq Active,
           \A d \in Devices : device'[d].pc = "activate" =>
             (device[d].pc = "activate" /\ device'[d].seen = device[d].seen) \/ Active' \subseteq device'[d].seen
    PROVE  Keepers' # {}
<1>1. PICK own \in Keepers : TRUE
  OBVIOUS
<1> DEFINE new == [i \in Active' |-> own[i]]
<1>2. /\ own \in [Active -> Devices]
      /\ \A i, j \in Active : own[i] = own[j] => i = j
      /\ \A i \in Active : device[own[i]].pc = "activate" => i \in device[own[i]].seen
  BY <1>1 DEF Keepers
<1>3. new \in [Active' -> Devices] /\ \A i \in Active' : new[i] = own[i]
  BY <1>2
<1>4. /\ \A i, j \in Active' : new[i] = new[j] => i = j
      /\ \A i \in Active' : device'[new[i]].pc = "activate" => i \in device'[new[i]].seen
  BY <1>2, <1>3
<1> HIDE DEF new
<1>5. new \in Keepers'
  BY <1>3, <1>4 DEF Keepers
<1> QED BY <1>5

\* Steps that select nothing and leave the goals.
LEMMA GoalQuiet ==
    ASSUME GoalInv, UNCHANGED <<goals, clash>>, device' \in [Devices -> Elements(device)'],
           \A d \in Devices : device'[d] = device[d] \/ device'[d].pc \notin {"select", "activate"}
    PROVE  GoalInv'
<1>1. GoalsOK' /\ Active' = Active /\ clash' \in BOOLEAN
  BY DEF GoalInv, GoalsOK, Active
<1>2. \A d \in Devices : SelectOK(device[d])'
  BY <1>1 DEF GoalInv, SelectOK
<1>3. Keepers' # {}
  BY <1>1, KeepersKept DEF GoalInv
<1> QED BY <1>1, <1>2, <1>3 DEF GoalInv

\* The statements of a selection before the last keep the goals.
LEMMA SelectQuiet ==
    ASSUME GoalInv, NEW d \in Devices,
           \/ \E g \in Goals : HandleSelectGoal(d, g)
           \/ AbandonActive(d)
    PROVE  GoalInv'
<1>1. PICK r : /\ Wait(d, r)
               /\ \/ r.pc = "select" /\ r.goal \in Goals
                  \/ r = [pc |-> "activate", goal |-> device[d].goal, seen |-> Active, alone |-> TRUE]
                     /\ device[d].goal \in Goals
  <2>1. CASE \E g \in Goals : HandleSelectGoal(d, g)
    BY <2>1 DEF HandleSelectGoal
  <2>2. CASE AbandonActive(d)
    <3>1. device[d].goal \in Goals
      BY <2>2 DEF AbandonActive, GoalInv, SelectOK
    <3> QED BY <2>2, <3>1 DEF AbandonActive
  <2> QED BY <2>1, <2>2
<1>2. UNCHANGED <<goals, clash>>
  BY DEF HandleSelectGoal, AbandonActive
<1>3. GoalsOK' /\ Active' = Active /\ clash' \in BOOLEAN
  BY <1>2 DEF GoalInv, GoalsOK, Active
<1>4. /\ device' \in [Devices -> Elements(device)']
      /\ device'[d] = r /\ \A e \in Devices \ {d} : device'[e] = device[e]
  BY <1>1, WaitFacts DEF GoalInv
<1>5. \A e \in Devices : SelectOK(device[e])'
  <2>1. SelectOK(device[d])'
    <3>1. CASE r.pc = "select" /\ r.goal \in Goals
      BY <1>4, <3>1 DEF SelectOK
    <3>2. CASE /\ r = [pc |-> "activate", goal |-> device[d].goal, seen |-> Active, alone |-> TRUE]
               /\ device[d].goal \in Goals
      <4>1. PICK g, S : g \in Goals /\ r = [pc |-> "activate", goal |-> g, seen |-> S, alone |-> TRUE] /\ S = Active
        BY <3>2
      <4> QED BY <1>3, <1>4, <4>1 DEF SelectOK
    <3> QED BY <1>1, <3>1, <3>2
  <2>2. \A e \in Devices \ {d} : SelectOK(device[e])'
    BY <1>3, <1>4 DEF GoalInv, SelectOK
  <2> QED BY <2>1, <2>2
<1>6. Keepers' # {}
  <2>1. \A e \in Devices : device'[e].pc = "activate" =>
           (device[e].pc = "activate" /\ device'[e].seen = device[e].seen) \/ Active' \subseteq device'[e].seen
    BY <1>1, <1>3, <1>4
  <2> QED BY <1>3, <2>1, KeepersKept DEF GoalInv
<1> QED BY <1>2, <1>3, <1>4, <1>5, <1>6 DEF GoalInv

\* Abandoning goals leaves them where they are.
LEMMA AbandonedFacts ==
    ASSUME GoalsOK, NEW S
    PROVE  /\ IsSeq(Abandoned(S)) /\ Len(Abandoned(S)) = Len(goals) /\ DOMAIN Abandoned(S) = DOMAIN goals
           /\ \A i \in DOMAIN goals :
                /\ Abandoned(S)[i] \in GoalType /\ Abandoned(S)[i].goal = goals[i].goal
                /\ Abandoned(S)[i].status = "active" <=> goals[i].status = "active" /\ i \notin S
<1>1. PICK list : list = Abandoned(S)
  OBVIOUS
<1>2. Len(goals) \in Nat /\ DOMAIN goals = 1 .. Len(goals)
  BY SeqIs DEF GoalsOK
<1>3. DOMAIN list = 1 .. Len(goals)
  BY <1>1, <1>2 DEF Abandoned
<1>4. \A i \in DOMAIN goals :
        /\ list[i] \in GoalType /\ list[i].goal = goals[i].goal
        /\ list[i].status = "active" <=> goals[i].status = "active" /\ i \notin S
  <2> SUFFICES ASSUME NEW i \in DOMAIN goals
               PROVE  /\ list[i] \in GoalType /\ list[i].goal = goals[i].goal
                      /\ list[i].status = "active" <=> goals[i].status = "active" /\ i \notin S
    OBVIOUS
  <2>1. list[i] = IF i \in S THEN [goals[i] EXCEPT !.status = "abandoned"] ELSE goals[i]
    BY <1>1 DEF Abandoned
  <2> QED BY <2>1 DEF GoalsOK, GoalType
<1>5. list \in [1 .. Len(goals) -> GoalType]
  <2>1. list = [i \in DOMAIN goals |-> list[i]]
    BY <1>1 DEF Abandoned
  <2> QED BY <1>2, <1>4, <2>1
<1>6. IsSeq(list) /\ Len(list) = Len(goals)
  BY <1>2, <1>5, SeqFrom
<1> QED BY <1>1, <1>2, <1>3, <1>4, <1>6

\* Activating a goal makes one row active, its own or a new one.
LEMMA ActivatedFacts ==
    ASSUME NEW list, IsSeq(list), \A i \in DOMAIN list : list[i] \in GoalType,
           \A i, j \in DOMAIN list : list[i].goal = list[j].goal => i = j,
           NEW g \in Goals, NEW result, result = Activated(list, g)
    PROVE  /\ IsSeq(result) /\ DOMAIN list \subseteq DOMAIN result
           /\ \A i \in DOMAIN result : result[i] \in GoalType
           /\ \A i, j \in DOMAIN result : result[i].goal = result[j].goal => i = j
           /\ \E new \in DOMAIN result : \A i \in DOMAIN result :
                result[i].status = "active" => i = new \/ (i \in DOMAIN list /\ list[i].status = "active")
<1>1. Len(list) \in Nat /\ DOMAIN list = 1 .. Len(list)
  BY SeqIs
<1>2. CASE \E i \in DOMAIN list : list[i].goal = g
  <2>1. PICK new \in DOMAIN list : list[new].goal = g
    BY <1>2
  <2>2. result = [i \in DOMAIN list |-> IF list[i].goal = g THEN [list[i] EXCEPT !.status = "active"] ELSE list[i]]
    BY <1>2 DEF Activated
  <2>3. \A i \in DOMAIN list :
           /\ result[i] \in GoalType /\ result[i].goal = list[i].goal
           /\ result[i].status = "active" => i = new \/ list[i].status = "active"
    <3> SUFFICES ASSUME NEW i \in DOMAIN list
                 PROVE  /\ result[i] \in GoalType /\ result[i].goal = list[i].goal
                        /\ result[i].status = "active" => i = new \/ list[i].status = "active"
      OBVIOUS
    <3>1. result[i] = IF list[i].goal = g THEN [list[i] EXCEPT !.status = "active"] ELSE list[i]
      BY <2>2
    <3> QED BY <2>1, <3>1 DEF GoalType
  <2>4. DOMAIN result = DOMAIN list
    BY <2>2
  <2>5. result \in [1 .. Len(list) -> GoalType]
    <3>1. result = [i \in DOMAIN list |-> result[i]]
      BY <2>2
    <3> QED BY <1>1, <2>3, <3>1
  <2>6. IsSeq(result)
    BY <1>1, <2>5, SeqFrom
  <2> QED BY <2>1, <2>3, <2>4, <2>6
<1>3. CASE ~\E i \in DOMAIN list : list[i].goal = g
  <2>1. PICK rec : rec = [goal |-> g, status |-> "active"] /\ result = Append(list, rec)
    BY <1>3 DEF Activated
  <2>2. /\ IsSeq(result) /\ DOMAIN result = 1 .. Len(list) + 1
        /\ \A i \in 1 .. Len(list) : result[i] = list[i]
        /\ result[Len(list) + 1] = rec
    BY <2>1, SeqApp
  <2>3. rec \in GoalType /\ rec.goal = g
    BY <2>1 DEF GoalType
  <2>4. DOMAIN result = DOMAIN list \cup {Len(list) + 1}
    BY <1>1, <2>2
  <2>5. /\ \A i \in DOMAIN result : result[i] \in GoalType
        /\ \A i \in DOMAIN list : result[i].goal # g
    BY <1>1, <1>3, <2>2, <2>3, <2>4
  <2>6. \A i, j \in DOMAIN result : result[i].goal = result[j].goal => i = j
    BY <1>1, <2>2, <2>3, <2>4, <2>5
  <2>7. \A i \in DOMAIN result :
           result[i].status = "active" => i = Len(list) + 1 \/ (i \in DOMAIN list /\ list[i].status = "active")
    BY <1>1, <2>2, <2>4
  <2> QED BY <2>2, <2>4, <2>5, <2>6, <2>7
<1> QED BY <1>2, <1>3

\* Abandoning the goal keeps the invariant of the goals.
LEMMA AbandonGoalStep ==
    ASSUME GoalInv, NEW d \in Devices, AbandonGoal(d)
    PROVE  GoalInv'
<1>1. goals' = Abandoned(Active) /\ UNCHANGED <<device, clash>>
  BY DEF AbandonGoal
<1>2. /\ IsSeq(goals') /\ DOMAIN goals' = DOMAIN goals
      /\ \A i \in DOMAIN goals :
           /\ goals'[i] \in GoalType /\ goals'[i].goal = goals[i].goal
           /\ goals'[i].status = "active" <=> goals[i].status = "active" /\ i \notin Active
  BY <1>1, AbandonedFacts DEF GoalInv
<1>3. GoalsOK'
  BY <1>2 DEF GoalInv, GoalsOK
<1>4. Active' = {}
  BY <1>2 DEF Active
<1>5. \A e \in Devices : SelectOK(device[e])'
  BY <1>1, <1>4 DEF GoalInv, SelectOK
<1>6. Keepers' # {}
  BY <1>1, <1>4, KeepersKept DEF GoalInv
<1> QED BY <1>1, <1>3, <1>4, <1>5, <1>6 DEF GoalInv, Elements

\* The last statement of a selection keeps the invariant of the goals: the new active
\* goal is owned by the device, and what is still active was not seen by it.
LEMMA SelectGoalStep ==
    ASSUME GoalInv, NEW d \in Devices, SelectGoal(d)
    PROVE  GoalInv'
<1> DEFINE r == device[d]
<1>1. /\ r.pc = "activate" /\ r.goal \in Goals /\ r.alone \in BOOLEAN
      /\ r.alone => Active \subseteq r.seen
  BY DEF SelectGoal, GoalInv, SelectOK
<1>2. goals' = Activated(Abandoned(r.seen), r.goal) /\ clash' = ~r.alone
  BY DEF SelectGoal
<1>3. /\ IsSeq(Abandoned(r.seen)) /\ DOMAIN Abandoned(r.seen) = DOMAIN goals
      /\ \A i \in DOMAIN goals :
           /\ Abandoned(r.seen)[i] \in GoalType /\ Abandoned(r.seen)[i].goal = goals[i].goal
           /\ Abandoned(r.seen)[i].status = "active" <=> i \in Active \ r.seen
  BY AbandonedFacts DEF GoalInv, Active
<1>4. PICK list : list = Abandoned(r.seen)
  OBVIOUS
<1>5. \A i, j \in DOMAIN list : list[i].goal = list[j].goal => i = j
  BY <1>3, <1>4 DEF GoalInv, GoalsOK
<1>6. /\ GoalsOK' /\ DOMAIN goals \subseteq DOMAIN goals'
      /\ \E new \in DOMAIN goals' : Active' \subseteq (Active \ r.seen) \cup {new}
  <2>1. PICK result : result = Activated(list, r.goal)
    OBVIOUS
  <2>2. /\ IsSeq(result) /\ DOMAIN list \subseteq DOMAIN result
        /\ \A i \in DOMAIN result : result[i] \in GoalType
        /\ \A i, j \in DOMAIN result : result[i].goal = result[j].goal => i = j
        /\ \E new \in DOMAIN result : \A i \in DOMAIN result :
             result[i].status = "active" => i = new \/ (i \in DOMAIN list /\ list[i].status = "active")
    <3> HIDE DEF r
    <3> QED BY <1>1, <1>3, <1>4, <1>5, <2>1, ActivatedFacts
  <2>3. goals' = result
    BY <1>2, <1>4, <2>1
  <2> QED BY <1>3, <1>4, <2>2, <2>3 DEF GoalsOK, Active
<1>7. PICK new \in DOMAIN goals' : Active' \subseteq (Active \ r.seen) \cup {new}
  BY <1>6
<1>8. /\ device' = [e \in Devices |->
          IF e = d THEN AtRestNow
          ELSE IF device[e].pc = "activate" THEN [device[e] EXCEPT !.alone = FALSE] ELSE device[e]]
      /\ device'[d] = AtRestNow
  BY DEF SelectGoal
<1>9. device' \in [Devices -> Elements(device)']
  BY <1>8 DEF Elements
<1>10. \A e \in Devices \ {d} :
         /\ device[e].pc # "activate" => device'[e] = device[e]
         /\ device[e].pc = "activate" =>
              /\ device'[e] \in [pc : {"activate"}, goal : Goals, seen : {device[e].seen}, alone : {FALSE}]
              /\ device'[e].seen = device[e].seen
  BY <1>8 DEF GoalInv, SelectOK
<1>11. \A e \in Devices : SelectOK(device[e])'
  <2>1. SelectOK(device[d])'
    BY <1>8 DEF SelectOK, AtRestNow
  <2>2. \A e \in Devices \ {d} : SelectOK(device[e])'
    BY <1>10 DEF GoalInv, SelectOK
  <2> QED BY <2>1, <2>2
<1>12. Keepers' # {}
  <2>1. PICK own : /\ own \in [Active -> Devices]
                   /\ \A i, j \in Active : own[i] = own[j] => i = j
                   /\ \A i \in Active : device[own[i]].pc = "activate" => i \in device[own[i]].seen
    BY DEF GoalInv, Keepers
  <2> DEFINE own2 == [i \in Active' |-> IF i = new THEN d ELSE own[i]]
  <2>2. /\ own2 \in [Active' -> Devices]
        /\ \A i \in Active' : i # new => own2[i] = own[i] /\ i \in Active /\ own[i] # d
        /\ \A i \in Active' : i = new => own2[i] = d
    BY <1>1, <1>7, <2>1
  <2> HIDE DEF own2
  <2>3. \A i, j \in Active' : own2[i] = own2[j] => i = j
    BY <2>1, <2>2
  <2>4. \A i \in Active' : device'[own2[i]].pc = "activate" => i \in device'[own2[i]].seen
    <3>1. AtRestNow.pc # "activate"
      BY DEF AtRestNow
    <3> QED BY <1>8, <1>10, <2>1, <2>2, <3>1
  <2>5. own2 \in Keepers'
    BY <2>2, <2>3, <2>4 DEF Keepers
  <2> QED BY <2>5
<1>13. ~clash' => \A i, j \in Active' : i = j
  BY <1>1, <1>2, <1>7
<1> QED BY <1>1, <1>2, <1>6, <1>9, <1>11, <1>12, <1>13 DEF GoalInv

\* A daily set.
SetType == [goal : Nat, date : Nat, created : Nat, status : {"pending", "completed"}, score : 0..1000,
            questions : SUBSET Questions, focus : SUBSET STRING, before : Nat]
\* A skill gap.
GapType == [topic : STRING, subject : STRING, weakness : 0..100]

\* Daily sets are one for a goal and day, of questions that exist, and new to the days
\* that were seen when they were chosen.
SetsOK ==
    /\ IsSeq(sets)
    /\ \A i \in DOMAIN sets :
         /\ sets[i] \in SetType /\ sets[i].goal \in DOMAIN goals /\ sets[i].questions \subseteq pool
         /\ sets[i].before < i /\ Cardinality(sets[i].questions) <= DailyTotal
    /\ \A i, j \in DOMAIN sets :
         sets[i].goal = sets[j].goal /\ sets[i].date = sets[j].date => i = j
    /\ \A j \in DOMAIN sets : \A i \in 1 .. sets[j].before :
         sets[j].created - sets[i].created < SeenDays => sets[i].questions \cap sets[j].questions = {}
\* What a choice may hold: nothing of the sets it has seen of the last days.
Picks == {x \in [picked : SUBSET Questions, focus : SUBSET STRING, before : Nat] :
            /\ Cardinality(x.picked) <= DailyTotal /\ x.before <= Len(sets)
            /\ \A i \in 1 .. x.before :
                 day - sets[i].created < SeenDays => sets[i].questions \cap x.picked = {}}
\* The days of a week.
DaysIn(week) == {on \in Nat : weekBounds(on) = week}
\* The score of a week in which every day has a completed set.
WeekResults == {h \in [goal : Nat, week : Nat, score : 0..1000] :
                  /\ DaysIn(h.week) = {sets[i].date : i \in DoneIn(h.goal, h.week)}
                  /\ h.score = WeekMean(DoneIn(h.goal, h.week))}
\* Weekly sets are of goals there are and questions that exist.
WeeklyOK == \A w \in weekly :
    /\ w \in [goal : Nat, week : Nat, questions : SUBSET Questions]
    /\ w.goal \in DOMAIN goals /\ w.questions \subseteq pool
\* The completed sets.
Done == {i \in DOMAIN sets : sets[i].status = "completed"}
\* Each completed set moved the gaps once.
MovesOK ==
    /\ IsSeq(moves) /\ {moves[i] : i \in DOMAIN moves} = Done
    /\ \A i, j \in DOMAIN moves : moves[i] = moves[j] => i = j
\* Scores were told of completed sets only, and are theirs.
ScoresOK ==
    /\ IsSeq(scores) /\ Len(scores) = Len(sets)
    /\ \A i \in DOMAIN sets : scores[i] # {} => i \in Done /\ scores[i] = {sets[i].score}
\* A week has one score, of a full week.
HistoryOK ==
    /\ history \subseteq WeekResults
    /\ \A h, k \in history : h.goal = k.goal /\ h.week = k.week => h = k
\* A topic of a subject has one skill gap.
GapsOK ==
    /\ gaps \subseteq GapType
    /\ \A g, h \in gaps : g.topic = h.topic /\ g.subject = h.subject => g = h
\* What a device holds between the transactions of a daily set and of its week.
HoldOK(r) ==
    /\ r.pc \in {"generate", "insert", "week", "insertWeek", "progress", "append"} => r.goal \in DOMAIN goals
    /\ r.pc \in {"generate", "insert"} => r.date \in Nat
    /\ r.pc = "insert" => [picked |-> r.picked, focus |-> r.focus, before |-> r.before] \in Picks
    /\ r.pc \in {"insertWeek", "progress", "append"} => r.week \in Nat
    /\ r.pc = "insertWeek" => r.picked \subseteq Questions
    /\ r.pc = "append" => [goal |-> r.goal, week |-> r.week, score |-> r.score] \in WeekResults
\* No device holds more.
HoldsOK == \A d \in Devices : HoldOK(device[d])
\* The inductive invariant of the sets.
SetInv ==
    /\ flag \in [enabled : BOOLEAN, rollout : 0..100] /\ day \in Nat /\ pool \subseteq Questions
    /\ DOMAIN goals \subseteq Nat
    /\ SetsOK /\ WeeklyOK /\ MovesOK /\ ScoresOK /\ HistoryOK /\ GapsOK /\ HoldsOK

\* Sets are numbered from 1 and have dates.
LEMMA SetsAre ==
    ASSUME SetsOK
    PROVE  /\ Len(sets) \in Nat /\ DOMAIN sets = 1 .. Len(sets)
           /\ \A i \in DOMAIN sets : sets[i].date \in Nat /\ sets[i].created \in Nat
BY SeqIs DEF SetsOK, SetType

\* Sets are added, lose questions, and keep the rest until they are completed.
SetsGrow ==
    /\ DOMAIN sets \subseteq DOMAIN sets'
    /\ \A i \in DOMAIN sets :
         /\ sets'[i].goal = sets[i].goal /\ sets'[i].date = sets[i].date
         /\ sets'[i].created = sets[i].created /\ sets'[i].questions \subseteq sets[i].questions
         /\ sets[i].status = "completed" => sets'[i].status = "completed" /\ sets'[i].score = sets[i].score

\* A full week has its sets, and so its score, for good.
LEMMA WeekKept ==
    ASSUME SetsOK, SetsOK', SetsGrow, NEW g, NEW week,
           DaysIn(week) = {sets[i].date : i \in DoneIn(g, week)}
    PROVE  DoneIn(g, week)' = DoneIn(g, week) /\ WeekMean(DoneIn(g, week))' = WeekMean(DoneIn(g, week))
<1> DEFINE now == {i \in DOMAIN sets : sets[i].goal = g /\ sets[i].status = "completed" /\ weekBounds(sets[i].date) = week}
           then == {i \in DOMAIN sets' : sets'[i].goal = g /\ sets'[i].status = "completed" /\ weekBounds(sets'[i].date) = week}
<1>1. now \subseteq then
  BY DEF SetsGrow
<1>2. ASSUME NEW i \in then
      PROVE  i \in now
  <2>1. sets'[i].date \in DaysIn(week)
    BY DEF SetsOK, SetType, DaysIn
  <2>2. PICK j \in now : sets[j].date = sets'[i].date
    BY <2>1 DEF DoneIn
  <2>3. sets'[j].goal = sets'[i].goal /\ sets'[j].date = sets'[i].date /\ j \in DOMAIN sets'
    BY <2>2 DEF SetsGrow
  <2>4. i = j
    BY <2>3 DEF SetsOK
  <2> QED BY <2>2, <2>4
<1>3. then = now
  BY <1>1, <1>2
<1>4. DoneIn(g, week)' = then /\ DoneIn(g, week) = now
  BY DEF DoneIn
<1>5. \A i \in now : sets'[i].score = sets[i].score
  BY DEF SetsGrow
<1> HIDE DEF now, then
<1>6. [i \in then |-> sets'[i].score] = [i \in now |-> sets[i].score]
  BY <1>3, <1>5
<1>7. WeekMean(DoneIn(g, week))' = MeanOf([i \in then |-> sets'[i].score])
  BY <1>4 DEF WeekMean
<1>8. WeekMean(DoneIn(g, week)) = MeanOf([i \in now |-> sets[i].score])
  BY <1>4 DEF WeekMean
<1> QED BY <1>3, <1>4, <1>6, <1>7, <1>8

\* The results of weeks are kept when sets are added or completed.
LEMMA WeeksKept ==
    ASSUME SetsOK, SetsOK', SetsGrow
    PROVE  WeekResults \subseteq WeekResults'
<1> SUFFICES ASSUME NEW h \in WeekResults
             PROVE  h \in WeekResults'
  OBVIOUS
<1>1. /\ h \in [goal : Nat, week : Nat, score : 0..1000]
      /\ DaysIn(h.week) = {sets[i].date : i \in DoneIn(h.goal, h.week)}
      /\ h.score = WeekMean(DoneIn(h.goal, h.week))
  BY DEF WeekResults
<1>2. /\ DoneIn(h.goal, h.week)' = DoneIn(h.goal, h.week)
      /\ WeekMean(DoneIn(h.goal, h.week))' = WeekMean(DoneIn(h.goal, h.week))
  BY <1>1, WeekKept
<1>3. \A i \in DoneIn(h.goal, h.week) : sets'[i].date = sets[i].date
  BY DEF SetsGrow, DoneIn
<1>4. {sets'[i].date : i \in DoneIn(h.goal, h.week)'} = {sets[i].date : i \in DoneIn(h.goal, h.week)}
  BY <1>2, <1>3
<1>5. DaysIn(h.week) = {sets[i].date : i \in DoneIn(h.goal, h.week)}'
  BY <1>1, <1>4
<1>6. h.score = WeekMean(DoneIn(h.goal, h.week))'
  BY <1>1, <1>2
<1> QED BY <1>1, <1>5, <1>6 DEF WeekResults

\* So are the choices that devices hold.
LEMMA PicksKept ==
    ASSUME SetsOK, SetsOK', SetsGrow, day \in Nat, day' \in Nat, day <= day'
    PROVE  Picks \subseteq Picks'
<1> SUFFICES ASSUME NEW x \in Picks
             PROVE  x \in Picks'
  OBVIOUS
<1>1. /\ Len(sets) \in Nat /\ DOMAIN sets = 1 .. Len(sets) /\ Len(sets') \in Nat /\ DOMAIN sets' = 1 .. Len(sets')
      /\ \A i \in DOMAIN sets : sets[i].created \in Nat
  BY SetsAre, SeqIs DEF SetsOK
<1>2. Len(sets) <= Len(sets')
  <2>1. CASE Len(sets) = 0
    BY <1>1, <2>1
  <2>2. CASE Len(sets) # 0
    <3>1. Len(sets) \in DOMAIN sets'
      BY <1>1, <2>2 DEF SetsGrow
    <3> QED BY <1>1, <3>1
  <2> QED BY <2>1, <2>2
<1>3. /\ x \in [picked : SUBSET Questions, focus : SUBSET STRING, before : Nat]
      /\ Cardinality(x.picked) <= DailyTotal /\ x.before <= Len(sets)
      /\ \A i \in 1 .. x.before :
           day - sets[i].created < SeenDays => sets[i].questions \cap x.picked = {}
  BY DEF Picks
<1>4. x.before <= Len(sets')
  BY <1>1, <1>2, <1>3
<1>5. ASSUME NEW i \in 1 .. x.before, day' - sets'[i].created < SeenDays
      PROVE  sets'[i].questions \cap x.picked = {}
  <2>1. i \in DOMAIN sets
    BY <1>1, <1>3
  <2>2. sets'[i].created = sets[i].created /\ sets'[i].questions \subseteq sets[i].questions
    BY <2>1 DEF SetsGrow
  <2>3. day - sets[i].created < SeenDays
    BY <1>1, <1>5, <2>1, <2>2, PracticeAssumption
  <2> QED BY <1>3, <2>2, <2>3
<1> QED BY <1>3, <1>4, <1>5 DEF Picks

\* What a device holds stays good when goals and sets are added.
LEMMA HoldsKept ==
    ASSUME SetInv, DOMAIN goals \subseteq DOMAIN goals', Picks \subseteq Picks', WeekResults \subseteq WeekResults',
           \A d \in Devices : device'[d] = device[d] \/ device'[d].pc \in {"rest", "select", "activate"} \/ HoldOK(device[d])'
    PROVE  HoldsOK'
<1> SUFFICES ASSUME NEW d \in Devices
             PROVE  HoldOK(device[d])'
  BY DEF HoldsOK
<1>1. CASE device'[d] = device[d]
  <2>1. HoldOK(device[d])
    BY DEF SetInv, HoldsOK
  <2>2. PICK r : r = device[d]
    OBVIOUS
  <2>3. HoldOK(r)
    BY <2>1, <2>2
  <2>4. HoldOK(r)'
    BY <2>3 DEF HoldOK
  <2> QED BY <1>1, <2>2, <2>4 DEF HoldOK
<1>2. CASE device'[d].pc \in {"rest", "select", "activate"}
  BY <1>2 DEF HoldOK
<1> QED BY <1>1, <1>2

\* Steps that leave the sets, the weeks and the skill gaps.
LEMMA SetQuiet ==
    ASSUME SetInv, UNCHANGED <<sets, weekly, history, gaps, pool, day, moves, scores>>,
           flag' \in [enabled : BOOLEAN, rollout : 0..100],
           DOMAIN goals \subseteq DOMAIN goals', DOMAIN goals' \subseteq Nat,
           \A d \in Devices : device'[d] = device[d] \/ device'[d].pc \in {"rest", "select", "activate"} \/ HoldOK(device[d])'
    PROVE  SetInv'
<1>1. SetsOK'
  BY DEF SetInv, SetsOK
<1>2. SetsGrow
  BY DEF SetsGrow
<1>3. Picks \subseteq Picks' /\ WeekResults \subseteq WeekResults'
  BY <1>1, <1>2, PicksKept, WeeksKept DEF SetInv
<1>4. HoldsOK'
  BY <1>3, HoldsKept
<1>5. WeeklyOK' /\ MovesOK' /\ ScoresOK' /\ GapsOK'
  BY DEF SetInv, WeeklyOK, MovesOK, ScoresOK, GapsOK, Done
<1>6. HistoryOK'
  BY <1>3 DEF SetInv, HistoryOK
<1> QED BY <1>1, <1>4, <1>5, <1>6 DEF SetInv

\* The mean of scores is one.
LEMMA MeanInRange ==
    ASSUME NEW S, IsFiniteSet(S), S # {}, NEW f \in [S -> 0..1000]
    PROVE  MeanOf(f) \in 0..1000
<1>1. PICK n : n = Cardinality(S)
  OBVIOUS
<1>2. n \in Nat \ {0}
  BY <1>1, FS_CardinalityType, FS_EmptySet
<1>3. PICK sum : sum = SumOver(f, S)
  OBVIOUS
<1>4. sum \in 0 .. 1000 * n
  <2>0. PICK m \in Nat : m = 1000
    OBVIOUS
  <2>1. f \in [S -> 0..m]
    BY <2>0
  <2>2. SumOver(f, S) \in 0 .. m * Cardinality(S)
    BY <2>1, SumBound
  <2> QED BY <1>1, <1>3, <2>0, <2>2, Zenon
<1>5. MeanOf(f) = (2 * sum + n) \div (2 * n)
  <2>1. DOMAIN f = S
    OBVIOUS
  <2> QED BY <1>1, <1>3, <2>1, Zenon DEF MeanOf, SumOver
<1>6. (2 * sum + n) \div (2 * n) \in 0..1000
  <2>1. 2 * n \in Nat \ {0} /\ 2 * sum + n \in Nat /\ 2 * sum + n < 1001 * (2 * n)
    BY <1>2, <1>4
  <2>2. ASSUME NEW a \in Nat, NEW b \in Nat \ {0}, a < 1001 * b
        PROVE  a \div b \in 0..1000
    BY <2>2
  <2>3. PICK a, b : a = 2 * sum + n /\ b = 2 * n
    OBVIOUS
  <2>4. a \in Nat /\ b \in Nat \ {0} /\ a < 1001 * b
    BY <2>1, <2>3, Zenon
  <2>5. a \div b \in 0..1000
    BY <2>2, <2>4
  <2> QED BY <2>3, <2>5, Zenon
<1> QED BY <1>5, <1>6

\* The active goal is a goal.
LEMMA ActiveGoalThere ==
    ASSUME IsSeq(goals), Active # {}
    PROVE  activeGoal \in DOMAIN goals
<1>1. Len(goals) \in Nat /\ DOMAIN goals = 1 .. Len(goals)
  BY SeqIs
<1>2. Active \in SUBSET Nat /\ \A i \in Active : i <= Len(goals) /\ i \in DOMAIN goals
  BY <1>1 DEF Active
<1>3. Max(Active) \in Active
  BY <1>1, <1>2, MaxIn
<1> QED BY <1>2, <1>3 DEF activeGoal

\* A choice takes at most total questions, none of the excluded ones.
LEMMA SelectSound ==
    ASSUME IsFiniteSet(pool), NEW total \in Nat, NEW exclude, NEW subjects, NEW weak,
           NEW picked \in SelectForDaily(total, exclude, subjects, weak)
    PROVE  picked \subseteq pool /\ picked \cap exclude = {} /\ Cardinality(picked) <= total
<1> DEFINE n == Len(weak)
           alloc == perTopicAllocation(allocateWeak(total), n)
           before(part, i) == UNION {part[j] : j \in 1 .. i - 1}
           parts == {part \in [1..n -> SUBSET pool] :
                       \A i \in 1..n : part[i] \in selectByTopic(weak[i], exclude \cup before(part, i), alloc[i])}
<1>1. PICK part, s, more :
         /\ part \in parts /\ s = UNION {part[i] : i \in 1..n} /\ picked = s \cup more
         /\ more \in selectOther(subjects, exclude \cup s, total - Cardinality(s))
  BY DEF SelectForDaily
<1>2. s \subseteq pool /\ s \cap exclude = {}
  <2> SUFFICES ASSUME NEW q \in s
               PROVE  q \in pool /\ q \notin exclude
    OBVIOUS
  <2>1. PICK j \in 1..n : q \in part[j]
    BY <1>1
  <2> QED BY <1>1, <2>1 DEF selectByTopic, AnyOf, kSubset
<1>3. PICK C : more \in AnyOf(C, total - Cardinality(s)) /\ C \subseteq pool /\ C \cap (exclude \cup s) = {}
  <2>1. PICK C : C = {q \in pool : subjects = {} \/ SubjectOf[q] \in subjects} \ (exclude \cup s)
    OBVIOUS
  <2>2. more \in AnyOf(C, total - Cardinality(s))
    BY <1>1, <2>1 DEF selectOther
  <2> QED BY <2>1, <2>2
<1>4. more \subseteq C /\ Cardinality(more) = Min({total - Cardinality(s), Cardinality(C)})
  BY <1>3 DEF AnyOf, kSubset
<1>5. /\ IsFiniteSet(s) /\ IsFiniteSet(C) /\ IsFiniteSet(more)
      /\ Cardinality(s) \in Nat /\ Cardinality(C) \in Nat /\ Cardinality(more) \in Nat
  BY <1>2, <1>3, <1>4, FS_Subset, FS_CardinalityType
<1>6. Cardinality(more) <= total - Cardinality(s)
  <2>1. \A a, b \in Int : Min({a, b}) <= a
    <3> SUFFICES ASSUME NEW a \in Int, NEW b \in Int
                 PROVE  Min({a, b}) <= a
      OBVIOUS
    <3>1. \E x \in {a, b} : \A y \in {a, b} : x <= y
      OBVIOUS
    <3>2. Min({a, b}) \in {a, b} /\ \A y \in {a, b} : Min({a, b}) <= y
      BY <3>1, Zenon DEF Min
    <3> QED BY <3>2
  <2>2. total - Cardinality(s) \in Int /\ Cardinality(C) \in Int
    BY <1>5
  <2>3. Min({total - Cardinality(s), Cardinality(C)}) <= total - Cardinality(s)
    BY <2>1, <2>2
  <2> QED BY <1>4, <2>3
<1>7. Cardinality(s \cup more) <= total
  <2>1. s \cap more = {}
    BY <1>3, <1>4
  <2>2. Cardinality(s \cup more) = Cardinality(s) + Cardinality(more) - Cardinality(s \cap more)
    BY <1>5, FS_Union
  <2>3. Cardinality(s \cap more) = 0
    BY <2>1, FS_EmptySet
  <2> QED BY <1>5, <1>6, <2>2, <2>3
<1> QED BY <1>1, <1>2, <1>3, <1>4, <1>7

\* A week has its days.
LEMMA DaysOfWeek ==
    ASSUME NEW week \in Nat
    PROVE  IsFiniteSet(DaysIn(week)) /\ Cardinality(DaysIn(week)) = WeekDays
<1>0. WeekDays \in Nat \ {0}
  BY PracticeAssumption
<1> DEFINE first == WeekDays * week
<1>1. first \in Nat /\ first + WeekDays - 1 \in Nat
  BY <1>0
<1>2. \A on \in Nat : on \div WeekDays = week <=> on \in first .. first + WeekDays - 1
  <2> SUFFICES ASSUME NEW on \in Nat
               PROVE  on \div WeekDays = week <=> on \in first .. first + WeekDays - 1
    OBVIOUS
  <2>1. PICK n \in Nat \ {0} : n = WeekDays
    BY <1>0
  <2>2. PICK q, r : q = on \div n /\ r = on % n
    OBVIOUS
  <2>3. q \in Nat /\ r \in 0 .. n - 1 /\ on = n * q + r
    BY <2>2
  <2>4. CASE q = week
    BY <2>1, <2>2, <2>3, <2>4
  <2>5. CASE q < week
    <3>1. q + 1 <= week
      BY <2>3, <2>5
    <3>2. n * (q + 1) <= n * week
      BY <2>3, <3>1
    <3>3. on < n * week
      BY <2>3, <3>2
    <3> QED BY <2>1, <2>2, <2>3, <2>5, <3>3
  <2>6. CASE q > week
    <3>1. n * (week + 1) <= n * q
      BY <2>3, <2>6
    <3>2. on >= n * week + n
      BY <2>3, <3>1
    <3> QED BY <2>1, <2>2, <2>3, <2>6, <3>2
  <2> QED BY <2>3, <2>4, <2>5, <2>6
<1>3. DaysIn(week) = first .. first + WeekDays - 1
  <2> HIDE DEF first
  <2>1. \A on \in first .. first + WeekDays - 1 : on \in Nat
    BY <1>1
  <2> QED BY <1>2, <2>1 DEF DaysIn, weekBounds
<1>4. PICK a \in Int, b \in Int : a = first /\ b = first + WeekDays - 1
  BY <1>1
<1>5. b - a + 1 = WeekDays /\ a <= b
  <2> HIDE DEF first
  <2> QED BY <1>0, <1>1, <1>4
<1>6. IsFiniteSet(a..b) /\ Cardinality(a..b) = WeekDays
  <2>1. IsFiniteSet(a..b) /\ Cardinality(a..b) = IF a > b THEN 0 ELSE b - a + 1
    BY FS_Interval
  <2> QED BY <1>5, <2>1
<1>7. DaysIn(week) = a..b
  BY <1>3, <1>4
<1> QED BY <1>6, <1>7

\* A device goes on with what it may hold.
LEMMA WaitQuiet ==
    ASSUME SetInv, GoalInv, NEW d \in Devices, NEW r, Wait(d, r),
           r.pc \in {"rest", "select", "activate"} \/ HoldOK(r),
           UNCHANGED <<sets, weekly, history, gaps, pool, day, moves, scores, flag, goals>>
    PROVE  SetInv'
<1>1. device'[d] = r /\ \A e \in Devices \ {d} : device'[e] = device[e]
  BY WaitFacts DEF GoalInv
<1>2. SetsOK'
  BY DEF SetInv, SetsOK
<1>3. SetsGrow
  BY DEF SetsGrow
<1>4. Picks \subseteq Picks' /\ WeekResults \subseteq WeekResults'
  BY <1>2, <1>3, PicksKept, WeeksKept DEF SetInv
<1>5. device'[d].pc \in {"rest", "select", "activate"} \/ HoldOK(device[d])'
  <2>1. CASE HoldOK(r)
    <3>1. HoldOK(r)'
      BY <1>4, <2>1 DEF HoldOK
    <3> QED BY <1>1, <3>1 DEF HoldOK
  <2> QED BY <1>1, <2>1
<1>6. \A e \in Devices : device'[e] = device[e] \/ device'[e].pc \in {"rest", "select", "activate"} \/ HoldOK(device[e])'
  BY <1>1, <1>5
<1> QED BY <1>6, SetQuiet DEF SetInv

\* Asking for the set of today keeps the invariant of the sets.
LEMMA GetTodayStep ==
    ASSUME SetInv, GoalInv, NEW d \in Devices, GetTodayPractice(d)
    PROVE  SetInv'
<1>1. Active # {} /\ Wait(d, [pc |-> "generate", goal |-> activeGoal, date |-> day])
      /\ UNCHANGED <<sets, weekly, history, gaps, pool, day, moves, scores, flag, goals>>
  BY DEF GetTodayPractice
<1>2. PICK r : r = [pc |-> "generate", goal |-> activeGoal, date |-> day]
  OBVIOUS
<1>3. r.goal \in DOMAIN goals /\ r.date \in Nat /\ r.pc = "generate"
  BY <1>1, <1>2, ActiveGoalThere DEF GoalInv, GoalsOK, SetInv
<1>4. HoldOK(r)
  BY <1>3 DEF HoldOK
<1> QED BY <1>1, <1>2, <1>4, WaitQuiet

\* The choice of a daily set keeps the invariant of the sets.
LEMMA ChooseStep ==
    ASSUME SetInv, GoalInv, NEW d \in Devices, ChooseDailySet(d)
    PROVE  SetInv'
<1>1. PICK edge, weak, picked :
         /\ edge \in BOOLEAN /\ picked \in SelectForDaily(DailyTotal, GetRecentlySeenIDs(edge), SubjectsFor(device[d].goal), weak)
         /\ Wait(d, [pc |-> "insert", goal |-> device[d].goal, date |-> device[d].date, picked |-> picked,
                     focus |-> {Topic[q] : q \in picked} \cap {g.topic : g \in WeakRows}, before |-> Len(sets)])
  BY DEF ChooseDailySet
<1>2. device[d].pc = "generate"
      /\ UNCHANGED <<sets, weekly, history, gaps, pool, day, moves, scores, flag, goals>>
  BY DEF ChooseDailySet
<1>3. PICK r : r = [pc |-> "insert", goal |-> device[d].goal, date |-> device[d].date, picked |-> picked,
                    focus |-> {Topic[q] : q \in picked} \cap {g.topic : g \in WeakRows}, before |-> Len(sets)]
  OBVIOUS
<1>4. picked \subseteq pool /\ picked \cap GetRecentlySeenIDs(edge) = {} /\ Cardinality(picked) <= DailyTotal
  <2>1. IsFiniteSet(pool) /\ DailyTotal \in Nat
    BY PracticeAssumption, FS_Subset DEF SetInv
  <2> QED BY <1>1, <2>1, SelectSound
<1>5. picked \subseteq Questions
  BY <1>4 DEF SetInv
<1>6. r.focus \subseteq STRING
  BY <1>3, <1>5, PracticeAssumption
<1>7. Len(sets) \in Nat /\ DOMAIN sets = 1 .. Len(sets)
  BY SetsAre DEF SetInv
<1>8. \A i \in 1 .. Len(sets) : day - sets[i].created < SeenDays => sets[i].questions \cap picked = {}
  BY <1>4, <1>7 DEF GetRecentlySeenIDs
<1>9. [picked |-> r.picked, focus |-> r.focus, before |-> r.before] \in Picks
  BY <1>3, <1>4, <1>5, <1>6, <1>7, <1>8 DEF Picks
<1>10. device[d].goal \in DOMAIN goals /\ device[d].date \in Nat
  BY <1>2 DEF SetInv, HoldsOK, HoldOK
<1>11. HoldOK(r)
  <2>1. r.pc = "insert" /\ r.goal \in DOMAIN goals /\ r.date \in Nat
    BY <1>3, <1>10
  <2> QED BY <1>9, <2>1 DEF HoldOK
<1> QED BY <1>1, <1>2, <1>3, <1>11, WaitQuiet

\* The sets that the weekly choice can return are questions that exist.
LEMMA WeeklyChoice ==
    ASSUME pool \subseteq Questions, NEW subjects, NEW weak, NEW picked \in SelectForWeekly(subjects, weak)
    PROVE  picked \subseteq Questions
<1>1. PICK r \in reviews : picked \in IF Cardinality(r) >= WeeklyTotal THEN AnyOf(r, WeeklyTotal)
           ELSE {r \cup fill : fill \in SelectForDaily(WeeklyTotal - Cardinality(r), r, subjects, weak)}
  BY DEF SelectForWeekly
<1>2. r \subseteq pool /\ IsFiniteSet(pool) /\ Cardinality(r) \in Nat
  <2>1. r \subseteq pool
    BY <1>1 DEF reviews, AnyOf, kSubset
  <2> QED BY <2>1, PracticeAssumption, FS_Subset, FS_CardinalityType
<1>3. CASE Cardinality(r) >= WeeklyTotal
  BY <1>1, <1>2, <1>3 DEF AnyOf, kSubset
<1>4. CASE ~(Cardinality(r) >= WeeklyTotal)
  <2>1. PICK fill \in SelectForDaily(WeeklyTotal - Cardinality(r), r, subjects, weak) : picked = r \cup fill
    BY <1>1, <1>4
  <2>2. WeeklyTotal - Cardinality(r) \in Nat
    BY <1>2, <1>4, PracticeAssumption
  <2>3. fill \subseteq pool
    BY <1>2, <2>1, <2>2, SelectSound
  <2> QED BY <1>2, <2>1, <2>3
<1> QED BY <1>3, <1>4

\* The look for the set of a week, and its choice, keep the invariant of the sets.
LEMMA ReadWeekStep ==
    ASSUME SetInv, GoalInv, NEW d \in Devices, ReadWeek(d)
    PROVE  SetInv'
<1>1. PICK g, week : g = device[d].goal /\ week = weekBounds(day)
  OBVIOUS
<1>2. PICK r : /\ Wait(d, r)
               /\ \/ r = [pc |-> "progress", goal |-> g, week |-> week]
                  \/ \E weak, picked : /\ picked \in SelectForWeekly(SubjectsFor(g), weak)
                                       /\ r = [pc |-> "insertWeek", goal |-> g, week |-> week, picked |-> picked]
  BY <1>1 DEF ReadWeek
<1>3. g \in DOMAIN goals /\ week \in Nat
  <2>1. device[d].pc = "week"
    BY DEF ReadWeek
  <2>2. \A a \in Nat, b \in Nat \ {0} : a \div b \in Nat
    OBVIOUS
  <2> QED BY <1>1, <2>1, <2>2, PracticeAssumption DEF SetInv, HoldsOK, HoldOK, weekBounds
<1>4. HoldOK(r)
  <2>1. CASE r = [pc |-> "progress", goal |-> g, week |-> week]
    BY <1>3, <2>1 DEF HoldOK
  <2>2. ASSUME NEW weak, NEW picked \in SelectForWeekly(SubjectsFor(g), weak),
               r = [pc |-> "insertWeek", goal |-> g, week |-> week, picked |-> picked]
        PROVE  HoldOK(r)
    <3>1. picked \subseteq Questions
      BY WeeklyChoice DEF SetInv
    <3> QED BY <1>3, <2>2, <3>1 DEF HoldOK
  <2> QED BY <1>2, <2>1, <2>2
<1>5. UNCHANGED <<sets, weekly, history, gaps, pool, day, moves, scores, flag, goals>>
  BY DEF ReadWeek
<1> QED BY <1>2, <1>4, <1>5, WaitQuiet

\* A week of which every day has a completed set has a score.
LEMMA FullWeek ==
    ASSUME SetsOK, NEW g \in Nat, NEW week \in Nat,
           ~(Cardinality({sets[i].date : i \in DoneIn(g, week)}) < WeekDays)
    PROVE  [goal |-> g, week |-> week, score |-> WeekMean(DoneIn(g, week))] \in WeekResults
<1>1. PICK dates : dates = {sets[i].date : i \in DoneIn(g, week)}
  OBVIOUS
<1>2. dates \subseteq DaysIn(week)
  BY <1>1, SetsAre DEF DoneIn, DaysIn
<1>3. IsFiniteSet(DaysIn(week)) /\ Cardinality(DaysIn(week)) = WeekDays /\ WeekDays \in Nat \ {0}
  BY DaysOfWeek, PracticeAssumption
<1>4. dates = DaysIn(week)
  <2>1. Cardinality(dates) <= Cardinality(DaysIn(week)) /\ Cardinality(dates) \in Nat
    BY <1>2, <1>3, FS_Subset, FS_CardinalityType
  <2>2. Cardinality(dates) = Cardinality(DaysIn(week))
    BY <1>1, <1>3, <2>1
  <2> QED BY <1>2, <1>3, <2>2, FS_Subset
<1>5. IsFiniteSet(DoneIn(g, week)) /\ DoneIn(g, week) # {}
  <2>1. DoneIn(g, week) \subseteq 1 .. Len(sets) /\ Len(sets) \in Nat
    BY SetsAre DEF DoneIn
  <2>2. IsFiniteSet(1 .. Len(sets))
    BY <2>1, UptoFinite
  <2>3. IsFiniteSet(DoneIn(g, week))
    BY <2>1, <2>2, FS_Subset
  <2>4. dates # {}
    BY <1>3, <1>4, FS_EmptySet
  <2> QED BY <1>1, <2>3, <2>4
<1>6. [i \in DoneIn(g, week) |-> sets[i].score] \in [DoneIn(g, week) -> 0..1000]
  BY DEF SetsOK, SetType, DoneIn
<1>7. WeekMean(DoneIn(g, week)) \in 0..1000
  <2>1. PICK S, f : S = DoneIn(g, week) /\ f = [i \in DoneIn(g, week) |-> sets[i].score]
    OBVIOUS
  <2>2. MeanOf(f) \in 0..1000
    BY <1>5, <1>6, <2>1, MeanInRange
  <2> QED BY <2>1, <2>2, Zenon DEF WeekMean
<1>8. PICK score \in 0..1000 : score = WeekMean(DoneIn(g, week))
  BY <1>7
<1>9. [goal |-> g, week |-> week, score |-> score] \in WeekResults
  BY <1>1, <1>4, <1>8 DEF WeekResults
<1> QED BY <1>8, <1>9

\* The progress of a week keeps the invariant of the sets.
LEMMA ProgressStep ==
    ASSUME SetInv, GoalInv, NEW d \in Devices, weekProgress(d)
    PROVE  SetInv'
<1>1. PICK g, week : g = device[d].goal /\ week = device[d].week
  OBVIOUS
<1>2. g \in DOMAIN goals /\ week \in Nat /\ g \in Nat
  <2>1. device[d].pc = "progress"
    BY DEF weekProgress
  <2> QED BY <1>1, <2>1 DEF SetInv, HoldsOK, HoldOK
<1>3. PICK r : /\ Wait(d, r)
               /\ \/ r = AtRestNow
                  \/ /\ ~(Cardinality({sets[i].date : i \in DoneIn(g, week)}) < WeekDays)
                     /\ r = [pc |-> "append", goal |-> g, week |-> week, score |-> WeekMean(DoneIn(g, week))]
  <2>1. CASE Cardinality({sets[i].date : i \in DoneIn(g, week)}) < WeekDays
    <3>1. Answered(d)
      BY <1>1, <2>1 DEF weekProgress
    <3> QED BY <3>1 DEF Answered, Wait
  <2>2. CASE ~(Cardinality({sets[i].date : i \in DoneIn(g, week)}) < WeekDays)
    BY <1>1, <2>2 DEF weekProgress
  <2> QED BY <2>1, <2>2
<1>4. r.pc = "rest" \/ HoldOK(r)
  <2>1. CASE r = AtRestNow
    BY <2>1 DEF AtRestNow
  <2>2. CASE /\ ~(Cardinality({sets[i].date : i \in DoneIn(g, week)}) < WeekDays)
             /\ r = [pc |-> "append", goal |-> g, week |-> week, score |-> WeekMean(DoneIn(g, week))]
    <3>1. [goal |-> g, week |-> week, score |-> WeekMean(DoneIn(g, week))] \in WeekResults
      BY <1>2, <2>2, FullWeek DEF SetInv
    <3>2. r.pc = "append" /\ r.goal = g /\ r.week = week /\ r.score = WeekMean(DoneIn(g, week))
      BY <2>2
    <3> QED BY <1>2, <3>1, <3>2 DEF HoldOK
  <2> QED BY <1>3, <2>1, <2>2
<1>5. UNCHANGED <<sets, weekly, history, gaps, pool, day, moves, scores, flag, goals>>
  BY DEF weekProgress
<1> QED BY <1>3, <1>4, <1>5, WaitQuiet

\* Goals keep their places.
LEMMA GoalsGrow ==
    ASSUME GoalInv, NEW d \in Devices, AbandonGoal(d) \/ SelectGoal(d)
    PROVE  DOMAIN goals \subseteq DOMAIN goals'
<1>1. CASE AbandonGoal(d)
  <2>1. DOMAIN Abandoned(Active) = DOMAIN goals
    BY AbandonedFacts DEF GoalInv
  <2> QED BY <1>1, <2>1 DEF AbandonGoal
<1>2. CASE SelectGoal(d)
  <2>1. PICK list, g : list = Abandoned(device[d].seen) /\ g = device[d].goal
    OBVIOUS
  <2>2. /\ IsSeq(list) /\ DOMAIN list = DOMAIN goals
    BY <2>1, AbandonedFacts DEF GoalInv
  <2>3. DOMAIN list \subseteq DOMAIN Activated(list, g)
    <3>1. CASE \E i \in DOMAIN list : list[i].goal = g
      BY <3>1 DEF Activated
    <3>2. CASE ~\E i \in DOMAIN list : list[i].goal = g
      BY <2>2, <3>2, SeqApp, SeqIs DEF Activated
    <3> QED BY <3>1, <3>2
  <2> QED BY <1>2, <2>1, <2>2, <2>3 DEF SelectGoal
<1> QED BY <1>1, <1>2

\* The steps of selecting a goal, and failures, hold nothing of the sets.
LEMMA GoalKeepsSets ==
    ASSUME SetInv, GoalInv, GoalInv', NEW d \in Devices,
           \/ \E g \in Goals : HandleSelectGoal(d, g)
           \/ AbandonActive(d) \/ SelectGoal(d) \/ AbandonGoal(d) \/ PracticeFails(d)
    PROVE  SetInv'
<1>1. UNCHANGED <<sets, weekly, history, gaps, pool, day, moves, scores, flag>>
  BY DEF HandleSelectGoal, AbandonActive, SelectGoal, AbandonGoal, PracticeFails
<1>2. DOMAIN goals \subseteq DOMAIN goals'
  BY GoalsGrow DEF HandleSelectGoal, AbandonActive, PracticeFails
<1>3. DOMAIN goals' \subseteq Nat
  <2>1. PICK new : new = goals'
    OBVIOUS
  <2>2. IsSeq(new)
    BY <2>1 DEF GoalInv, GoalsOK, IsSeq, Elements
  <2>3. DOMAIN new = 1 .. Len(new) /\ Len(new) \in Nat
    BY <2>2, SeqIs
  <2> QED BY <2>1, <2>3
<1>4. \A e \in Devices : device'[e] = device[e] \/ device'[e].pc \in {"rest", "select", "activate"}
  <2>1. CASE SelectGoal(d)
    <3>1. device' = [e \in Devices |->
          IF e = d THEN AtRestNow
          ELSE IF device[e].pc = "activate" THEN [device[e] EXCEPT !.alone = FALSE] ELSE device[e]]
      BY <2>1 DEF SelectGoal
    <3>2. device'[d].pc = "rest"
      BY <3>1 DEF AtRestNow
    <3>3. ASSUME NEW e \in Devices \ {d}, device[e].pc = "activate"
          PROVE  device'[e].pc = "activate"
      <4>1. device'[e] = [device[e] EXCEPT !.alone = FALSE]
        BY <3>1, <3>3
      <4> QED BY <3>3, <4>1
    <3>4. \A e \in Devices \ {d} : device[e].pc # "activate" => device'[e] = device[e]
      BY <3>1
    <3> QED BY <3>2, <3>3, <3>4
  <2>2. CASE AbandonGoal(d)
    BY <2>2 DEF AbandonGoal
  <2>3. CASE (\E g \in Goals : HandleSelectGoal(d, g)) \/ AbandonActive(d) \/ PracticeFails(d)
    <3>1. PICK r : Wait(d, r) /\ r.pc \in {"rest", "select", "activate"}
      <4>1. ASSUME NEW g \in Goals, HandleSelectGoal(d, g)
            PROVE  \E r : Wait(d, r) /\ r.pc \in {"rest", "select", "activate"}
        <5>1. PICK r : r = [pc |-> "select", goal |-> g]
          OBVIOUS
        <5>2. Wait(d, r) /\ r.pc = "select"
          BY <4>1, <5>1 DEF HandleSelectGoal
        <5> QED BY <5>2
      <4>2. CASE AbandonActive(d)
        <5>1. PICK r : r = [pc |-> "activate", goal |-> device[d].goal, seen |-> Active, alone |-> TRUE]
          OBVIOUS
        <5>2. Wait(d, r) /\ r.pc = "activate"
          BY <4>2, <5>1 DEF AbandonActive
        <5> QED BY <5>2
      <4>3. CASE PracticeFails(d)
        <5>1. Wait(d, AtRestNow) /\ AtRestNow.pc = "rest"
          BY <4>3 DEF PracticeFails, Answered, Wait, AtRestNow
        <5> QED BY <5>1
      <4> QED BY <2>3, <4>1, <4>2, <4>3
    <3>2. device'[d] = r /\ \A e \in Devices \ {d} : device'[e] = device[e]
      BY <3>1, WaitFacts DEF GoalInv
    <3> QED BY <3>1, <3>2
  <2> QED BY <2>1, <2>2, <2>3
<1> QED BY <1>1, <1>2, <1>3, <1>4, SetQuiet DEF SetInv

\* The flag of an administrator keeps the invariant of the sets.
LEMMA AdminStep ==
    ASSUME SetInv, NEW enabled \in BOOLEAN, NEW rollout \in {Bucket, Bucket + 1}, AdminSetFlag(enabled, rollout)
    PROVE  SetInv'
<1>1. UNCHANGED <<sets, weekly, history, gaps, pool, day, moves, scores, goals, device>>
      /\ flag' = [enabled |-> enabled, rollout |-> rollout]
  BY DEF AdminSetFlag
<1>2. rollout \in 0..100
  BY PracticeAssumption
<1> QED BY <1>1, <1>2, SetQuiet DEF SetInv

\* The transaction that inserts a set.
LEMMA DailyStep ==
    ASSUME SetInv, GoalInv, NEW d \in Devices, generateDailySet(d)
    PROVE  SetInv'
<1>1. PICK r : r = device[d]
  OBVIOUS
<1>2. r.pc = "insert" /\ HoldOK(r)
  BY <1>1 DEF generateDailySet, SetInv, HoldsOK
<1>3. /\ UNCHANGED <<flag, goals, weekly, history, gaps, pool, day, moves>>
      /\ Wait(d, AtRestNow)
  BY DEF generateDailySet, Answered, Wait
<1>4. device'[d].pc = "rest" /\ \A e \in Devices \ {d} : device'[e] = device[e]
  BY <1>3, WaitFacts DEF GoalInv, AtRestNow
<1>5. CASE UNCHANGED <<sets, scores>>
  BY <1>3, <1>4, <1>5, SetQuiet DEF SetInv
<1>6. CASE /\ Daily(r.goal, r.date) = {} /\ r.picked \subseteq pool
           /\ sets' = Append(sets, [goal |-> r.goal, date |-> r.date, created |-> day, status |-> "pending",
                                    score |-> 0, questions |-> r.picked, focus |-> r.focus,
                                    before |-> r.before])
           /\ scores' = Append(scores, {})
  <2> DEFINE n == Len(sets) + 1
  <2>1. PICK rec : /\ rec = [goal |-> r.goal, date |-> r.date, created |-> day, status |-> "pending",
                             score |-> 0, questions |-> r.picked, focus |-> r.focus, before |-> r.before]
                   /\ sets' = Append(sets, rec)
    BY <1>6
  <2>2. /\ IsSeq(sets) /\ Len(sets) \in Nat /\ DOMAIN sets = 1 .. Len(sets)
        /\ IsSeq(scores) /\ Len(scores) = Len(sets) /\ DOMAIN scores = 1 .. Len(sets)
        /\ \A i \in DOMAIN sets : sets[i].date \in Nat /\ sets[i].created \in Nat /\ sets[i].before < i
                                    /\ sets[i].before \in Nat
    BY SetsAre, SeqIs DEF SetInv, SetsOK, ScoresOK, SetType
  <2>3. /\ IsSeq(sets') /\ Len(sets') = n /\ DOMAIN sets' = 1..n
        /\ \A i \in DOMAIN sets : sets'[i] = sets[i]
        /\ sets'[n] = rec
    BY <2>1, <2>2, SeqApp
  <2>4. /\ IsSeq(scores') /\ Len(scores') = n
        /\ \A i \in DOMAIN sets : scores'[i] = scores[i]
        /\ scores'[n] = {}
    BY <1>6, <2>2, SeqApp
  <2>5. DOMAIN sets' = DOMAIN sets \cup {n} /\ n \notin DOMAIN sets
    BY <2>2, <2>3
  <2>6. [picked |-> r.picked, focus |-> r.focus, before |-> r.before] \in Picks
        /\ r.goal \in DOMAIN goals /\ r.date \in Nat
    BY <1>2 DEF HoldOK
  <2>7. /\ rec \in SetType /\ rec.goal \in DOMAIN goals /\ rec.questions \subseteq pool
        /\ rec.before < n /\ Cardinality(rec.questions) <= DailyTotal /\ rec.status = "pending"
        /\ \A i \in 1 .. rec.before : day - sets[i].created < SeenDays => sets[i].questions \cap rec.questions = {}
        /\ rec.created = day /\ rec.before \in 0 .. Len(sets)
    <3>1. /\ r.picked \in SUBSET Questions /\ r.focus \in SUBSET STRING /\ r.before \in Nat
          /\ Cardinality(r.picked) <= DailyTotal /\ r.before <= Len(sets)
          /\ \A i \in 1 .. r.before : day - sets[i].created < SeenDays => sets[i].questions \cap r.picked = {}
      BY <2>6 DEF Picks
    <3>2. r.goal \in Nat /\ day \in Nat
      BY <2>6 DEF SetInv
    <3> QED BY <1>6, <2>1, <2>2, <2>6, <3>1, <3>2 DEF SetType
  <2>8. \A i \in DOMAIN sets : ~(sets[i].goal = rec.goal /\ sets[i].date = rec.date)
    BY <1>6, <2>1 DEF Daily
  <2> HIDE DEF n
  <2>9. SetsOK'
    <3>1. \A i \in DOMAIN sets' :
             /\ sets'[i] \in SetType /\ sets'[i].goal \in DOMAIN goals' /\ sets'[i].questions \subseteq pool'
             /\ sets'[i].before < i /\ Cardinality(sets'[i].questions) <= DailyTotal
      BY <1>3, <2>3, <2>5, <2>7 DEF SetInv, SetsOK
    <3>2. \A i, j \in DOMAIN sets' :
             sets'[i].goal = sets'[j].goal /\ sets'[i].date = sets'[j].date => i = j
      BY <2>3, <2>5, <2>8 DEF SetInv, SetsOK
    <3>3. ASSUME NEW j \in DOMAIN sets', NEW i \in 1 .. sets'[j].before,
                 sets'[j].created - sets'[i].created < SeenDays
          PROVE  sets'[i].questions \cap sets'[j].questions = {}
      <4>1. CASE j = n
        <5>1. i \in DOMAIN sets
          BY <2>2, <2>3, <2>7, <4>1
        <5> QED BY <2>3, <2>7, <3>3, <4>1, <5>1
      <4>2. CASE j \in DOMAIN sets
        <5>1. i \in DOMAIN sets
          BY <2>2, <2>3, <4>2
        <5> QED BY <2>3, <3>3, <4>2, <5>1 DEF SetInv, SetsOK
      <4> QED BY <2>5, <4>1, <4>2
    <3> QED BY <2>3, <3>1, <3>2, <3>3 DEF SetsOK
  <2>10. SetsGrow
    BY <2>3, <2>5 DEF SetsGrow
  <2>11. Picks \subseteq Picks' /\ WeekResults \subseteq WeekResults'
    BY <1>3, <2>9, <2>10, PicksKept, WeeksKept DEF SetInv
  <2>12. HoldsOK'
    <3>1. \A e \in Devices : device'[e] = device[e] \/ device'[e].pc \in {"rest", "select", "activate"}
      BY <1>4
    <3> QED BY <1>3, <2>11, <3>1, HoldsKept
  <2>13. Done' = Done
    BY <2>3, <2>5, <2>7 DEF Done
  <2>14. MovesOK' /\ WeeklyOK' /\ GapsOK'
    BY <1>3, <2>13 DEF SetInv, MovesOK, WeeklyOK, GapsOK
  <2>15. ScoresOK'
    BY <2>3, <2>4, <2>5, <2>13 DEF SetInv, ScoresOK
  <2>16. HistoryOK'
    BY <1>3, <2>11 DEF SetInv, HistoryOK
  <2> QED BY <1>3, <2>9, <2>12, <2>14, <2>15, <2>16 DEF SetInv
<1> QED BY <1>1, <1>5, <1>6 DEF generateDailySet

\* The weekly score is appended.
LEMMA AppendStep ==
    ASSUME SetInv, GoalInv, NEW d \in Devices, appendWeeklyScore(d)
    PROVE  SetInv'
<1>1. PICK x : x = [goal |-> device[d].goal, week |-> device[d].week, score |-> device[d].score]
  OBVIOUS
<1>2. /\ UNCHANGED <<flag, goals, sets, weekly, gaps, pool, day, moves, scores>>
      /\ Wait(d, AtRestNow) /\ device[d].pc = "append"
      /\ history' = IF \E h \in history : h.goal = x.goal /\ h.week = x.week THEN history ELSE history \cup {x}
  BY <1>1 DEF appendWeeklyScore, Answered, Wait
<1>3. device'[d].pc = "rest" /\ \A e \in Devices \ {d} : device'[e] = device[e]
  BY <1>2, WaitFacts DEF GoalInv, AtRestNow
<1>4. x \in WeekResults
  BY <1>1, <1>2 DEF SetInv, HoldsOK, HoldOK
<1>5. SetsOK' /\ SetsGrow /\ Picks \subseteq Picks' /\ WeekResults \subseteq WeekResults'
  <2>1. SetsOK' /\ SetsGrow
    BY <1>2 DEF SetInv, SetsOK, SetsGrow
  <2> QED BY <1>2, <2>1, PicksKept, WeeksKept DEF SetInv
<1>6. HoldsOK'
  <2>1. \A e \in Devices : device'[e] = device[e] \/ device'[e].pc \in {"rest", "select", "activate"}
    BY <1>3
  <2> QED BY <1>2, <1>5, <2>1, HoldsKept
<1>7. WeeklyOK' /\ MovesOK' /\ ScoresOK' /\ GapsOK'
  BY <1>2 DEF SetInv, WeeklyOK, MovesOK, ScoresOK, GapsOK, Done
<1>8. HistoryOK'
  <2>1. CASE \E h \in history : h.goal = x.goal /\ h.week = x.week
    BY <1>2, <1>5, <2>1 DEF SetInv, HistoryOK
  <2>2. CASE ~\E h \in history : h.goal = x.goal /\ h.week = x.week
    <3>1. history' = history \cup {x}
      BY <1>2, <2>2
    <3>2. history' \subseteq WeekResults'
      BY <1>4, <1>5, <3>1 DEF SetInv, HistoryOK
    <3>3. \A h, k \in history' : h.goal = k.goal /\ h.week = k.week => h = k
      BY <2>2, <3>1 DEF SetInv, HistoryOK
    <3> QED BY <3>2, <3>3 DEF HistoryOK
  <2> QED BY <2>1, <2>2
<1> QED BY <1>2, <1>5, <1>6, <1>7, <1>8 DEF SetInv

\* The transaction that inserts the set of a week.
LEMMA WeeklyStep ==
    ASSUME SetInv, GoalInv, NEW d \in Devices, ensureWeeklySet(d)
    PROVE  SetInv'
<1>1. PICK g, week, picked : g = device[d].goal /\ week = device[d].week /\ picked = device[d].picked
  OBVIOUS
<1>2. /\ UNCHANGED <<flag, goals, sets, history, gaps, pool, day, moves, scores>>
      /\ device[d].pc = "insertWeek"
  BY DEF ensureWeeklySet
<1>3. g \in DOMAIN goals /\ g \in Nat /\ week \in Nat /\ picked \subseteq Questions
  BY <1>1, <1>2 DEF SetInv, HoldsOK, HoldOK
<1>4. PICK r : /\ Wait(d, r)
               /\ r = AtRestNow \/ r = [pc |-> "progress", goal |-> g, week |-> week]
               /\ \/ UNCHANGED weekly
                  \/ /\ picked \subseteq pool
                     /\ weekly' = weekly \cup {[goal |-> g, week |-> week, questions |-> picked]}
  <2>1. CASE Answered(d)
    <3>1. UNCHANGED weekly \/ /\ picked \subseteq pool
                              /\ weekly' = weekly \cup {[goal |-> g, week |-> week, questions |-> picked]}
      BY <1>1 DEF ensureWeeklySet
    <3> QED BY <2>1, <3>1 DEF Answered, Wait
  <2>2. CASE Wait(d, [pc |-> "progress", goal |-> g, week |-> week])
    <3>1. UNCHANGED weekly \/ /\ picked \subseteq pool
                              /\ weekly' = weekly \cup {[goal |-> g, week |-> week, questions |-> picked]}
      BY <1>1 DEF ensureWeeklySet
    <3>2. PICK r : r = [pc |-> "progress", goal |-> g, week |-> week]
      OBVIOUS
    <3>3. Wait(d, r)
      BY <2>2, <3>2
    <3> QED BY <3>1, <3>2, <3>3
  <2>3. Answered(d) \/ Wait(d, [pc |-> "progress", goal |-> g, week |-> week])
    BY <1>1 DEF ensureWeeklySet
  <2> QED BY <2>1, <2>2, <2>3
<1>5. device'[d] = r /\ \A e \in Devices \ {d} : device'[e] = device[e]
  BY <1>4, WaitFacts DEF GoalInv
<1>6. r.pc = "rest" \/ HoldOK(r)
  BY <1>3, <1>4 DEF HoldOK, AtRestNow
<1>7. SetsOK' /\ SetsGrow /\ Picks \subseteq Picks' /\ WeekResults \subseteq WeekResults'
  <2>1. SetsOK' /\ SetsGrow
    BY <1>2 DEF SetInv, SetsOK, SetsGrow
  <2> QED BY <1>2, <2>1, PicksKept, WeeksKept DEF SetInv
<1>8. HoldsOK'
  <2>1. device'[d].pc \in {"rest", "select", "activate"} \/ HoldOK(device[d])'
    <3>1. CASE HoldOK(r)
      <4>1. HoldOK(r)'
        BY <1>2, <1>7, <3>1 DEF HoldOK
      <4> QED BY <1>5, <4>1 DEF HoldOK
    <3> QED BY <1>5, <1>6, <3>1
  <2>2. \A e \in Devices : device'[e] = device[e] \/ device'[e].pc \in {"rest", "select", "activate"} \/ HoldOK(device[e])'
    BY <1>5, <2>1
  <2> QED BY <1>2, <1>7, <2>2, HoldsKept
<1>9. MovesOK' /\ ScoresOK' /\ GapsOK'
  BY <1>2 DEF SetInv, MovesOK, ScoresOK, GapsOK, Done
<1>10. HistoryOK'
  BY <1>2, <1>7 DEF SetInv, HistoryOK
<1>11. WeeklyOK'
  <2>1. CASE UNCHANGED weekly
    BY <1>2, <2>1 DEF SetInv, WeeklyOK
  <2>2. CASE /\ picked \subseteq pool
             /\ weekly' = weekly \cup {[goal |-> g, week |-> week, questions |-> picked]}
    BY <1>2, <1>3, <2>2 DEF SetInv, WeeklyOK
  <2> QED BY <1>4, <2>1, <2>2
<1> QED BY <1>2, <1>7, <1>8, <1>9, <1>10, <1>11 DEF SetInv

\* The day passes.
LEMMA NextDayStep ==
    ASSUME SetInv, NextDay
    PROVE  SetInv'
<1>1. UNCHANGED <<flag, goals, sets, weekly, history, gaps, pool, device, moves, scores>> /\ day' = day + 1
  BY DEF NextDay
<1>2. day' \in Nat /\ day <= day'
  BY <1>1 DEF SetInv
<1>3. SetsOK' /\ SetsGrow /\ Picks \subseteq Picks' /\ WeekResults \subseteq WeekResults'
  <2>1. SetsOK' /\ SetsGrow
    BY <1>1 DEF SetInv, SetsOK, SetsGrow
  <2> QED BY <1>2, <2>1, PicksKept, WeeksKept DEF SetInv
<1>4. HoldsOK'
  <2>1. \A e \in Devices : device'[e] = device[e]
    BY <1>1
  <2> QED BY <1>1, <1>3, <2>1, HoldsKept
<1>5. WeeklyOK' /\ MovesOK' /\ ScoresOK' /\ GapsOK' /\ HistoryOK'
  BY <1>1, <1>3 DEF SetInv, WeeklyOK, MovesOK, ScoresOK, GapsOK, Done, HistoryOK
<1> QED BY <1>1, <1>2, <1>3, <1>4, <1>5 DEF SetInv

\* A draft is replaced: its questions leave every set.
LEMMA DraftStep ==
    ASSUME SetInv, DraftReplaced
    PROVE  SetInv'
<1>1. UNCHANGED <<flag, goals, history, gaps, device, day, moves, scores>> /\ pool' = pool \ Drafted
  BY DEF DraftReplaced
<1>2. Len(sets) \in Nat /\ DOMAIN sets = 1 .. Len(sets) /\ \A i \in DOMAIN sets : sets[i] \in SetType
  BY SetsAre DEF SetInv, SetsOK
<1>3. sets' = [i \in DOMAIN sets |-> [sets[i] EXCEPT !.questions = @ \ Drafted]]
  BY DEF DraftReplaced
<1>4. DOMAIN sets' = DOMAIN sets /\ \A i \in DOMAIN sets : sets'[i] = [sets[i] EXCEPT !.questions = @ \ Drafted]
  BY <1>3
<1>5. \A i \in DOMAIN sets :
        /\ sets'[i] \in SetType /\ sets'[i].questions = sets[i].questions \ Drafted
        /\ sets'[i].goal = sets[i].goal /\ sets'[i].date = sets[i].date /\ sets'[i].created = sets[i].created
        /\ sets'[i].status = sets[i].status /\ sets'[i].score = sets[i].score /\ sets'[i].before = sets[i].before
  <2>1. ASSUME NEW x \in SetType, NEW y, y = [x EXCEPT !.questions = @ \ Drafted]
        PROVE  /\ y \in SetType /\ y.questions = x.questions \ Drafted
               /\ y.goal = x.goal /\ y.date = x.date /\ y.created = x.created
               /\ y.status = x.status /\ y.score = x.score /\ y.before = x.before
    BY <2>1 DEF SetType
  <2> QED BY <1>2, <1>4, <2>1
<1>6. IsSeq(sets') /\ Len(sets') = Len(sets)
  <2>1. sets' \in [1 .. Len(sets) -> SetType]
    <3> DEFINE new == sets'
    <3>1. new = [i \in 1 .. Len(sets) |-> [sets[i] EXCEPT !.questions = @ \ Drafted]]
      BY <1>2, <1>3
    <3>2. \A i \in 1 .. Len(sets) : new[i] \in SetType
      BY <1>2, <1>5
    <3> HIDE DEF new
    <3>3. new \in [1 .. Len(sets) -> SetType]
      BY <3>1, <3>2
    <3> QED BY <3>3 DEF new
  <2> QED BY <1>2, <2>1, SeqFrom
<1>7. \A i \in DOMAIN sets : Cardinality(sets'[i].questions) <= DailyTotal
  <2> SUFFICES ASSUME NEW i \in DOMAIN sets
               PROVE  Cardinality(sets'[i].questions) <= DailyTotal
    OBVIOUS
  <2>1. PICK S, T : S = sets[i].questions /\ T = sets'[i].questions
    OBVIOUS
  <2>2. IsFiniteSet(S) /\ Cardinality(S) <= DailyTotal /\ T \subseteq S
    BY <1>2, <1>5, <2>1, PracticeAssumption, FS_Subset DEF SetInv, SetsOK, SetType
  <2>3. Cardinality(T) <= Cardinality(S) /\ Cardinality(T) \in Nat /\ Cardinality(S) \in Nat
    BY <2>2, FS_Subset, FS_CardinalityType
  <2> QED BY <2>1, <2>2, <2>3, PracticeAssumption
<1>8. SetsOK'
  <2>1. \A i \in DOMAIN sets' :
           /\ sets'[i] \in SetType /\ sets'[i].goal \in DOMAIN goals' /\ sets'[i].questions \subseteq pool'
           /\ sets'[i].before < i /\ Cardinality(sets'[i].questions) <= DailyTotal
    BY <1>1, <1>4, <1>5, <1>7 DEF SetInv, SetsOK
  <2>2. \A i, j \in DOMAIN sets' :
           sets'[i].goal = sets'[j].goal /\ sets'[i].date = sets'[j].date => i = j
    BY <1>4, <1>5 DEF SetInv, SetsOK
  <2>3. ASSUME NEW j \in DOMAIN sets', NEW i \in 1 .. sets'[j].before,
               sets'[j].created - sets'[i].created < SeenDays
        PROVE  sets'[i].questions \cap sets'[j].questions = {}
    <3>1. j \in DOMAIN sets /\ i \in 1 .. sets[j].before
      BY <1>4, <1>5, <2>3
    <3>2. sets[j].before < j /\ sets[j].before \in Nat
      BY <1>2, <3>1 DEF SetInv, SetsOK, SetType
    <3>3. i \in DOMAIN sets
      BY <1>2, <3>1, <3>2
    <3>4. sets[i].questions \cap sets[j].questions = {}
      BY <1>5, <2>3, <3>1, <3>3 DEF SetInv, SetsOK
    <3> QED BY <1>5, <3>1, <3>3, <3>4
  <2> QED BY <1>6, <2>1, <2>2, <2>3 DEF SetsOK
<1>9. SetsGrow
  BY <1>4, <1>5 DEF SetsGrow
<1>10. Picks \subseteq Picks' /\ WeekResults \subseteq WeekResults'
  BY <1>1, <1>8, <1>9, PicksKept, WeeksKept DEF SetInv
<1>11. HoldsOK'
  <2>1. \A e \in Devices : device'[e] = device[e]
    BY <1>1
  <2> QED BY <1>1, <1>10, <2>1, HoldsKept
<1>12. Done' = Done
  BY <1>4, <1>5 DEF Done
<1>13. MovesOK' /\ GapsOK' /\ HistoryOK'
  BY <1>1, <1>10, <1>12 DEF SetInv, MovesOK, GapsOK, HistoryOK
<1>14. ScoresOK'
  BY <1>1, <1>4, <1>5, <1>6, <1>12 DEF SetInv, ScoresOK
<1>15. WeeklyOK'
  <2>1. weekly' = {[w EXCEPT !.questions = @ \ Drafted] : w \in weekly}
    BY DEF DraftReplaced
  <2> SUFFICES ASSUME NEW w \in weekly'
               PROVE  /\ w \in [goal : Nat, week : Nat, questions : SUBSET Questions]
                      /\ w.goal \in DOMAIN goals' /\ w.questions \subseteq pool'
    BY DEF WeeklyOK
  <2>2. PICK v \in weekly : w = [v EXCEPT !.questions = @ \ Drafted]
    BY <2>1
  <2>3. v \in [goal : Nat, week : Nat, questions : SUBSET Questions]
        /\ v.goal \in DOMAIN goals /\ v.questions \subseteq pool
    BY DEF SetInv, WeeklyOK
  <2> QED BY <1>1, <2>2, <2>3
<1> QED BY <1>1, <1>8, <1>11, <1>13, <1>14, <1>15 DEF SetInv

\* A score is between nothing and all.
LEMMA ScoreInRange ==
    ASSUME NEW total \in Nat, NEW correct \in 0 .. total
    PROVE  scorePct(correct, total) \in 0..1000
<1>1. CASE total <= 0
  BY <1>1 DEF scorePct
<1>2. CASE ~(total <= 0)
  <2>1. 2 * total \in Nat \ {0} /\ 2000 * correct + total \in Nat /\ 2000 * correct + total < 1001 * (2 * total)
    BY <1>2
  <2>2. ASSUME NEW a \in Nat, NEW b \in Nat \ {0}, a < 1001 * b
        PROVE  a \div b \in 0..1000
    BY <2>2
  <2>3. PICK a, b : a = 2000 * correct + total /\ b = 2 * total
    OBVIOUS
  <2>4. a \in Nat /\ b \in Nat \ {0} /\ a < 1001 * b
    BY <2>1, <2>3
  <2>5. a \div b \in 0..1000
    BY <2>2, <2>4
  <2>6. scorePct(correct, total) = (2000 * correct + total) \div (2 * total)
    BY <1>2 DEF scorePct
  <2> QED BY <2>3, <2>5, <2>6
<1> QED BY <1>1, <1>2

\* Questions of a set that were answered right score between nothing and all.
LEMMA PartInRange ==
    ASSUME NEW S, IsFiniteSet(S), NEW T \in SUBSET S
    PROVE  scorePct(Cardinality(T), Cardinality(S)) \in 0..1000
<1>1. PICK n, k : n = Cardinality(S) /\ k = Cardinality(T)
  OBVIOUS
<1>2. n \in Nat /\ k \in 0 .. n
  BY <1>1, FS_Subset, FS_CardinalityType
<1>3. scorePct(k, n) \in 0..1000
  BY <1>2, ScoreInRange
<1> QED BY <1>1, <1>3

\* Weakness stays between 0 and 100.
LEMMA MovedInRange ==
    ASSUME NEW weakness \in 0..100, NEW score \in Int
    PROVE  Moved(weakness, score) \in 0..100
<1>1. PICK more \in Int, less \in Int, top \in Int, zero \in Int :
        more = weakness + 10 /\ less = weakness - 15 /\ top = 100 /\ zero = 0
  OBVIOUS
<1>2. PICK up, down : up = Min({more, top}) /\ down = Max({less, zero})
  OBVIOUS
<1>3. up \in {more, top} /\ up <= more /\ up <= top /\ down \in {less, zero} /\ down >= less /\ down >= zero
  BY <1>2, TwoLeast, TwoMost
<1>4. up \in 0..100 /\ down \in 0..100
  BY <1>1, <1>3
<1>5. up = Min({weakness + 10, 100}) /\ down = Max({weakness - 15, 0})
  BY <1>1, <1>2
<1>6. Moved(weakness, score) = CASE score < 600 -> up [] score > 800 -> down [] OTHER -> weakness
  BY <1>5 DEF Moved
<1> QED BY <1>4, <1>6

\* Skill gaps stay one row for a topic and subject, of a weakness in its bounds.
LEMMA GapsMove ==
    ASSUME NEW rows \in SUBSET GapType, \A g, h \in rows : g.topic = h.topic /\ g.subject = h.subject => g = h,
           NEW result, DOMAIN result \subseteq [topic : STRING, subject : STRING],
           \A k \in DOMAIN result : result[k] \in Int
    PROVE  /\ UpdateSkillGaps(rows, result) \subseteq GapType
           /\ \A g, h \in UpdateSkillGaps(rows, result) : g.topic = h.topic /\ g.subject = h.subject => g = h
<1> DEFINE touched == {g \in rows : KeyOf(g) \in DOMAIN result}
           MovedGap(g) == [g EXCEPT !.weakness = Moved(@, result[KeyOf(g)])]
           NewGap(k) == [topic |-> k.topic, subject |-> k.subject, weakness |-> Seed(result[k])]
           fresh == DOMAIN result \ {KeyOf(g) : g \in rows}
           after == UpdateSkillGaps(rows, result)
<1>1. \A x \in after : \/ x \in rows \ touched
                       \/ \E g \in touched : x = MovedGap(g)
                       \/ \E k \in fresh : x = NewGap(k)
  BY DEF UpdateSkillGaps
<1>2. ASSUME NEW g \in touched
      PROVE  MovedGap(g) \in GapType /\ MovedGap(g).topic = g.topic /\ MovedGap(g).subject = g.subject
  <2>1. PICK w : w = Moved(g.weakness, result[KeyOf(g)])
    OBVIOUS
  <2>2. w \in 0..100
    BY <2>1, MovedInRange DEF GapType
  <2>3. MovedGap(g) = [g EXCEPT !.weakness = w]
    BY <2>1
  <2>4. g \in GapType
    OBVIOUS
  <2> HIDE DEF MovedGap
  <2> QED BY <2>2, <2>3, <2>4 DEF GapType
<1>3. ASSUME NEW k \in fresh
      PROVE  NewGap(k) \in GapType /\ NewGap(k).topic = k.topic /\ NewGap(k).subject = k.subject
             /\ \A g \in rows : ~(g.topic = k.topic /\ g.subject = k.subject)
  <2>1. k \in [topic : STRING, subject : STRING]
    OBVIOUS
  <2>2. NewGap(k) \in GapType
    BY <2>1 DEF GapType, Seed
  <2>3. ASSUME NEW g \in rows, g.topic = k.topic, g.subject = k.subject
        PROVE  FALSE
    <3>1. KeyOf(g) = k
      BY <2>1, <2>3 DEF KeyOf
    <3> QED BY <3>1
  <2> QED BY <2>2, <2>3
<1> HIDE DEF MovedGap, NewGap, after
<1>4. after \subseteq GapType
  BY <1>1, <1>2, <1>3
<1>5. ASSUME NEW g \in after, NEW h \in after, g.topic = h.topic, g.subject = h.subject
      PROVE  g = h
  <2> DEFINE From(x, y) == y \in rows /\ y.topic = x.topic /\ y.subject = x.subject /\ (y \in touched => x = MovedGap(y))
                             /\ (y \notin touched => x = y)
  <2>1. \A x \in after : (\E y : From(x, y)) \/ (\E k \in fresh : x = NewGap(k))
    BY <1>1, <1>2
  <2>2. CASE (\E y : From(g, y)) /\ (\E y : From(h, y))
    <3>1. PICK y, z : From(g, y) /\ From(h, z)
      BY <2>2
    <3>2. y = z
      BY <1>5, <3>1
    <3> QED BY <3>1, <3>2
  <2>3. CASE (\E y : From(g, y)) /\ (\E k \in fresh : h = NewGap(k))
    BY <1>3, <1>5, <2>3
  <2>4. CASE (\E k \in fresh : g = NewGap(k)) /\ (\E y : From(h, y))
    BY <1>3, <1>5, <2>4
  <2>5. CASE (\E k \in fresh : g = NewGap(k)) /\ (\E k \in fresh : h = NewGap(k))
    <3>1. PICK k \in fresh, l \in fresh : g = NewGap(k) /\ h = NewGap(l)
      BY <2>5
    <3>2. k.topic = l.topic /\ k.subject = l.subject
      BY <1>3, <1>5, <3>1
    <3>3. k = l
      <4>1. k \in [topic : STRING, subject : STRING] /\ l \in [topic : STRING, subject : STRING]
        OBVIOUS
      <4> QED BY <3>2, <4>1
    <3> QED BY <3>1, <3>3
  <2> HIDE DEF From
  <2> QED BY <2>1, <2>2, <2>3, <2>4, <2>5
<1> QED BY <1>4, <1>5 DEF after

\* The scores of the topics of a set.
LEMMA TopicScoresAre ==
    ASSUME NEW asked \in SUBSET Questions, NEW right \in SUBSET asked
    PROVE  /\ DOMAIN topicScores(asked, right) \subseteq [topic : STRING, subject : STRING]
           /\ \A k \in DOMAIN topicScores(asked, right) : topicScores(asked, right)[k] \in Int
<1> DEFINE keys == {Key(q) : q \in {x \in asked : Topic[x] # NoTopic}}
           Of(k) == {q \in asked : Key(q) = k}
           Value(k) == scorePct(Cardinality(Of(k) \cap right), Cardinality(Of(k)))
<1>1. keys \subseteq [topic : STRING, subject : STRING]
  BY PracticeAssumption DEF Key
<1>2. ASSUME NEW k \in keys
      PROVE  Value(k) \in Int
  <2>1. PICK S, T : S = Of(k) /\ T = Of(k) \cap right
    OBVIOUS
  <2>2. IsFiniteSet(S) /\ T \in SUBSET S
    <3>1. S \subseteq Questions /\ T \subseteq S
      BY <2>1
    <3> QED BY <3>1, PracticeAssumption, FS_Subset
  <2>3. scorePct(Cardinality(T), Cardinality(S)) \in 0..1000
    BY <2>2, PartInRange
  <2>4. Value(k) = scorePct(Cardinality(T), Cardinality(S))
    BY <2>1
  <2> QED BY <2>3, <2>4
<1>3. topicScores(asked, right) = [k \in keys |-> Value(k)]
  BY DEF topicScores
<1> HIDE DEF keys, Value
<1> QED BY <1>1, <1>2, <1>3

\* The submission of a set that is done already.
LEMMA SubmittedAgain ==
    ASSUME SetInv, NEW i \in DOMAIN sets, sets[i].status = "completed",
           scores' = [scores EXCEPT ![i] = @ \cup {sets[i].score}],
           UNCHANGED <<flag, goals, sets, weekly, history, gaps, pool, device, day, moves>>
    PROVE  SetInv'
<1>1. SetsOK' /\ SetsGrow /\ Picks \subseteq Picks' /\ WeekResults \subseteq WeekResults'
  <2>1. SetsOK' /\ SetsGrow
    BY DEF SetInv, SetsOK, SetsGrow
  <2> QED BY <2>1, PicksKept, WeeksKept DEF SetInv
<1>2. HoldsOK'
  BY <1>1, HoldsKept
<1>3. WeeklyOK' /\ MovesOK' /\ GapsOK' /\ HistoryOK'
  BY <1>1 DEF SetInv, WeeklyOK, MovesOK, GapsOK, Done, HistoryOK
<1>4. ScoresOK'
  <2>1. IsSeq(scores) /\ Len(scores) = Len(sets) /\ DOMAIN scores = 1 .. Len(scores) /\ DOMAIN sets = 1 .. Len(sets)
    BY SetsAre, SeqIs DEF SetInv, ScoresOK
  <2>2. PICK new : new = scores[i] \cup {sets[i].score}
    OBVIOUS
  <2>3. scores' = [scores EXCEPT ![i] = new]
    BY <2>2
  <2>4. /\ IsSeq(scores') /\ Len(scores') = Len(scores)
        /\ scores'[i] = new /\ \A j \in DOMAIN sets \ {i} : scores'[j] = scores[j]
    <3>1. PICK s, u : s = scores /\ u = scores'
      OBVIOUS
    <3>2. IsSeq(s) /\ i \in DOMAIN s
      BY <2>1, <3>1
    <3>3. u = Put(s, i, new)
      BY <2>3, <3>1, Zenon DEF Put
    <3>4. /\ IsSeq(u) /\ Len(u) = Len(s) /\ DOMAIN u = DOMAIN s
          /\ u[i] = new /\ \A j \in DOMAIN s \ {i} : u[j] = s[j]
      BY <3>2, <3>3, SeqPut
    <3> QED BY <2>1, <3>1, <3>4
  <2>5. new = {sets[i].score} /\ i \in Done
    BY <2>2 DEF SetInv, ScoresOK, Done
  <2> QED BY <2>1, <2>4, <2>5 DEF SetInv, ScoresOK, Done
<1> QED BY <1>1, <1>2, <1>3, <1>4 DEF SetInv

\* Scores in tenths of a percent.
Points == 0..1000

\* A set completed with a score.
CompletedWith(x, score) == [x EXCEPT !.status = "completed", !.score = score]

\* A set that is completed with a score.
LEMMA CompletedSet ==
    ASSUME NEW x \in SetType, NEW score \in Points
    PROVE  LET y == CompletedWith(x, score) IN
           /\ y \in SetType /\ y.status = "completed" /\ y.score = score
           /\ y.goal = x.goal /\ y.date = x.date /\ y.created = x.created
           /\ y.questions = x.questions /\ y.before = x.before
<1>1. PICK y : y = CompletedWith(x, score)
  OBVIOUS
<1>2. y.status = "completed" /\ y.score = score
  BY <1>1 DEF SetType, CompletedWith
<1>3. /\ y.goal = x.goal /\ y.date = x.date /\ y.created = x.created
      /\ y.questions = x.questions /\ y.focus = x.focus /\ y.before = x.before
  BY <1>1 DEF SetType, CompletedWith
<1>4. y = [goal |-> x.goal, date |-> x.date, created |-> x.created, status |-> "completed", score |-> score,
           questions |-> x.questions, focus |-> x.focus, before |-> x.before]
  BY <1>1 DEF SetType, CompletedWith
<1>5. y \in SetType
  BY <1>4 DEF SetType, Points
<1> QED BY <1>1, <1>2, <1>3, <1>5

\* The submission of a pending set.
LEMMA SubmittedFirst ==
    ASSUME SetInv, GoalInv, NEW d \in Devices, NEW i \in DOMAIN sets, NEW right \in SUBSET sets[i].questions,
           sets[i].status = "pending",
           NEW score, score = scorePct(Cardinality(right), Cardinality(sets[i].questions)),
           sets' = [sets EXCEPT ![i].status = "completed", ![i].score = score],
           gaps' = UpdateSkillGaps(gaps, topicScores(sets[i].questions, right)),
           scores' = [scores EXCEPT ![i] = @ \cup {score}],
           moves' = Append(moves, i),
           Wait(d, [pc |-> "week", goal |-> sets[i].goal]),
           UNCHANGED <<flag, goals, weekly, history, pool, day>>
    PROVE  SetInv'
<1>1. /\ Len(sets) \in Nat /\ DOMAIN sets = 1 .. Len(sets) /\ sets[i] \in SetType
      /\ sets[i].goal \in DOMAIN goals
  BY SetsAre DEF SetInv, SetsOK
<1>2. score \in 0..1000
  <2>1. PICK S : S = sets[i].questions
    OBVIOUS
  <2>2. IsFiniteSet(S)
    BY <1>1, <2>1, PracticeAssumption, FS_Subset DEF SetType
  <2>3. right \in SUBSET S
    BY <2>1
  <2>4. scorePct(Cardinality(right), Cardinality(S)) \in 0..1000
    BY <2>2, <2>3, PartInRange
  <2> QED BY <2>1, <2>4
<1>3. PICK rec : rec = CompletedWith(sets[i], score)
  OBVIOUS
<1>4. /\ rec \in SetType /\ rec.status = "completed" /\ rec.score = score
      /\ rec.goal = sets[i].goal /\ rec.date = sets[i].date /\ rec.created = sets[i].created
      /\ rec.questions = sets[i].questions /\ rec.before = sets[i].before
  <2>1. PICK x : x = sets[i]
    OBVIOUS
  <2>2. x \in SetType /\ rec = CompletedWith(x, score)
    BY <1>1, <1>3, <2>1
  <2>3. score \in Points
    BY <1>2 DEF Points
  <2> QED BY <2>1, <2>2, <2>3, CompletedSet
<1>5. sets' = [sets EXCEPT ![i] = rec]
  BY <1>3 DEF CompletedWith
<1>6. /\ IsSeq(sets') /\ Len(sets') = Len(sets) /\ DOMAIN sets' = DOMAIN sets
      /\ sets'[i] = rec /\ \A j \in DOMAIN sets \ {i} : sets'[j] = sets[j]
  <2>1. IsSeq(sets)
    BY DEF SetInv, SetsOK
  <2>2. PICK s, u : s = sets /\ u = sets'
    OBVIOUS
  <2>3. IsSeq(s) /\ i \in DOMAIN s
    BY <2>1, <2>2
  <2>4. u = Put(s, i, rec)
    BY <1>5, <2>2, Zenon DEF Put
  <2>5. /\ IsSeq(u) /\ Len(u) = Len(s) /\ DOMAIN u = DOMAIN s
        /\ u[i] = rec /\ \A j \in DOMAIN s \ {i} : u[j] = s[j]
    BY <2>3, <2>4, SeqPut
  <2> QED BY <2>2, <2>5
<1>7. \A j \in DOMAIN sets :
        /\ sets'[j] \in SetType /\ sets'[j].goal = sets[j].goal /\ sets'[j].date = sets[j].date
        /\ sets'[j].created = sets[j].created /\ sets'[j].questions = sets[j].questions
        /\ sets'[j].before = sets[j].before
        /\ sets[j].status = "completed" => sets'[j].status = "completed" /\ sets'[j].score = sets[j].score
  BY <1>4, <1>6 DEF SetInv, SetsOK
<1>8. SetsOK'
  <2>1. \A j \in DOMAIN sets' :
           /\ sets'[j] \in SetType /\ sets'[j].goal \in DOMAIN goals' /\ sets'[j].questions \subseteq pool'
           /\ sets'[j].before < j /\ Cardinality(sets'[j].questions) <= DailyTotal
    BY <1>6, <1>7 DEF SetInv, SetsOK
  <2>2. \A j, k \in DOMAIN sets' :
           sets'[j].goal = sets'[k].goal /\ sets'[j].date = sets'[k].date => j = k
    BY <1>6, <1>7 DEF SetInv, SetsOK
  <2>3. ASSUME NEW j \in DOMAIN sets', NEW k \in 1 .. sets'[j].before,
               sets'[j].created - sets'[k].created < SeenDays
        PROVE  sets'[k].questions \cap sets'[j].questions = {}
    <3>1. j \in DOMAIN sets /\ k \in 1 .. sets[j].before
      BY <1>6, <1>7, <2>3
    <3>2. sets[j].before < j /\ sets[j].before \in Nat
      BY <3>1 DEF SetInv, SetsOK, SetType
    <3>3. k \in DOMAIN sets
      BY <1>1, <3>1, <3>2
    <3>4. sets[k].questions \cap sets[j].questions = {}
      BY <1>7, <2>3, <3>1, <3>3 DEF SetInv, SetsOK
    <3> QED BY <1>7, <3>1, <3>3, <3>4
  <2> QED BY <1>6, <2>1, <2>2, <2>3 DEF SetsOK
<1>9. SetsGrow
  BY <1>6, <1>7 DEF SetsGrow
<1>10. Picks \subseteq Picks' /\ WeekResults \subseteq WeekResults'
  BY <1>8, <1>9, PicksKept, WeeksKept DEF SetInv
<1>11. HoldsOK'
  <2>1. PICK r : r = [pc |-> "week", goal |-> sets[i].goal]
    OBVIOUS
  <2>2. Wait(d, r) /\ r.pc = "week" /\ r.goal \in DOMAIN goals'
    BY <1>1, <2>1
  <2>3. device'[d] = r /\ \A e \in Devices \ {d} : device'[e] = device[e]
    BY <2>2, WaitFacts DEF GoalInv
  <2>4. HoldOK(device[d])'
    BY <2>2, <2>3 DEF HoldOK
  <2>5. \A e \in Devices : device'[e] = device[e] \/ device'[e].pc \in {"rest", "select", "activate"} \/ HoldOK(device[e])'
    BY <2>3, <2>4
  <2> QED BY <1>10, <2>5, HoldsKept
<1>12. Done' = Done \cup {i} /\ i \notin Done
  BY <1>4, <1>6 DEF Done
<1>13. MovesOK'
  <2>1. /\ IsSeq(moves) /\ Len(moves) \in Nat /\ DOMAIN moves = 1 .. Len(moves)
        /\ {moves[k] : k \in DOMAIN moves} = Done
    BY SeqIs DEF SetInv, MovesOK
  <2>2. /\ IsSeq(moves') /\ DOMAIN moves' = DOMAIN moves \cup {Len(moves) + 1} /\ Len(moves) + 1 \notin DOMAIN moves
        /\ \A k \in DOMAIN moves : moves'[k] = moves[k]
        /\ moves'[Len(moves) + 1] = i
    BY <2>1, SeqApp
  <2>3. {moves'[k] : k \in DOMAIN moves'} = Done'
    BY <1>12, <2>1, <2>2
  <2>4. \A k \in DOMAIN moves : moves[k] # i
    BY <1>12, <2>1
  <2>5. \A k, l \in DOMAIN moves' : moves'[k] = moves'[l] => k = l
    BY <2>2, <2>4 DEF SetInv, MovesOK
  <2> QED BY <2>2, <2>3, <2>5 DEF MovesOK
<1>14. ScoresOK'
  <2>1. IsSeq(scores) /\ Len(scores) = Len(sets) /\ DOMAIN scores = 1 .. Len(scores)
    BY SeqIs DEF SetInv, ScoresOK
  <2>2. PICK new : new = scores[i] \cup {score}
    OBVIOUS
  <2>3. scores' = [scores EXCEPT ![i] = new]
    BY <2>2
  <2>4. /\ IsSeq(scores') /\ Len(scores') = Len(scores)
        /\ scores'[i] = new /\ \A j \in DOMAIN sets \ {i} : scores'[j] = scores[j]
    <3>1. PICK s, u : s = scores /\ u = scores'
      OBVIOUS
    <3>2. IsSeq(s) /\ i \in DOMAIN s
      BY <1>1, <2>1, <3>1
    <3>3. u = Put(s, i, new)
      BY <2>3, <3>1, Zenon DEF Put
    <3>4. /\ IsSeq(u) /\ Len(u) = Len(s) /\ DOMAIN u = DOMAIN s
          /\ u[i] = new /\ \A j \in DOMAIN s \ {i} : u[j] = s[j]
      BY <3>2, <3>3, SeqPut
    <3> QED BY <2>1, <3>1, <3>4, <1>1
  <2>5. new = {score}
    BY <1>12, <2>2 DEF SetInv, ScoresOK
  <2>6. \A j \in DOMAIN sets \ {i} : scores[j] # {} => j \in Done /\ scores[j] = {sets[j].score}
    BY DEF SetInv, ScoresOK
  <2> QED BY <1>4, <1>6, <1>12, <2>1, <2>4, <2>5, <2>6 DEF ScoresOK
<1>15. GapsOK'
  <2>1. PICK asked : asked = sets[i].questions
    OBVIOUS
  <2>2. PICK result : result = topicScores(asked, right)
    OBVIOUS
  <2>3. /\ DOMAIN result \subseteq [topic : STRING, subject : STRING]
        /\ \A k \in DOMAIN result : result[k] \in Int
    <3>1. asked \in SUBSET Questions /\ right \in SUBSET asked
      BY <1>1, <2>1 DEF SetType
    <3> QED BY <2>2, <3>1, TopicScoresAre
  <2>4. PICK rows : rows = gaps
    OBVIOUS
  <2>5. rows \in SUBSET GapType /\ \A g, h \in rows : g.topic = h.topic /\ g.subject = h.subject => g = h
    BY <2>4 DEF SetInv, GapsOK
  <2>6. PICK new : new = UpdateSkillGaps(rows, result)
    OBVIOUS
  <2>7. new \subseteq GapType /\ \A g, h \in new : g.topic = h.topic /\ g.subject = h.subject => g = h
    BY <2>3, <2>5, <2>6, GapsMove
  <2>8. gaps' = new
    BY <2>1, <2>2, <2>4, <2>6
  <2> QED BY <2>7, <2>8 DEF GapsOK
<1>16. WeeklyOK' /\ HistoryOK'
  BY <1>10 DEF SetInv, WeeklyOK, HistoryOK
<1> QED BY <1>8, <1>11, <1>13, <1>14, <1>15, <1>16 DEF SetInv

\* A submission keeps the invariants of goals and sets.
LEMMA SubmitStep ==
    ASSUME SetInv, GoalInv, NEW d \in Devices, NEW i \in DOMAIN sets, NEW right \in SUBSET sets[i].questions,
           HandleSubmitPractice(d, i, right)
    PROVE  SetInv' /\ GoalInv'
<1>1. UNCHANGED <<flag, goals, weekly, history, pool, day, clash>> /\ SubmitPractice(d, i, right)
  BY DEF HandleSubmitPractice
<1>2. CASE /\ sets[i].status = "completed" /\ scores' = [scores EXCEPT ![i] = @ \cup {sets[i].score}]
           /\ UNCHANGED <<sets, gaps, moves, device>>
  <2>1. SetInv'
    BY <1>1, <1>2, SubmittedAgain
  <2>2. device' \in [Devices -> Elements(device)']
    BY <1>2 DEF GoalInv, Elements
  <2>3. GoalInv'
    BY <1>1, <1>2, <2>2, GoalQuiet
  <2> QED BY <2>1, <2>3
<1>3. CASE \E score :
             /\ score = scorePct(Cardinality(right), Cardinality(sets[i].questions))
             /\ sets[i].status = "pending"
             /\ sets' = [sets EXCEPT ![i].status = "completed", ![i].score = score]
             /\ gaps' = UpdateSkillGaps(gaps, topicScores(sets[i].questions, right))
             /\ scores' = [scores EXCEPT ![i] = @ \cup {score}]
             /\ moves' = Append(moves, i)
             /\ Wait(d, [pc |-> "week", goal |-> sets[i].goal])
  <2>1. SetInv'
    BY <1>1, <1>3, SubmittedFirst
  <2>2. PICK r : Wait(d, r) /\ r.pc = "week"
    <3>1. PICK r : r = [pc |-> "week", goal |-> sets[i].goal]
      OBVIOUS
    <3>2. Wait(d, r) /\ r.pc = "week"
      BY <1>3, <3>1
    <3> QED BY <3>2
  <2>3. /\ device' \in [Devices -> Elements(device)']
        /\ device'[d] = r /\ \A e \in Devices \ {d} : device'[e] = device[e]
    BY <2>2, WaitFacts DEF GoalInv
  <2>4. \A e \in Devices : device'[e] = device[e] \/ device'[e].pc \notin {"select", "activate"}
    BY <2>2, <2>3
  <2>5. GoalInv'
    BY <1>1, <2>3, <2>4, GoalQuiet
  <2> QED BY <2>1, <2>5
<1> QED BY <1>1, <1>2, <1>3 DEF SubmitPractice

\* A step of a device that selects nothing.
LEMMA QuietDevice ==
    ASSUME GoalInv, NEW d \in Devices, NEW r, Wait(d, r), r.pc \notin {"select", "activate"},
           UNCHANGED <<goals, clash>>
    PROVE  GoalInv'
<1>1. /\ device' \in [Devices -> Elements(device)']
      /\ device'[d] = r /\ \A e \in Devices \ {d} : device'[e] = device[e]
  BY WaitFacts DEF GoalInv
<1>2. \A e \in Devices : device'[e] = device[e] \/ device'[e].pc \notin {"select", "activate"}
  BY <1>1
<1> QED BY <1>1, <1>2, GoalQuiet

\* What the handlers of the daily and the weekly sets write to their device.
LEMMA DeviceGoesOn ==
    ASSUME NEW d \in Devices,
           \/ GetTodayPractice(d) \/ ChooseDailySet(d) \/ generateDailySet(d)
           \/ ReadWeek(d) \/ ensureWeeklySet(d) \/ weekProgress(d) \/ appendWeeklyScore(d)
           \/ PracticeFails(d)
    PROVE  /\ \E r : Wait(d, r) /\ r.pc \notin {"select", "activate"}
           /\ UNCHANGED <<goals, clash>>
<1>1. UNCHANGED <<goals, clash>>
  BY DEF GetTodayPractice, ChooseDailySet, generateDailySet, ReadWeek, ensureWeeklySet, weekProgress,
         appendWeeklyScore, PracticeFails
<1>2. ASSUME Answered(d)
      PROVE  \E r : Wait(d, r) /\ r.pc \notin {"select", "activate"}
  <2>1. Wait(d, AtRestNow) /\ AtRestNow.pc = "rest"
    BY <1>2 DEF Answered, Wait, AtRestNow
  <2> QED BY <2>1
<1>3. CASE GetTodayPractice(d)
  <2>1. PICK r : r = [pc |-> "generate", goal |-> activeGoal, date |-> day]
    OBVIOUS
  <2>2. Wait(d, r) /\ r.pc = "generate"
    BY <1>3, <2>1 DEF GetTodayPractice
  <2> QED BY <1>1, <2>2
<1>4. CASE ChooseDailySet(d)
  <2>1. PICK picked, focus :
           Wait(d, [pc |-> "insert", goal |-> device[d].goal, date |-> device[d].date, picked |-> picked,
                    focus |-> focus, before |-> Len(sets)])
    BY <1>4 DEF ChooseDailySet
  <2>2. PICK r : r = [pc |-> "insert", goal |-> device[d].goal, date |-> device[d].date, picked |-> picked,
                      focus |-> focus, before |-> Len(sets)]
    OBVIOUS
  <2>3. Wait(d, r) /\ r.pc = "insert"
    BY <2>1, <2>2
  <2> QED BY <1>1, <2>3
<1>5. CASE ReadWeek(d)
  <2>1. PICK r : /\ Wait(d, r)
                 /\ \/ r = [pc |-> "progress", goal |-> device[d].goal, week |-> weekBounds(day)]
                    \/ \E picked : r = [pc |-> "insertWeek", goal |-> device[d].goal, week |-> weekBounds(day),
                                        picked |-> picked]
    BY <1>5 DEF ReadWeek
  <2>2. r.pc \in {"progress", "insertWeek"}
    BY <2>1
  <2> QED BY <1>1, <2>1, <2>2
<1>6. CASE ensureWeeklySet(d)
  <2>1. Answered(d) \/ Wait(d, [pc |-> "progress", goal |-> device[d].goal, week |-> device[d].week])
    BY <1>6 DEF ensureWeeklySet
  <2>2. CASE Wait(d, [pc |-> "progress", goal |-> device[d].goal, week |-> device[d].week])
    <3>1. PICK r : r = [pc |-> "progress", goal |-> device[d].goal, week |-> device[d].week]
      OBVIOUS
    <3>2. Wait(d, r) /\ r.pc = "progress"
      BY <2>2, <3>1
    <3> QED BY <1>1, <3>2
  <2> QED BY <1>1, <1>2, <2>1, <2>2
<1>7. CASE weekProgress(d)
  <2>1. PICK score : \/ Answered(d)
                     \/ Wait(d, [pc |-> "append", goal |-> device[d].goal, week |-> device[d].week, score |-> score])
    BY <1>7 DEF weekProgress
  <2>2. CASE Wait(d, [pc |-> "append", goal |-> device[d].goal, week |-> device[d].week, score |-> score])
    <3>1. PICK r : r = [pc |-> "append", goal |-> device[d].goal, week |-> device[d].week, score |-> score]
      OBVIOUS
    <3>2. Wait(d, r) /\ r.pc = "append"
      BY <2>2, <3>1
    <3> QED BY <1>1, <3>2
  <2> QED BY <1>1, <1>2, <2>1, <2>2
<1>8. CASE generateDailySet(d) \/ appendWeeklyScore(d) \/ PracticeFails(d)
  BY <1>1, <1>2, <1>8 DEF generateDailySet, appendWeeklyScore, PracticeFails
<1> QED BY <1>3, <1>4, <1>5, <1>6, <1>7, <1>8

\* The inductive invariant of the practice.
PracticeInv == GoalInv /\ SetInv

\* The invariant of the practice holds at the start.
LEMMA PracticeInitInv ==
    ASSUME PracticeInit
    PROVE  PracticeInv
<1>1. /\ flag = [enabled |-> TRUE, rollout |-> 100]
      /\ goals = <<>> /\ sets = <<>> /\ weekly = {} /\ history = {}
      /\ pool = Questions /\ device = [d \in Devices |-> AtRestNow] /\ day = 0 /\ clash = FALSE
      /\ moves = <<>> /\ scores = <<>>
  BY DEF PracticeInit
<1>2. PICK empty : empty = <<>>
  OBVIOUS
<1>3. IsSeq(empty) /\ Len(empty) = 0 /\ DOMAIN empty = {}
  <2>1. empty \in [1..0 -> {}]
    BY <1>2
  <2>2. IsSeq(empty) /\ Len(empty) = 0 /\ DOMAIN empty = 1..0
    BY <2>1, SeqFrom
  <2> QED BY <2>2
<1>4. goals = empty /\ sets = empty /\ moves = empty /\ scores = empty
  BY <1>1, <1>2
<1>5. \A d \in Devices : device[d].pc = "rest"
  BY <1>1 DEF AtRestNow
<1>6. GoalInv
  <2>1. Active = {}
    BY <1>3, <1>4 DEF Active
  <2>2. device \in [Devices -> Elements(device)]
    BY <1>1 DEF Elements
  <2>3. Keepers # {}
    <3>1. PICK own : own = [i \in {} |-> CHOOSE d \in Devices : TRUE]
      OBVIOUS
    <3>2. own \in [{} -> Devices]
      BY <3>1
    <3>3. own \in Keepers
      BY <2>1, <3>2 DEF Keepers
    <3> QED BY <3>3
  <2>4. GoalsOK
    BY <1>3, <1>4 DEF GoalsOK
  <2>5. \A d \in Devices : SelectOK(device[d])
    BY <1>5 DEF SelectOK
  <2> QED BY <1>1, <2>1, <2>2, <2>3, <2>4, <2>5 DEF GoalInv
<1>7. SetInv
  <2>1. flag \in [enabled : BOOLEAN, rollout : 0..100] /\ day \in Nat /\ pool \subseteq Questions
    BY <1>1
  <2>2. SetsOK
    BY <1>3, <1>4 DEF SetsOK
  <2>3. WeeklyOK /\ HistoryOK
    BY <1>1 DEF WeeklyOK, HistoryOK
  <2>4. MovesOK
    BY <1>3, <1>4 DEF MovesOK, Done
  <2>5. ScoresOK
    BY <1>3, <1>4 DEF ScoresOK
  <2>6. GapsOK
    <3>1. PICK start \in Starts : gaps = start.gaps
      BY DEF PracticeInit
    <3> QED BY <3>1, PracticeAssumption DEF GapsOK, GapType
  <2>7. HoldsOK
    BY <1>5 DEF HoldsOK, HoldOK
  <2> QED BY <1>3, <1>4, <2>1, <2>2, <2>3, <2>4, <2>5, <2>6, <2>7 DEF SetInv
<1> QED BY <1>6, <1>7 DEF PracticeInv

\* Every step of the practice keeps its invariant.
LEMMA PracticeStepInv ==
    ASSUME PracticeInv, [PracticeNext]_practiceVars
    PROVE  PracticeInv'
<1>0. GoalInv /\ SetInv
  BY DEF PracticeInv
<1>1. ASSUME NEW d \in Devices, NEW g \in Goals, HandleSelectGoal(d, g)
      PROVE  GoalInv' /\ SetInv'
  <2>1. GoalInv'
    BY <1>0, <1>1, SelectQuiet
  <2> QED BY <1>0, <1>1, <2>1, GoalKeepsSets
<1>2. ASSUME NEW d \in Devices, AbandonActive(d)
      PROVE  GoalInv' /\ SetInv'
  <2>1. GoalInv'
    BY <1>0, <1>2, SelectQuiet
  <2> QED BY <1>0, <1>2, <2>1, GoalKeepsSets
<1>3. ASSUME NEW d \in Devices, SelectGoal(d)
      PROVE  GoalInv' /\ SetInv'
  <2>1. GoalInv'
    BY <1>0, <1>3, SelectGoalStep
  <2> QED BY <1>0, <1>3, <2>1, GoalKeepsSets
<1>4. ASSUME NEW d \in Devices, AbandonGoal(d)
      PROVE  GoalInv' /\ SetInv'
  <2>1. GoalInv'
    BY <1>0, <1>4, AbandonGoalStep
  <2> QED BY <1>0, <1>4, <2>1, GoalKeepsSets
<1>5. ASSUME NEW d \in Devices,
             \/ GetTodayPractice(d) \/ ChooseDailySet(d) \/ generateDailySet(d)
             \/ ReadWeek(d) \/ ensureWeeklySet(d) \/ weekProgress(d) \/ appendWeeklyScore(d)
             \/ PracticeFails(d)
      PROVE  GoalInv' /\ SetInv'
  <2>1. GoalInv'
    BY <1>0, <1>5, DeviceGoesOn, QuietDevice
  <2>2. SetInv'
    BY <1>0, <1>5, <2>1, GetTodayStep, ChooseStep, DailyStep, ReadWeekStep, WeeklyStep, ProgressStep, AppendStep,
       GoalKeepsSets
  <2> QED BY <2>1, <2>2
<1>6. ASSUME NEW d \in Devices, NEW i \in DOMAIN sets, NEW right \in SUBSET sets[i].questions,
             HandleSubmitPractice(d, i, right)
      PROVE  GoalInv' /\ SetInv'
  BY <1>0, <1>6, SubmitStep
<1>7. ASSUME DraftReplaced \/ NextDay
      PROVE  GoalInv' /\ SetInv'
  <2>1. UNCHANGED <<goals, clash, device>>
    BY <1>7 DEF DraftReplaced, NextDay
  <2>2. device' \in [Devices -> Elements(device)']
    BY <1>0, <2>1 DEF GoalInv, Elements
  <2>3. GoalInv'
    BY <1>0, <2>1, <2>2, GoalQuiet
  <2>4. SetInv'
    BY <1>0, <1>7, DraftStep, NextDayStep
  <2> QED BY <2>3, <2>4
<1>8. ASSUME NEW enabled \in BOOLEAN, NEW rollout \in {Bucket, Bucket + 1}, AdminSetFlag(enabled, rollout)
      PROVE  GoalInv' /\ SetInv'
  <2>1. UNCHANGED <<goals, clash, device>>
    BY <1>8 DEF AdminSetFlag
  <2>2. device' \in [Devices -> Elements(device)']
    BY <1>0, <2>1 DEF GoalInv, Elements
  <2>3. GoalInv'
    BY <1>0, <2>1, <2>2, GoalQuiet
  <2>4. SetInv'
    BY <1>0, <1>8, AdminStep
  <2> QED BY <2>3, <2>4
<1>9. ASSUME UNCHANGED practiceVars
      PROVE  GoalInv' /\ SetInv'
  <2>1. UNCHANGED <<flag, goals, sets, weekly, history, gaps, pool, device, day, clash, moves, scores>>
    BY <1>9 DEF practiceVars
  <2>2. device' \in [Devices -> Elements(device)']
    BY <1>0, <2>1 DEF GoalInv, Elements
  <2>3. GoalInv'
    BY <1>0, <2>1, <2>2, GoalQuiet
  <2>4. SetInv'
    <3>1. \A d \in Devices : device'[d] = device[d]
      BY <2>1
    <3> QED BY <1>0, <2>1, <3>1, SetQuiet DEF SetInv
  <2> QED BY <2>3, <2>4
<1> QED BY <1>1, <1>2, <1>3, <1>4, <1>5, <1>6, <1>7, <1>8, <1>9 DEF PracticeNext, PracticeInv

\* Active goals with a device each are as many as there are devices at most.
LEMMA PracticeBounded == PracticeInv => GoalsBounded
<1> SUFFICES ASSUME PracticeInv
             PROVE  GoalsBounded
  OBVIOUS
<1>1. PICK own \in Keepers : TRUE
  BY DEF PracticeInv, GoalInv
<1>2. own \in Injection(Active, Devices)
  BY <1>1 DEF Keepers, Injection, IsInjective
<1>3. IsFiniteSet(Active) /\ Cardinality(Active) <= Cardinality(Devices)
  BY <1>2, PracticeAssumption, FS_Injection
<1>4. ASSUME ~clash
      PROVE  Cardinality(Active) <= 1
  <2>1. CASE Active = {}
    BY <2>1, FS_EmptySet
  <2>2. CASE Active # {}
    <3>1. PICK i \in Active : TRUE
      BY <2>2
    <3>2. Active = {i}
      BY <1>4, <3>1 DEF PracticeInv, GoalInv
    <3> QED BY <3>2, FS_Singleton
  <2> QED BY <2>1, <2>2
<1> QED BY <1>3, <1>4 DEF GoalsBounded

\* The sets of the invariant are sound.
LEMMA PracticeSetSound == PracticeInv => SetSound
BY DEF PracticeInv, SetInv, SetsOK, SetSound

\* The invariant has the types.
LEMMA PracticeTyped == PracticeInv => PracticeTypeOK
<1> SUFFICES ASSUME PracticeInv
             PROVE  PracticeTypeOK
  OBVIOUS
<1>1. \A i \in DOMAIN goals : goals[i].goal \in Goals /\ goals[i].status \in {"active", "abandoned"}
  BY DEF PracticeInv, GoalInv, GoalsOK, GoalType
<1>2. \A i \in DOMAIN sets :
         /\ sets[i].goal \in DOMAIN goals /\ sets[i].status \in {"pending", "completed"}
         /\ sets[i].score \in 0..1000 /\ sets[i].questions \subseteq pool
  BY DEF PracticeInv, SetInv, SetsOK, SetType
<1>3. \A w \in weekly : w.goal \in DOMAIN goals /\ w.questions \subseteq pool
  BY DEF PracticeInv, SetInv, WeeklyOK
<1>4. \A h \in history : h.score \in 0..1000
  BY DEF PracticeInv, SetInv, HistoryOK, WeekResults
<1>5. \A g \in gaps : g.weakness \in 0..100
  BY DEF PracticeInv, SetInv, GapsOK, GapType
<1>6. flag \in [enabled : BOOLEAN, rollout : 0..100] /\ day \in Nat /\ clash \in BOOLEAN
  BY DEF PracticeInv, SetInv, GoalInv
<1> QED BY <1>1, <1>2, <1>3, <1>4, <1>5, <1>6 DEF PracticeTypeOK

\* The streak of a goal is not longer than its completed sets.
LEMMA StreakBound ==
    ASSUME PracticeInv, NEW g
    PROVE  LET done == {k \in DOMAIN sets : sets[k].goal = g /\ sets[k].status = "completed"} IN
           loadStreak(g) <= Cardinality(done) /\ IsFiniteSet(done)
<1> DEFINE done == {k \in DOMAIN sets : sets[k].goal = g /\ sets[k].status = "completed"}
           dates == {sets[i].date : i \in done}
<1>1. Len(sets) \in Nat /\ DOMAIN sets = 1 .. Len(sets) /\ \A i \in DOMAIN sets : sets[i].date \in Nat
  BY SetsAre DEF PracticeInv, SetInv
<1>2. IsFiniteSet(done)
  <2>1. IsFiniteSet(1 .. Len(sets))
    BY <1>1, UptoFinite
  <2>2. done \in SUBSET (1 .. Len(sets))
    BY <1>1
  <2> HIDE DEF done
  <2> QED BY <2>1, <2>2, FS_Subset
<1>3. dates \in SUBSET Nat
  BY <1>1
<1>4. IsFiniteSet(dates) /\ Cardinality(dates) <= Cardinality(done)
  <2>1. PICK f : f = [i \in done |-> sets[i].date]
    OBVIOUS
  <2>2. f \in Surjection(done, dates)
    BY <2>1 DEF Surjection
  <2> HIDE DEF done, dates
  <2> QED BY <1>2, <2>2, FS_Surjection
<1>5. PICK run : run = CHOOSE f : f = [on \in Int |-> IF on \in dates THEN 1 + f[on - 1] ELSE 0]
  OBVIOUS
<1>6. IsRun(dates, run)
  <2>1. \E f : IsRun(dates, f)
    <3> HIDE DEF dates
    <3> QED BY <1>3, <1>4, RunExists
  <2>2. run = CHOOSE f : IsRun(dates, f)
    <3> HIDE DEF dates
    <3> QED BY <1>5, Zenon DEF IsRun
  <2> HIDE DEF dates
  <2> QED BY <2>1, <2>2, Zenon
<1>7. loadStreak(g) = IF dates = {} \/ day - Max(dates) > 1 THEN 0 ELSE run[Max(dates)]
  <2>1. loadStreak(g) = IF dates = {} \/ day - Max(dates) > 1 THEN 0
                        ELSE (CHOOSE f : f = [on \in Int |-> IF on \in dates THEN 1 + f[on - 1] ELSE 0])[Max(dates)]
    BY Zenon DEF loadStreak
  <2> HIDE DEF dates
  <2> QED BY <1>5, <2>1, Zenon
<1>8. Cardinality(dates) \in Nat /\ Cardinality(done) \in Nat
  BY <1>2, <1>4, FS_CardinalityType
<1>9. CASE dates = {} \/ day - Max(dates) > 1
  BY <1>2, <1>7, <1>8, <1>9
<1>10. CASE ~(dates = {} \/ day - Max(dates) > 1)
  <2>1. Max(dates) \in Nat
    <3>1. PICK top \in Nat : \A x \in dates : x <= top
      <4> HIDE DEF dates
      <4> QED BY <1>3, <1>4, FiniteBound
    <3> HIDE DEF dates
    <3> QED BY <1>3, <1>10, <3>1, MaxIn
  <2>2. PICK now \in Int : now = Max(dates)
    BY <2>1
  <2>3. run[now] \in 0 .. Cardinality(dates)
    <3> HIDE DEF dates
    <3> QED BY <1>3, <1>4, <1>6, RunBound
  <2>4. loadStreak(g) = run[now]
    BY <1>7, <1>10, <2>2
  <2>5. PICK n, m : n = Cardinality(dates) /\ m = Cardinality(done)
    OBVIOUS
  <2>6. n \in Nat /\ m \in Nat /\ n <= m /\ run[now] \in 0 .. n
    BY <1>4, <1>8, <2>3, <2>5
  <2>7. loadStreak(g) <= m
    BY <2>4, <2>6
  <2> QED BY <1>2, <2>5, <2>7, Zenon
<1> QED BY <1>9, <1>10

\* A full week has as many completed sets as days.
LEMMA FullWeekSize ==
    ASSUME PracticeInv, NEW h \in history
    PROVE  Cardinality(DoneIn(h.goal, h.week)) = WeekDays
<1>1. h.week \in Nat /\ DaysIn(h.week) = {sets[i].date : i \in DoneIn(h.goal, h.week)}
  BY DEF PracticeInv, SetInv, HistoryOK, WeekResults
<1>2. PICK S : S = DoneIn(h.goal, h.week)
  OBVIOUS
<1>3. PICK T : T = DaysIn(h.week)
  OBVIOUS
<1>4. IsFiniteSet(S)
  <2>1. S \subseteq 1 .. Len(sets) /\ Len(sets) \in Nat
    BY <1>2, SetsAre DEF DoneIn, PracticeInv, SetInv
  <2>2. IsFiniteSet(1 .. Len(sets))
    BY <2>1, UptoFinite
  <2> QED BY <2>1, <2>2, FS_Subset
<1>5. Cardinality(T) = WeekDays
  BY <1>1, <1>3, DaysOfWeek
<1>6. PICK f : f = [i \in S |-> sets[i].date]
  OBVIOUS
<1>7. f \in [S -> T] /\ \A y \in T : \E i \in S : f[i] = y
  BY <1>1, <1>2, <1>3, <1>6
<1>8. \A i, j \in S : f[i] = f[j] => i = j
  BY <1>2, <1>6 DEF DoneIn, PracticeInv, SetInv, SetsOK
<1>9. Cardinality(T) = Cardinality(S)
  BY <1>4, <1>7, <1>8, SameSize
<1> QED BY <1>2, <1>5, <1>9

\* The completed sets of a goal are those that moved the gaps.
LEMMA CompletedAreMoves ==
    ASSUME PracticeInv, NEW g
    PROVE  Cardinality({k \in DOMAIN sets : sets[k].goal = g /\ sets[k].status = "completed"})
             = Cardinality({i \in DOMAIN moves : sets[moves[i]].goal = g})
<1>1. PICK S : S = {i \in DOMAIN moves : sets[moves[i]].goal = g}
  OBVIOUS
<1>2. PICK T : T = {k \in DOMAIN sets : sets[k].goal = g /\ sets[k].status = "completed"}
  OBVIOUS
<1>3. /\ IsSeq(moves) /\ {moves[i] : i \in DOMAIN moves} = Done
      /\ \A i, j \in DOMAIN moves : moves[i] = moves[j] => i = j
  BY DEF PracticeInv, SetInv, MovesOK
<1>4. IsFiniteSet(S)
  <2>1. DOMAIN moves = 1 .. Len(moves) /\ Len(moves) \in Nat
    BY <1>3, SeqIs
  <2>2. IsFiniteSet(1 .. Len(moves))
    BY <2>1, UptoFinite
  <2> QED BY <1>1, <2>1, <2>2, FS_Subset
<1>5. PICK f : f = [i \in S |-> moves[i]]
  OBVIOUS
<1>6. f \in [S -> T]
  <2>1. \A i \in S : moves[i] \in T
    BY <1>1, <1>2, <1>3 DEF Done
  <2> QED BY <1>5, <2>1
<1>7. \A y \in T : \E i \in S : f[i] = y
  <2> SUFFICES ASSUME NEW y \in T
               PROVE  \E i \in S : f[i] = y
    OBVIOUS
  <2>1. y \in Done /\ sets[y].goal = g
    BY <1>2 DEF Done
  <2>2. PICK i \in DOMAIN moves : moves[i] = y
    BY <1>3, <2>1
  <2> QED BY <1>1, <1>5, <2>1, <2>2
<1>8. \A i, j \in S : f[i] = f[j] => i = j
  BY <1>1, <1>3, <1>5
<1>9. Cardinality(T) = Cardinality(S)
  BY <1>4, <1>6, <1>7, <1>8, SameSize
<1> QED BY <1>1, <1>2, <1>9

\* The invariant counts a submission once.
LEMMA PracticeCounted == PracticeInv => CountedOnce
<1> SUFFICES ASSUME PracticeInv
             PROVE  CountedOnce
  OBVIOUS
<1>1. /\ \A i, j \in DOMAIN moves : moves[i] = moves[j] => i = j
      /\ {moves[i] : i \in DOMAIN moves} = {i \in DOMAIN sets : sets[i].status = "completed"}
  BY DEF PracticeInv, SetInv, MovesOK, Done
<1>2. \A i \in DOMAIN sets : scores[i] # {} => scores[i] = {sets[i].score}
  BY DEF PracticeInv, SetInv, ScoresOK
<1>3. \A g, h \in gaps : KeyOf(g) = KeyOf(h) => g = h
  <2> SUFFICES ASSUME NEW g \in gaps, NEW h \in gaps, KeyOf(g) = KeyOf(h)
               PROVE  g = h
    OBVIOUS
  <2>1. g.topic = h.topic /\ g.subject = h.subject
    BY DEF KeyOf
  <2> QED BY <2>1 DEF PracticeInv, SetInv, GapsOK
<1>4. \A h, k \in history : h.goal = k.goal /\ h.week = k.week => h = k
  BY DEF PracticeInv, SetInv, HistoryOK
<1>5. \A h \in history : Cardinality(DoneIn(h.goal, h.week)) = WeekDays
                             /\ h.score = WeekMean(DoneIn(h.goal, h.week))
  BY FullWeekSize DEF PracticeInv, SetInv, HistoryOK, WeekResults
<1>6. ASSUME NEW g \in DOMAIN goals
      PROVE  /\ loadProgress(g).streak <= loadProgress(g).completed
             /\ loadProgress(g).completed = Cardinality({i \in DOMAIN moves : sets[moves[i]].goal = g})
  <2>1. PICK done : done = {k \in DOMAIN sets : sets[k].goal = g /\ sets[k].status = "completed"}
    OBVIOUS
  <2>2. done = {i \in {k \in DOMAIN sets : sets[k].goal = g} : sets[i].status = "completed"}
    BY <2>1
  <2>3. loadProgress(g).completed = Cardinality(done) /\ loadProgress(g).streak = loadStreak(g)
    BY <2>2 DEF loadProgress
  <2>4. loadStreak(g) <= Cardinality(done)
    BY <2>1, StreakBound
  <2>5. Cardinality(done) = Cardinality({i \in DOMAIN moves : sets[moves[i]].goal = g})
    BY <2>1, CompletedAreMoves
  <2> QED BY <2>3, <2>4, <2>5
<1> QED BY <1>1, <1>2, <1>3, <1>4, <1>5, <1>6 DEF CountedOnce

(* ------------------------------- generation ------------------------------- *)

\* Where an element comes among those of a set.
Rank(S, n) == Cardinality({m \in S : m <= n})

\* A set of positions has one of each rank.
LEMMA RankHit ==
    ASSUME NEW N \in Nat, NEW S \in SUBSET (1..N), NEW k \in 1 .. Cardinality(S)
    PROVE  \E n \in S : Rank(S, n) = k
<1> DEFINE B(n) == {m \in S : m <= n}
<1>s. \A m \in S : m \in Nat /\ 1 <= m /\ m <= N
  OBVIOUS
<1>0. IsFiniteSet(S) /\ Cardinality(S) \in Nat
  <2>1. IsFiniteSet(1..N)
    BY UptoFinite
  <2> QED BY <2>1, FS_Subset, FS_CardinalityType
<1>1. \A n \in Nat : IsFiniteSet(B(n)) /\ Cardinality(B(n)) \in Nat
  <2>1. \A n \in Nat : B(n) \in SUBSET S
    OBVIOUS
  <2> HIDE DEF B
  <2> QED BY <1>0, <2>1, FS_Subset, FS_CardinalityType
<1>2. PICK T : T = {n \in Nat : Cardinality(B(n)) >= k}
  OBVIOUS
<1>3. N \in T
  <2>1. B(N) = S
    BY <1>s
  <2> HIDE DEF B
  <2> QED BY <1>0, <1>2, <2>1
<1>4. PICK n \in T : \A m \in T : n <= m
  BY <1>2, <1>3, LeastNat
<1>5. n \in Nat /\ Cardinality(B(n)) >= k
  BY <1>2, <1>4
<1>6. n # 0
  <2>1. B(0) = {}
    <3>1. \A m \in S : ~(m <= 0)
      BY <1>s
    <3> QED BY <3>1, Zenon
  <2>2. Cardinality(B(0)) = 0
    BY <2>1, FS_EmptySet
  <2> HIDE DEF B
  <2> QED BY <1>5, <2>2
<1>7. n - 1 \in Nat /\ Cardinality(B(n - 1)) < k
  <2>1. n - 1 \in Nat /\ n - 1 \notin T
    BY <1>4, <1>5, <1>6
  <2> HIDE DEF B
  <2>2. Cardinality(B(n - 1)) \in Nat
    BY <1>1, <2>1
  <2> QED BY <1>2, <2>1, <2>2
<1>8. n \in S
  <2> SUFFICES ASSUME n \notin S PROVE FALSE
    OBVIOUS
  <2>1. B(n) = B(n - 1)
    <3>1. \A m \in S : m <= n <=> m <= n - 1
      BY <1>5, <1>s
    <3> QED BY <3>1, Zenon
  <2> HIDE DEF B
  <2> QED BY <1>1, <1>5, <1>7, <2>1
<1>9. Cardinality(B(n)) = Cardinality(B(n - 1)) + 1
  <2>1. B(n) = B(n - 1) \cup {n} /\ n \notin B(n - 1)
    <3>1. \A m \in S : m <= n <=> (m <= n - 1 \/ m = n)
      BY <1>5, <1>s
    <3>2. ~(n <= n - 1)
      BY <1>5
    <3> QED BY <1>8, <3>1, <3>2, Zenon
  <2> HIDE DEF B
  <2> QED BY <1>1, <1>7, <2>1, FS_AddElement
<1>10. Cardinality(B(n)) = k
  <2> HIDE DEF B
  <2> QED BY <1>1, <1>5, <1>7, <1>9
<1> QED BY <1>8, <1>10 DEF Rank

\* Ranks grow with the positions.
LEMMA RankGrows ==
    ASSUME NEW N \in Nat, NEW S \in SUBSET (1..N)
    PROVE  /\ \A n \in S : Rank(S, n) \in 1 .. Cardinality(S)
           /\ \A i, j \in S : Rank(S, i) = Rank(S, j) => i = j
<1> DEFINE B(n) == {m \in S : m <= n}
<1>s. \A m \in S : m \in Nat
  OBVIOUS
<1>1. IsFiniteSet(S) /\ Cardinality(S) \in Nat
  <2>1. IsFiniteSet(1..N)
    BY UptoFinite
  <2> QED BY <2>1, FS_Subset, FS_CardinalityType
<1>2. \A n \in Nat : IsFiniteSet(B(n)) /\ Cardinality(B(n)) \in Nat /\ Cardinality(B(n)) <= Cardinality(S)
  <2>1. \A n \in Nat : B(n) \in SUBSET S
    OBVIOUS
  <2> HIDE DEF B
  <2> QED BY <1>1, <2>1, FS_Subset, FS_CardinalityType
<1>3. ASSUME NEW n \in S
      PROVE  Cardinality(B(n)) \in 1 .. Cardinality(S)
  <2>0. n \in Nat
    OBVIOUS
  <2>1. n \in Nat /\ n \in B(n)
    BY <2>0
  <2>2. Cardinality(B(n)) # 0
    <3> HIDE DEF B
    <3> QED BY <1>2, <2>1, FS_EmptySet
  <2> HIDE DEF B
  <2> QED BY <1>1, <1>2, <2>1, <2>2
<1>4. ASSUME NEW i \in S, NEW j \in S, i < j
      PROVE  Cardinality(B(i)) < Cardinality(B(j))
  <2>1. i \in Nat /\ j \in Nat /\ B(i) \subseteq B(j) \ {j} /\ j \in B(j)
    <3>1. i \in Nat /\ j \in Nat /\ j <= j /\ \A m \in S : m <= i => m <= j /\ m # j
      BY <1>4, <1>s
    <3> QED BY <3>1, Zenon
  <2> HIDE DEF B
  <2>2. IsFiniteSet(B(j)) /\ Cardinality(B(j) \ {j}) = Cardinality(B(j)) - 1 /\ IsFiniteSet(B(j) \ {j})
    BY <1>2, <2>1, FS_RemoveElement
  <2>3. Cardinality(B(i)) <= Cardinality(B(j) \ {j})
    BY <2>1, <2>2, FS_Subset
  <2> QED BY <1>2, <2>1, <2>2, <2>3
<1>5. \A i, j \in S : Cardinality(B(i)) = Cardinality(B(j)) => i = j
  <2> SUFFICES ASSUME NEW i \in S, NEW j \in S, Cardinality(B(i)) = Cardinality(B(j)), i # j
               PROVE  FALSE
    OBVIOUS
  <2>1. i \in Nat /\ j \in Nat /\ (i < j \/ j < i)
    OBVIOUS
  <2>2. Cardinality(B(i)) \in Nat
    <3> HIDE DEF B
    <3> QED BY <1>2, <2>1
  <2> HIDE DEF B
  <2> QED BY <1>4, <2>1, <2>2
<1>6. \A n \in S : Rank(S, n) = Cardinality(B(n))
  BY DEF Rank
<1> HIDE DEF B
<1> QED BY <1>3, <1>5, <1>6

\* The positions of what was picked.
PicksAt(got, list, S, c, at) ==
    /\ \A k \in 1..c : got[k] = list[at[k]]
    /\ \A j, k \in 1..c : at[j] = at[k] => j = k
    /\ \A n \in S : \E k \in 1..c : at[k] = n

\* What is picked from a list: the element at each position, once.
LEMMA PickedFacts ==
    ASSUME NEW list, IsSeq(list), NEW S \in SUBSET DOMAIN list
    PROVE  /\ Cardinality(S) \in Nat /\ Cardinality(S) <= Len(list) /\ IsFiniteSet(S)
           /\ IsSeq(Picked(list, S)) /\ Len(Picked(list, S)) = Cardinality(S)
           /\ DOMAIN Picked(list, S) = 1 .. Cardinality(S)
           /\ \E at : at \in [1 .. Cardinality(S) -> S] /\ PicksAt(Picked(list, S), list, S, Cardinality(S), at)
<1>1. PICK N \in Nat : N = Len(list) /\ DOMAIN list = 1..N
  BY SeqIs
<1>2. S \in SUBSET (1..N)
  BY <1>1
<1>3. IsFiniteSet(S) /\ Cardinality(S) \in Nat /\ Cardinality(S) <= N
  <2>1. IsFiniteSet(1..N) /\ Cardinality(1..N) = N
    <3>1. PICK a \in Int, b \in Int : a = 1 /\ b = N
      BY <1>1
    <3>2. IsFiniteSet(a..b) /\ Cardinality(a..b) = IF a > b THEN 0 ELSE b - a + 1
      BY FS_Interval
    <3> QED BY <3>1, <3>2
  <2> QED BY <1>2, <2>1, FS_Subset, FS_CardinalityType
<1>4. PICK c \in Nat : c = Cardinality(S)
  BY <1>3
<1>5. PICK at : at = [k \in 1..c |-> CHOOSE n \in S : Rank(S, n) = k]
  OBVIOUS
<1>6. \A k \in 1..c : at[k] \in S /\ Rank(S, at[k]) = k
  <2> SUFFICES ASSUME NEW k \in 1..c
               PROVE  at[k] \in S /\ Rank(S, at[k]) = k
    OBVIOUS
  <2>1. \E n \in S : Rank(S, n) = k
    BY <1>2, <1>4, RankHit
  <2>2. at[k] = CHOOSE n \in S : Rank(S, n) = k
    BY <1>5
  <2> QED BY <2>1, <2>2
<1>7. at \in [1..c -> S]
  BY <1>5, <1>6
<1>8. \A j, k \in 1..c : at[j] = at[k] => j = k
  BY <1>6
<1>9. \A n \in S : \E k \in 1..c : at[k] = n
  <2> SUFFICES ASSUME NEW n \in S
               PROVE  \E k \in 1..c : at[k] = n
    OBVIOUS
  <2>1. Rank(S, n) \in 1..c
    BY <1>2, <1>4, RankGrows
  <2>2. at[Rank(S, n)] \in S /\ Rank(S, at[Rank(S, n)]) = Rank(S, n)
    BY <1>6, <2>1
  <2>3. at[Rank(S, n)] = n
    BY <1>2, <2>2, RankGrows
  <2> QED BY <2>1, <2>3
<1>10. PICK got : got = Picked(list, S)
  OBVIOUS
<1>11. got = [k \in 1..c |-> list[CHOOSE n \in S : Rank(S, n) = k]]
  BY <1>4, <1>10, Zenon DEF Picked, Rank
<1>12. \A k \in 1..c : got[k] = list[at[k]]
  BY <1>5, <1>11
<1>13. got \in [1..c -> Elements(list)]
  BY <1>2, <1>6, <1>11, <1>12, <1>1 DEF Elements
<1>14. IsSeq(got) /\ Len(got) = c /\ DOMAIN got = 1..c
  BY <1>13, SeqFrom
<1>15. PicksAt(got, list, S, c, at)
  BY <1>8, <1>9, <1>12 DEF PicksAt
<1>16. \E a : a \in [1..c -> S] /\ PicksAt(got, list, S, c, a)
  BY <1>7, <1>15
<1> QED BY <1>1, <1>3, <1>4, <1>10, <1>14, <1>16

\* Where it was picked.
LEMMA PickedAt ==
    ASSUME NEW list, IsSeq(list), NEW S \in SUBSET DOMAIN list
    PROVE  \E at : at \in [1 .. Cardinality(S) -> S] /\ PicksAt(Picked(list, S), list, S, Cardinality(S), at)
BY PickedFacts, Zenon

\* What was picked is from the list.
LEMMA PickedFrom ==
    ASSUME NEW list, IsSeq(list), NEW S \in SUBSET DOMAIN list
    PROVE  \A k \in DOMAIN Picked(list, S) : \E n \in S : Picked(list, S)[k] = list[n]
<1>1. PICK c, u : c = Cardinality(S) /\ u = Picked(list, S)
  OBVIOUS
<1>2. PICK at : at \in [1..c -> S] /\ PicksAt(u, list, S, c, at)
  BY <1>1, PickedAt, Zenon
<1>3. DOMAIN u = 1..c
  BY <1>1, PickedFacts
<1>4. \A k \in 1..c : at[k] \in S /\ u[k] = list[at[k]]
  BY <1>2 DEF PicksAt
<1> QED BY <1>1, <1>3, <1>4

\* How many of a list of times are later than t.
After(s, t) == Cardinality({j \in DOMAIN s : s[j] > t})

\* Appending one adds it where it is later.
LEMMA AfterAppend ==
    ASSUME NEW s, IsSeq(s), NEW e \in Int, NEW t \in Int, \A j \in DOMAIN s : s[j] \in Int
    PROVE  /\ After(s, t) \in Nat
           /\ After(Append(s, e), t) = IF e > t THEN After(s, t) + 1 ELSE After(s, t)
<1>1. PICK n \in Nat : n = Len(s) /\ DOMAIN s = 1..n
  BY SeqIs
<1>2. PICK u : u = Append(s, e)
  OBVIOUS
<1>3. DOMAIN u = 1 .. n + 1 /\ (\A i \in 1..n : u[i] = s[i]) /\ u[n + 1] = e
  BY <1>1, <1>2, SeqApp
<1>4. PICK A : A = {j \in 1..n : s[j] > t}
  OBVIOUS
<1>5. IsFiniteSet(A) /\ Cardinality(A) \in Nat /\ n + 1 \notin A
  <2>1. IsFiniteSet(1..n) /\ A \in SUBSET (1..n) /\ n + 1 \notin 1..n
    BY <1>4, UptoFinite
  <2> QED BY <2>1, FS_Subset, FS_CardinalityType
<1>6. {j \in 1 .. n + 1 : u[j] > t} = IF e > t THEN A \cup {n + 1} ELSE A
  <2>1. \A j \in 1 .. n + 1 : j \in 1..n \/ j = n + 1
    OBVIOUS
  <2>2. \A j \in 1..n : j \in 1 .. n + 1
    OBVIOUS
  <2>3. n + 1 \in 1 .. n + 1 /\ n + 1 \notin 1..n
    OBVIOUS
  <2>4. \A j : (j \in 1 .. n + 1 /\ u[j] > t) <=> (j \in A \/ (j = n + 1 /\ e > t))
    BY <1>3, <1>4, <2>1, <2>2, <2>3, Zenon
  <2>5. CASE e > t
    BY <2>4, <2>5, Zenon
  <2>6. CASE ~(e > t)
    BY <2>4, <2>6, Zenon
  <2> QED BY <2>5, <2>6
<1>7. After(s, t) = Cardinality(A)
  BY <1>1, <1>4 DEF After
<1>8. After(u, t) = Cardinality({j \in 1 .. n + 1 : u[j] > t})
  BY <1>3 DEF After
<1>9. e > t => Cardinality(A \cup {n + 1}) = Cardinality(A) + 1
  BY <1>5, FS_AddElement
<1> QED BY <1>2, <1>5, <1>6, <1>7, <1>8, <1>9

\* A list that keeps what is later than a time has as many that are later than another.
LEMMA AfterPicked ==
    ASSUME NEW s, IsSeq(s), NEW low \in Int, NEW t \in Int, low <= t, \A j \in DOMAIN s : s[j] \in Int,
           NEW S, S = {i \in DOMAIN s : s[i] > low}
    PROVE  After(Picked(s, S), t) = After(s, t)
<1>1. S \in SUBSET DOMAIN s
  OBVIOUS
<1>2. PICK c, u : c = Cardinality(S) /\ u = Picked(s, S)
  OBVIOUS
<1>3. PICK at : at \in [1..c -> S] /\ PicksAt(u, s, S, c, at)
  BY <1>1, <1>2, PickedAt, Zenon
<1>30. /\ \A k \in 1..c : u[k] = s[at[k]]
       /\ \A j, k \in 1..c : at[j] = at[k] => j = k
       /\ \A n \in S : \E k \in 1..c : at[k] = n
  BY <1>3, Zenon DEF PicksAt
<1>4. c \in Nat /\ DOMAIN u = 1..c
  BY <1>1, <1>2, PickedFacts
<1>5. PICK A : A = {k \in 1..c : u[k] > t}
  OBVIOUS
<1>6. PICK B : B = {i \in DOMAIN s : s[i] > t}
  OBVIOUS
<1>7. PICK f : f = [k \in A |-> at[k]]
  OBVIOUS
<1>8. \A k \in A : k \in 1..c /\ f[k] = at[k] /\ at[k] \in S /\ u[k] = s[at[k]] /\ u[k] > t
  BY <1>3, <1>30, <1>5, <1>7
<1>9. f \in [A -> B]
  <2>1. \A k \in A : at[k] \in B
    BY <1>1, <1>6, <1>8
  <2> QED BY <1>7, <2>1
<1>10. \A j, k \in A : f[j] = f[k] => j = k
  BY <1>30, <1>8
<1>11. \A y \in B : \E k \in A : f[k] = y
  <2> SUFFICES ASSUME NEW y \in B
               PROVE  \E k \in A : f[k] = y
    OBVIOUS
  <2>1. y \in DOMAIN s /\ s[y] \in Int /\ s[y] > t
    BY <1>6
  <2>2. y \in S
    BY <2>1
  <2>3. PICK k \in 1..c : at[k] = y
    BY <1>30, <2>2
  <2>4. k \in A
    BY <1>30, <1>5, <2>1, <2>3
  <2> QED BY <1>8, <2>3, <2>4
<1>12. IsFiniteSet(A)
  <2>1. IsFiniteSet(1..c)
    BY <1>4, UptoFinite
  <2> QED BY <1>5, <2>1, FS_Subset
<1>13. Cardinality(B) = Cardinality(A)
  BY <1>9, <1>10, <1>11, <1>12, SameSize
<1>14. After(u, t) = Cardinality(A) /\ After(s, t) = Cardinality(B)
  BY <1>4, <1>5, <1>6 DEF After
<1> QED BY <1>2, <1>13, <1>14

\* Generations that were admitted are among the calls of the window, and in no window
\* are there more than allowed.
CallsOK ==
    /\ minute \in Nat /\ IsSeq(calls) /\ IsSeq(admitted)
    /\ \A i \in DOMAIN calls : calls[i] \in 0..minute
    /\ \A i \in DOMAIN admitted : admitted[i] \in 0..minute
    /\ \A t \in Int : t >= minute - Window => After(admitted, t) <= After(calls, t)
    /\ \A i \in DOMAIN admitted :
         Cardinality({j \in 1..i : admitted[j] > admitted[i] - Window}) <= MaxCalls

\* The limiter keeps this.
LEMMA AllowCalls ==
    ASSUME CallsOK, NEW path, NEW mode, Allow(path, mode)
    PROVE  CallsOK'
<1>1. Window \in Nat /\ MaxCalls \in Nat /\ minute \in Nat /\ minute' = minute
  BY GenerationAssumption DEF Allow, CallsOK
<1>2. PICK low \in Int : low = minute - Window
  BY <1>1
<1>3. PICK S : S = {i \in DOMAIN calls : calls[i] > low}
  OBVIOUS
<1>4. PICK u : u = Picked(calls, S)
  OBVIOUS
<1>5. Recent = u
  BY <1>2, <1>3, <1>4 DEF Recent
<1>6. IsSeq(calls) /\ (\A i \in DOMAIN calls : calls[i] \in 0..minute) /\ S \in SUBSET DOMAIN calls
  BY <1>3 DEF CallsOK
<1>7. IsSeq(u) /\ Len(u) = Cardinality(S) /\ DOMAIN u = 1 .. Len(u) /\ Len(u) \in Nat
  BY <1>4, <1>6, PickedFacts
<1>8. \A i \in DOMAIN u : u[i] \in 0..minute
  <2>1. \A k \in DOMAIN u : \E n \in S : u[k] = calls[n]
    BY <1>4, <1>6, PickedFrom
  <2> QED BY <1>6, <2>1
<1>9. \A t \in Int : t >= low => After(u, t) = After(calls, t)
  <2> SUFFICES ASSUME NEW t \in Int, t >= low
               PROVE  After(u, t) = After(calls, t)
    OBVIOUS
  <2>1. \A j \in DOMAIN calls : calls[j] \in Int
    BY <1>1, <1>6
  <2>2. low <= t
    OBVIOUS
  <2> QED BY <1>3, <1>4, <1>6, <2>1, <2>2, AfterPicked
<1>10. After(calls, low) = Len(u)
  BY <1>3, <1>7 DEF After
<1>11. CASE calls' = u /\ admitted' = admitted
  <2>1. \A t \in Int : t >= minute - Window => After(admitted, t) <= After(u, t)
    BY <1>2, <1>9 DEF CallsOK
  <2> QED BY <1>1, <1>7, <1>8, <1>11, <2>1 DEF CallsOK
<1>12. CASE Len(u) < MaxCalls /\ calls' = Append(u, minute) /\ admitted' = Append(admitted, minute)
  <2>1. PICK v, a : v = Append(u, minute) /\ a = Append(admitted, minute)
    OBVIOUS
  <2>2. IsSeq(v) /\ DOMAIN v = 1 .. Len(u) + 1 /\ (\A i \in 1 .. Len(u) : v[i] = u[i]) /\ v[Len(u) + 1] = minute
    BY <1>7, <2>1, SeqApp
  <2>3. PICK n \in Nat : n = Len(admitted) /\ DOMAIN admitted = 1..n
    BY SeqIs DEF CallsOK
  <2>4. IsSeq(a) /\ DOMAIN a = 1 .. n + 1 /\ (\A i \in 1..n : a[i] = admitted[i]) /\ a[n + 1] = minute
    BY <2>1, <2>3, SeqApp DEF CallsOK
  <2>5. minute \in 0..minute
    BY <1>1
  <2>6. \A i \in DOMAIN v : v[i] \in 0..minute
    <3>1. \A i \in 1 .. Len(u) + 1 : i \in 1 .. Len(u) \/ i = Len(u) + 1
      BY <1>7
    <3> QED BY <1>7, <1>8, <2>2, <2>5, <3>1
  <2>7. \A i \in DOMAIN a : a[i] \in 0..minute
    <3>1. \A i \in 1 .. n + 1 : i \in 1..n \/ i = n + 1
      OBVIOUS
    <3> QED BY <2>3, <2>4, <2>5, <3>1 DEF CallsOK
  <2>8. \A t \in Int : t >= low => After(a, t) <= After(v, t)
    <3> SUFFICES ASSUME NEW t \in Int, t >= low
                 PROVE  After(a, t) <= After(v, t)
      OBVIOUS
    <3>1. (\A j \in DOMAIN u : u[j] \in Int) /\ (\A j \in DOMAIN admitted : admitted[j] \in Int) /\ minute \in Int
      BY <1>1, <1>8 DEF CallsOK
    <3>2. /\ After(u, t) \in Nat
          /\ After(v, t) = IF minute > t THEN After(u, t) + 1 ELSE After(u, t)
      BY <1>7, <2>1, <3>1, AfterAppend
    <3>3. /\ After(admitted, t) \in Nat
          /\ After(a, t) = IF minute > t THEN After(admitted, t) + 1 ELSE After(admitted, t)
      BY <2>1, <3>1, AfterAppend DEF CallsOK
    <3>4. After(admitted, t) <= After(u, t)
      BY <1>2, <1>9 DEF CallsOK
    <3> QED BY <3>2, <3>3, <3>4
  <2>9. ASSUME NEW i \in DOMAIN a
        PROVE  Cardinality({j \in 1..i : a[j] > a[i] - Window}) <= MaxCalls
    <3>1. CASE i \in 1..n
      <4>1. \A j \in 1..i : a[j] = admitted[j]
        BY <2>4, <3>1
      <4>2. {j \in 1..i : a[j] > a[i] - Window} = {j \in 1..i : admitted[j] > admitted[i] - Window}
        BY <2>4, <3>1, <4>1
      <4> QED BY <2>3, <3>1, <4>2 DEF CallsOK
    <3>2. CASE i = n + 1
      <4>1. {j \in 1..i : a[j] > a[i] - Window} = {j \in DOMAIN a : a[j] > low}
        BY <1>2, <2>4, <3>2
      <4>2. Cardinality({j \in 1..i : a[j] > a[i] - Window}) = After(a, low)
        BY <4>1 DEF After
      <4>3. After(a, low) <= After(v, low)
        BY <2>8
      <4>4. (\A j \in DOMAIN u : u[j] \in Int) /\ (\A j \in DOMAIN admitted : admitted[j] \in Int) /\ minute \in Int
        BY <1>1, <1>8 DEF CallsOK
      <4>5. /\ After(u, low) \in Nat
            /\ After(v, low) = IF minute > low THEN After(u, low) + 1 ELSE After(u, low)
        BY <1>7, <2>1, <4>4, AfterAppend
      <4>6. After(u, low) = Len(u)
        BY <1>9, <1>10
      <4>7. /\ After(admitted, low) \in Nat
            /\ After(a, low) = IF minute > low THEN After(admitted, low) + 1 ELSE After(admitted, low)
        BY <2>1, <4>4, AfterAppend DEF CallsOK
      <4> QED BY <1>1, <1>7, <1>12, <4>2, <4>3, <4>5, <4>6, <4>7
    <3> QED BY <2>4, <3>1, <3>2
  <2>10. calls' = v /\ admitted' = a
    BY <1>12, <2>1
  <2> QED BY <1>1, <1>2, <2>2, <2>4, <2>6, <2>7, <2>8, <2>9, <2>10 DEF CallsOK
<1> QED BY <1>5, <1>11, <1>12 DEF Allow

\* So does the clock.
LEMMA MinuteCalls ==
    ASSUME CallsOK, Minute
    PROVE  CallsOK'
<1>1. minute \in Nat /\ minute' = minute + 1 /\ UNCHANGED <<calls, admitted>> /\ Window \in Nat
  BY GenerationAssumption DEF CallsOK, Minute
<1>2. minute' \in Nat /\ \A x \in 0..minute : x \in 0..minute'
  BY <1>1
<1>3. \A t \in Int : t >= minute' - Window => After(admitted, t) <= After(calls, t)
  BY <1>1 DEF CallsOK
<1> QED BY <1>1, <1>2, <1>3 DEF CallsOK

\* A question as a model may write it.
RawQuestion == [text : STRING, type : STRING, options : Nat, index : Int, topic : Seq(STRING), words : SUBSET STRING]

\* A question that can be played, with its answer unless that may be missing.
Playable(q, allowUnknown) ==
    /\ q.text # "" /\ q.options \in LegalOptions(q.type)
    /\ InRange(q) \/ (q.index = Unknown /\ allowUnknown)

\* A valid question is made a playable one.
LEMMA DomainPlayable ==
    ASSUME NEW q \in RawQuestion, NEW allow \in BOOLEAN, Valid(q, allow)
    PROVE  Playable(Domain(q), allow)
<1>1. PICK index, type : /\ index = IF InRange(q) THEN q.index ELSE Unknown
                         /\ type = IF q.type = "" THEN "mcq" ELSE q.type
  OBVIOUS
<1>2. Domain(q) = [q EXCEPT !.index = index, !.type = type]
  BY <1>1 DEF Domain
<1>3. PICK d : d = Domain(q)
  OBVIOUS
<1>4. d.text = q.text /\ d.options = q.options /\ d.index = index /\ d.type = type
  BY <1>2, <1>3 DEF RawQuestion
<1>5. LegalOptions(type) = LegalOptions(q.type)
  BY <1>1 DEF LegalOptions
<1>6. q.text # "" /\ q.options \in LegalOptions(q.type) /\ (InRange(q) \/ allow)
  BY DEF Valid
<1>7. InRange(d) \/ (d.index = Unknown /\ allow)
  BY <1>1, <1>4, <1>6 DEF InRange
<1> QED BY <1>3, <1>4, <1>5, <1>6, <1>7 DEF Playable

\* All of a list can be played.
AllPlayable(list, allowUnknown) == IsSeq(list) /\ \A i \in DOMAIN list : Playable(list[i], allowUnknown)

\* What is accepted of an answer can be played.
LEMMA AcceptedPlayable ==
    ASSUME NEW reply \in ModelReplies, NEW allow \in BOOLEAN
    PROVE  AllPlayable(Accepted(reply.questions, allow), allow)
<1>1. PICK raw : raw = reply.questions
  OBVIOUS
<1>2. raw \in Seq(RawQuestion)
  BY <1>1, GenerationAssumption DEF RawQuestion
<1>3. IsSeq(raw) /\ \A i \in DOMAIN raw : raw[i] \in RawQuestion
  BY <1>2, SeqOfElements
<1>4. PICK S : S = {i \in DOMAIN raw : Valid(raw[i], allow)}
  OBVIOUS
<1>5. PICK valid : valid = Picked(raw, S)
  OBVIOUS
<1>6. Accepted(raw, allow) = [i \in DOMAIN valid |-> Domain(valid[i])]
  BY <1>4, <1>5 DEF Accepted
<1>7. PICK n \in Nat : DOMAIN valid = 1..n
  BY <1>3, <1>4, <1>5, PickedFacts
<1>8. \A k \in 1..n : \E m \in S : valid[k] = raw[m]
  <2>1. S \in SUBSET DOMAIN raw
    BY <1>4
  <2>2. \A k \in DOMAIN Picked(raw, S) : \E m \in S : Picked(raw, S)[k] = raw[m]
    BY <1>3, <2>1, PickedFrom
  <2> QED BY <1>5, <1>7, <2>2
<1>9. \A k \in 1..n : Playable(Domain(valid[k]), allow)
  BY <1>3, <1>4, <1>8, DomainPlayable
<1>10. PICK got : got = [i \in 1..n |-> Domain(valid[i])]
  OBVIOUS
<1>11. got \in [1..n -> {Domain(valid[i]) : i \in 1..n}]
  BY <1>10
<1>12. IsSeq(got) /\ DOMAIN got = 1..n
  BY <1>11, SeqFrom
<1> QED BY <1>1, <1>6, <1>7, <1>9, <1>10, <1>12 DEF AllPlayable

\* So does what is grounded.
LEMMA FilterPlayable ==
    ASSUME NEW list, NEW allow, AllPlayable(list, allow), NEW summary
    PROVE  AllPlayable(FilterPageGroundedQuestions(list, summary), allow)
<1>1. PICK S : S = {i \in DOMAIN list : Related(list[i], list, summary)}
  OBVIOUS
<1>2. PICK got : got = Picked(list, S)
  OBVIOUS
<1>3. IsSeq(got) /\ \A k \in DOMAIN got : \E n \in S : got[k] = list[n]
  <2>1. S \in SUBSET DOMAIN list /\ IsSeq(list)
    BY <1>1 DEF AllPlayable
  <2>2. IsSeq(Picked(list, S))
    BY <2>1, PickedFacts
  <2>3. \A k \in DOMAIN Picked(list, S) : \E n \in S : Picked(list, S)[k] = list[n]
    BY <2>1, PickedFrom
  <2> QED BY <1>2, <2>2, <2>3
<1> QED BY <1>1, <1>2, <1>3 DEF AllPlayable, FilterPageGroundedQuestions

\* A list of questions marked as related to the page or not.
Marked(list, is) == [i \in DOMAIN list |-> [q |-> list[i], related |-> is]]
\* Marked questions of a mode, off-page ones only where an answer must be chosen.
GroundedOK(list, mode) ==
    /\ IsSeq(list)
    /\ \A i \in DOMAIN list :
         /\ Playable(list[i].q, Extracts(mode))
         /\ list[i].related \in BOOLEAN
         /\ ~list[i].related => ~Extracts(mode)

\* Marking questions makes a grounded list of them.
LEMMA MarkedOK ==
    ASSUME NEW mode, NEW list, AllPlayable(list, Extracts(mode)), NEW is \in BOOLEAN, ~is => ~Extracts(mode)
    PROVE  GroundedOK(Marked(list, is), mode)
<1>1. PICK n \in Nat : DOMAIN list = 1..n
  BY SeqIs DEF AllPlayable
<1>2. PICK got : got = [i \in 1..n |-> [q |-> list[i], related |-> is]]
  OBVIOUS
<1>3. \A i \in 1..n : got[i].q = list[i] /\ got[i].related = is
  BY <1>2
<1>4. got \in [1..n -> {[q |-> list[i], related |-> is] : i \in 1..n}]
  BY <1>2
<1>5. IsSeq(got) /\ DOMAIN got = 1..n
  BY <1>4, SeqFrom
<1>6. Marked(list, is) = got
  BY <1>1, <1>2 DEF Marked
<1> QED BY <1>1, <1>3, <1>5, <1>6 DEF GroundedOK, AllPlayable

\* The questions of an answer that are considered.
LEMMA GroundedFacts ==
    ASSUME NEW reply \in ModelReplies
    PROVE  GroundedOK(Grounded(reply), scan.mode)
<1>1. PICK mode : mode = scan.mode
  OBVIOUS
<1>2. Extracts(mode) \in BOOLEAN
  BY DEF Extracts
<1>3. PICK parsed : parsed = Accepted(reply.questions, Extracts(mode))
  OBVIOUS
<1>4. PICK related : related = FilterPageGroundedQuestions(parsed, reply.summary)
  OBVIOUS
<1>5. AllPlayable(parsed, Extracts(mode))
  BY <1>2, <1>3, AcceptedPlayable
<1>6. AllPlayable(related, Extracts(mode))
  BY <1>4, <1>5, FilterPlayable
<1>7. Grounded(reply) = IF Extracts(mode) \/ related # <<>> \/ parsed = <<>>
                        THEN Marked(IF Extracts(mode) THEN parsed ELSE related, TRUE)
                        ELSE Marked(parsed, FALSE)
  BY <1>1, <1>3, <1>4, Zenon DEF Grounded, Marked
<1>8. GroundedOK(Marked(parsed, TRUE), mode) /\ GroundedOK(Marked(related, TRUE), mode)
  BY <1>5, <1>6, MarkedOK
<1>9. ~Extracts(mode) => GroundedOK(Marked(parsed, FALSE), mode)
  BY <1>5, MarkedOK
<1> QED BY <1>1, <1>7, <1>8, <1>9

\* No text twice.
Distinct(list) == \A i, j \in DOMAIN list : list[i].text = list[j].text => i = j

\* A quiz asks for at least one question.
LEMMA TargetIs ==
    /\ overallTarget \in Nat \ {0}
    /\ overallTarget = Min({PerPage * NImages, MaxQuestions})
<1>1. PerPage \in Nat \ {0} /\ NImages \in Nat \ {0} /\ MaxQuestions \in Nat \ {0}
  BY GenerationAssumption
<1>2. PICK a \in Nat \ {0} : a = PerPage * NImages
  <2>1. PICK x \in Nat \ {0}, y \in Nat \ {0} : x = PerPage /\ y = NImages
    BY <1>1
  <2>2. x * y \in Nat /\ x * y >= 1
    <3>1. x * y >= 1 * y
      BY <2>1
    <3> QED BY <2>1, <3>1
  <2> QED BY <2>1, <2>2
<1>3. PICK m : m = Min({a, MaxQuestions})
  OBVIOUS
<1>4. m \in Nat \ {0}
  <2>1. m \in {a, MaxQuestions}
    BY <1>1, <1>3, TwoLeast
  <2> QED BY <1>1, <2>1
<1>5. PICK t : t = Max({1, m})
  OBVIOUS
<1>6. t \in {1, m} /\ t >= 1 /\ t >= m
  BY <1>4, <1>5, TwoMost
<1>7. t = m
  BY <1>4, <1>6
<1> QED BY <1>2, <1>3, <1>4, <1>5, <1>7 DEF overallTarget

\* Merging keeps to the target and to one question of a text.
LEMMA MergedFacts ==
    ASSUME NEW out, IsSeq(out), Distinct(out), Len(out) <= overallTarget,
           NEW parsed, IsSeq(parsed)
    PROVE  /\ IsSeq(Merged(out, parsed)) /\ Distinct(Merged(out, parsed))
           /\ Len(Merged(out, parsed)) <= overallTarget
           /\ \A i \in DOMAIN Merged(out, parsed) :
                \/ \E j \in DOMAIN out : Merged(out, parsed)[i] = out[j]
                \/ \E j \in DOMAIN parsed : Merged(out, parsed)[i] = parsed[j]
<1>1. PICK a \in Nat : a = Len(out) /\ DOMAIN out = 1..a
  BY SeqIs
<1>2. PICK b \in Nat : b = Len(parsed) /\ DOMAIN parsed = 1..b
  BY SeqIs
<1>3. PICK S : S = {n \in DOMAIN parsed : /\ \A m \in 1 .. n - 1 : parsed[m].text # parsed[n].text
                                          /\ \A i \in DOMAIN out : out[i].text # parsed[n].text}
  OBVIOUS
<1>4. PICK new, c : new = Picked(parsed, S) /\ c = Cardinality(S)
  OBVIOUS
<1>5. S \in SUBSET DOMAIN parsed
  BY <1>3
<1>6. c \in Nat /\ IsSeq(new) /\ Len(new) = c /\ DOMAIN new = 1..c
  BY <1>4, <1>5, PickedFacts
<1>7. PICK at : at \in [1..c -> S] /\ PicksAt(new, parsed, S, c, at)
  BY <1>4, <1>5, PickedAt, Zenon
<1>8. \A k \in 1..c : at[k] \in 1..b /\ at[k] \in S /\ new[k] = parsed[at[k]]
  BY <1>2, <1>5, <1>7 DEF PicksAt
<1>9. \A j, k \in 1..c : at[j] = at[k] => j = k
  BY <1>7, Zenon DEF PicksAt
<1>10. PICK t \in Nat : t = overallTarget
  BY TargetIs
<1>11. PICK m : m = Min({c, t - a})
  OBVIOUS
<1>12. m \in Nat /\ m <= c /\ a + m <= t
  <2>1. PICK d \in Nat : d = t - a
    BY <1>1, <1>10
  <2>2. m \in {c, d} /\ m <= c /\ m <= d
    <3>1. m = Min({c, d})
      BY <1>11, <2>1
    <3>2. c \in Int /\ d \in Int
      BY <1>6, <2>1
    <3>3. Min({c, d}) \in {c, d} /\ Min({c, d}) <= c /\ Min({c, d}) <= d
      BY <3>2, TwoLeast, Zenon
    <3> QED BY <3>1, <3>3
  <2> QED BY <1>1, <1>6, <1>10, <2>1, <2>2
<1>13. PICK cut : cut = SubSeq(new, 1, m)
  OBVIOUS
<1>14. IsSeq(cut) /\ Len(cut) = m /\ DOMAIN cut = 1..m /\ \A k \in 1..m : cut[k] = new[k]
  <2>1. new \in Seq(Elements(new))
    BY <1>6 DEF IsSeq
  <2>2. PICK E : E = Elements(new)
    OBVIOUS
  <2>3. cut \in Seq(E) /\ Len(cut) = m /\ \A k \in 1..m : cut[k] = new[k]
    BY <1>6, <1>12, <1>13, <2>1, <2>2
  <2>4. IsSeq(cut)
    BY <2>3, SeqOfElements
  <2> QED BY <2>3, <2>4, SeqIs
<1>15. PICK all : all = out \o cut
  OBVIOUS
<1>16. /\ IsSeq(all) /\ Len(all) = a + m /\ DOMAIN all = 1 .. a + m
       /\ \A i \in 1..a : all[i] = out[i]
       /\ \A k \in 1..m : all[a + k] = new[k]
  <2>1. IsSeq(all) /\ Len(all) = a + m
    BY <1>1, <1>14, <1>15, SeqConcat
  <2>2. PICK E : E = Elements(out) \cup Elements(cut)
    OBVIOUS
  <2>3. out \in Seq(E) /\ cut \in Seq(E)
    BY <1>14, <2>2 DEF IsSeq
  <2>4. /\ \A i \in 1..a : all[i] = out[i]
        /\ \A k \in 1..m : all[a + k] = cut[k]
    BY <1>1, <1>14, <1>15, <2>3
  <2> QED BY <1>14, <2>1, <2>4, SeqIs
<1>17. Merged(out, parsed) = all
  <2>1. Merged(out, parsed) = out \o SubSeq(Picked(parsed, S), 1, Min({Len(Picked(parsed, S)), overallTarget - Len(out)}))
    BY <1>3, Zenon DEF Merged
  <2>2. Len(Picked(parsed, S)) = c /\ overallTarget - Len(out) = t - a
    BY <1>1, <1>4, <1>6, <1>10
  <2> QED BY <1>4, <1>11, <1>13, <1>15, <2>1, <2>2, Zenon
<1>18. \A i \in 1 .. a + m : i \in 1..a \/ \E k \in 1..m : i = a + k
  <2> SUFFICES ASSUME NEW i \in 1 .. a + m, i \notin 1..a
               PROVE  \E k \in 1..m : i = a + k
    OBVIOUS
  <2>1. i - a \in 1..m /\ i = a + (i - a)
    BY <1>1, <1>12
  <2> QED BY <2>1
<1>19. \A k \in 1..m : k \in 1..c
  BY <1>6, <1>12
<1>20. \A i \in 1..a, k \in 1..c : out[i].text # new[k].text
  <2>1. \A n \in S : \A i \in 1..a : out[i].text # parsed[n].text
    BY <1>1, <1>3, Zenon
  <2> QED BY <1>8, <2>1, Zenon
<1>21. \A j, k \in 1..c : new[j].text = new[k].text => j = k
  <2> SUFFICES ASSUME NEW j \in 1..c, NEW k \in 1..c, new[j].text = new[k].text
               PROVE  j = k
    OBVIOUS
  <2>1. ~(at[j] < at[k]) /\ ~(at[k] < at[j])
    <3>1. \A x, y \in S : x < y => parsed[x].text # parsed[y].text
      <4>1. \A x, y \in 1..b : x < y => x \in 1 .. y - 1
        OBVIOUS
      <4> QED BY <1>2, <1>3, <4>1
    <3> QED BY <1>8, <3>1
  <2>2. at[j] = at[k]
    BY <1>8, <2>1
  <2> QED BY <1>9, <2>2
<1>22. Distinct(all)
  <2> SUFFICES ASSUME NEW i \in 1 .. a + m, NEW j \in 1 .. a + m, all[i].text = all[j].text
               PROVE  i = j
    BY <1>16 DEF Distinct
  <2>1. CASE i \in 1..a /\ j \in 1..a
    BY <1>1, <1>16, <2>1 DEF Distinct
  <2>2. ASSUME NEW k \in 1..m, i = a + k, j \in 1..a
        PROVE  FALSE
    BY <1>16, <1>19, <1>20, <2>2
  <2>3. ASSUME NEW k \in 1..m, j = a + k, i \in 1..a
        PROVE  FALSE
    BY <1>16, <1>19, <1>20, <2>3
  <2>4. ASSUME NEW k \in 1..m, NEW l \in 1..m, i = a + k, j = a + l
        PROVE  i = j
    BY <1>16, <1>19, <1>21, <2>4
  <2> QED BY <1>18, <2>1, <2>2, <2>3, <2>4
<1>23. \A i \in 1 .. a + m : (\E j \in DOMAIN out : all[i] = out[j]) \/ (\E j \in DOMAIN parsed : all[i] = parsed[j])
  <2> SUFFICES ASSUME NEW i \in 1 .. a + m
               PROVE  (\E j \in DOMAIN out : all[i] = out[j]) \/ (\E j \in DOMAIN parsed : all[i] = parsed[j])
    OBVIOUS
  <2>1. CASE i \in 1..a
    BY <1>1, <1>16, <2>1
  <2>2. ASSUME NEW k \in 1..m, i = a + k
        PROVE  \E j \in DOMAIN parsed : all[i] = parsed[j]
    <3>1. all[i] = new[k] /\ k \in 1..c
      BY <1>16, <1>19, <2>2
    <3>2. at[k] \in DOMAIN parsed /\ all[i] = parsed[at[k]]
      BY <1>2, <1>8, <3>1
    <3> QED BY <3>2
  <2> QED BY <1>18, <2>1, <2>2
<1> QED BY <1>10, <1>12, <1>16, <1>17, <1>22, <1>23

\* A generation has its columns.
ShapedScan(s) ==
    s \in [path : {"vision", "text"}, mode : {"chapter", "existing"}, start : Nat, attempt : 0..1,
           provider : {"gemini", "openai"}, round : 0..1, out : {s.out}, readable : BOOLEAN, asked : Nat,
           result : {"none", "running", "done", "failed", "unreadable", "requeued"}]

\* A question that was kept.
KeptQuestion(q, path, mode) ==
    /\ Playable(q, path = "vision" /\ Extracts(mode))
    /\ ~q.related => q.attempt = 1 /\ ~Extracts(mode)

\* All questions were kept as they should be.
KeptOK(s) == IsSeq(s.out) /\ \A i \in DOMAIN s.out : KeptQuestion(s.out[i], s.path, s.mode)

\* What a vision generation has after some batches: two calls for each of them, and one
\* more while a batch is asked for again.
VisionOK(s) == s.path = "vision" =>
    /\ Distinct(s.out) /\ Len(s.out) <= overallTarget
    /\ s.result = "done" => s.out # <<>>
    /\ s.result = "running" => s.start < NImages /\ Len(s.out) < overallTarget
    /\ s.start < NImages + PagesPerBatch
    /\ \E batch \in Nat : s.start = batch * PagesPerBatch
         /\ s.asked <= 2 * batch + (IF s.result = "running" THEN s.attempt ELSE 0)

\* How many calls a text generation has behind it: two for each provider and round.
CallsBehind(s) ==
    IF HasFallback THEN 4 * s.round + (IF s.provider = "openai" THEN 2 ELSE 0) + s.attempt
    ELSE 2 * s.round + s.attempt

\* What a text generation has, and how often it has asked.
TextOK(s) == s.path = "text" =>
    /\ s.start = 0
    /\ s.result = "done" => Len(s.out) = Mix[s.mode]
    /\ ~HasFallback => s.provider = "gemini"
    /\ s.asked <= IF s.result = "running" THEN CallsBehind(s) ELSE IF HasFallback THEN 8 ELSE 4

\* What holds of a generation.
ScanOK(s) == ShapedScan(s) /\ KeptOK(s) /\ VisionOK(s) /\ TextOK(s)

\* The inductive invariant of generations.
GenerationInv == ScanOK(scan) /\ CallsOK

\* A batch that is done is followed by the next one, or by the verdict.
LEMMA NextBatchOK ==
    ASSUME NEW s, ShapedScan(s), KeptOK(s), s.path = "vision", s.result = "running",
           s.start < NImages, Distinct(s.out), Len(s.out) <= overallTarget,
           NEW batch \in Nat, s.start = batch * PagesPerBatch, s.asked <= 2 * batch + 2
    PROVE  ScanOK(NextBatch(s))
<1>1. NImages \in Nat \ {0} /\ PagesPerBatch \in Nat \ {0}
  BY GenerationAssumption
<1>2. PICK moved : moved = [s EXCEPT !.start = @ + PagesPerBatch, !.attempt = 0]
  OBVIOUS
<1>3. PICK start : start = s.start + PagesPerBatch
  OBVIOUS
<1>4. s.start \in Nat /\ start \in Nat
  BY <1>1, <1>3 DEF ShapedScan
<1>5. moved = [s EXCEPT !.start = start, !.attempt = 0]
  BY <1>2, <1>3
<1>6. /\ moved.path = "vision" /\ moved.mode = s.mode /\ moved.start = start /\ moved.attempt = 0
      /\ moved.out = s.out /\ moved.asked = s.asked /\ moved.result = "running" /\ moved.readable = s.readable
  BY <1>5 DEF ShapedScan
<1>7. ShapedScan(moved)
  <2>1. moved \in [path : {"vision", "text"}, mode : {"chapter", "existing"}, start : Nat, attempt : 0..1,
           provider : {"gemini", "openai"}, round : 0..1, out : {s.out}, readable : BOOLEAN, asked : Nat,
           result : {"none", "running", "done", "failed", "unreadable", "requeued"}]
    <3>1. 0 \in 0..1
      OBVIOUS
    <3> QED BY <1>4, <1>5, <3>1, Zenon DEF ShapedScan
  <2> QED BY <1>6, <2>1 DEF ShapedScan
<1>8. KeptOK(moved)
  BY <1>6 DEF KeptOK
<1>9. start = (batch + 1) * PagesPerBatch /\ start < NImages + PagesPerBatch
  <2>1. PICK p \in Nat : p = PagesPerBatch
    BY <1>1
  <2>2. (batch + 1) * p = batch * p + p
    BY <2>1
  <2> QED BY <1>1, <1>3, <1>4, <2>1, <2>2
<1>10. s.asked <= 2 * (batch + 1) /\ batch + 1 \in Nat /\ s.asked \in Nat
  BY DEF ShapedScan
<1>11. CASE start < NImages /\ Len(s.out) < overallTarget
  <2>1. NextBatch(s) = moved
    BY <1>2, <1>6, <1>11 DEF NextBatch
  <2>2. VisionOK(moved)
    <3>1. \E b \in Nat : moved.start = b * PagesPerBatch /\ moved.asked <= 2 * b + (IF moved.result = "running" THEN moved.attempt ELSE 0)
      BY <1>6, <1>9, <1>10
    <3> QED BY <1>6, <1>9, <1>11, <3>1 DEF VisionOK
  <2>3. TextOK(moved)
    BY <1>6 DEF TextOK
  <2> QED BY <1>7, <1>8, <2>1, <2>2, <2>3 DEF ScanOK
<1>12. CASE ~(start < NImages /\ Len(s.out) < overallTarget)
  <2>1. PICK last : last = [moved EXCEPT !.result = Verdict(moved)]
    OBVIOUS
  <2>2. NextBatch(s) = last
    BY <1>2, <1>6, <1>12, <2>1 DEF NextBatch
  <2>3. PICK verdict : verdict = Verdict(moved)
    OBVIOUS
  <2>4. verdict \in {"done", "unreadable", "failed"} /\ (verdict = "done" => s.out # <<>>)
    BY <1>6, <2>3 DEF Verdict
  <2>5. /\ last.path = "vision" /\ last.mode = s.mode /\ last.start = start
        /\ last.out = s.out /\ last.asked = s.asked /\ last.result = verdict
    BY <1>6, <1>7, <2>1, <2>3 DEF ShapedScan
  <2>6. ShapedScan(last)
    <3>1. last \in [path : {"vision", "text"}, mode : {"chapter", "existing"}, start : Nat, attempt : 0..1,
           provider : {"gemini", "openai"}, round : 0..1, out : {moved.out}, readable : BOOLEAN, asked : Nat,
           result : {"none", "running", "done", "failed", "unreadable", "requeued"}]
      BY <1>7, <2>1, <2>3, <2>4 DEF ShapedScan
    <3> QED BY <1>6, <2>5, <3>1 DEF ShapedScan
  <2>7. KeptOK(last)
    BY <2>5 DEF KeptOK
  <2>8. VisionOK(last)
    <3>1. \E b \in Nat : last.start = b * PagesPerBatch /\ last.asked <= 2 * b + (IF last.result = "running" THEN last.attempt ELSE 0)
      BY <1>9, <1>10, <2>4, <2>5
    <3> QED BY <1>9, <2>4, <2>5, <3>1 DEF VisionOK
  <2>9. TextOK(last)
    BY <2>5 DEF TextOK
  <2> QED BY <2>2, <2>6, <2>7, <2>8, <2>9 DEF ScanOK
<1> QED BY <1>11, <1>12

\* The questions taken from an answer.
Taken(got, n, attempt) ==
    [i \in 1..n |-> [text |-> got[i].q.text, type |-> got[i].q.type, options |-> got[i].q.options,
                     index |-> got[i].q.index, related |-> got[i].related, attempt |-> attempt]]

\* The questions taken from an answer are kept as they should be.
LEMMA TakenOK ==
    ASSUME NEW mode, NEW got, GroundedOK(got, mode), NEW n \in Nat, n <= Len(got), NEW attempt \in 0..1,
           attempt = 1 \/ \A i \in DOMAIN got : got[i].related
    PROVE  /\ IsSeq(Taken(got, n, attempt))
           /\ \A i \in DOMAIN Taken(got, n, attempt) : KeptQuestion(Taken(got, n, attempt)[i], "vision", mode)
<1>1. PICK t : t = Taken(got, n, attempt)
  OBVIOUS
<1>2. \A i \in 1..n : i \in DOMAIN got
  BY SeqIs DEF GroundedOK
<1>3. PICK rec : rec = [i \in 1..n |-> [text |-> got[i].q.text, type |-> got[i].q.type, options |-> got[i].q.options,
                     index |-> got[i].q.index, related |-> got[i].related, attempt |-> attempt]]
  OBVIOUS
<1>4. t = rec
  BY <1>1, <1>3, Zenon DEF Taken
<1>5. rec \in [1..n -> {rec[i] : i \in 1..n}]
  BY <1>3
<1>6. IsSeq(rec) /\ DOMAIN rec = 1..n
  BY <1>5, SeqFrom
<1>7. ASSUME NEW i \in 1..n
      PROVE  KeptQuestion(rec[i], "vision", mode)
  <2>1. /\ rec[i].text = got[i].q.text /\ rec[i].type = got[i].q.type /\ rec[i].options = got[i].q.options
        /\ rec[i].index = got[i].q.index /\ rec[i].related = got[i].related /\ rec[i].attempt = attempt
    BY <1>3
  <2>2. Playable(got[i].q, Extracts(mode)) /\ (~got[i].related => ~Extracts(mode))
    BY <1>2 DEF GroundedOK
  <2>3. Playable(rec[i], Extracts(mode))
    BY <2>1, <2>2 DEF Playable, InRange
  <2>4. ~rec[i].related => rec[i].attempt = 1 /\ ~Extracts(mode)
    BY <1>2, <2>1, <2>2
  <2> QED BY <2>3, <2>4 DEF KeptQuestion, Playable
<1> QED BY <1>1, <1>4, <1>6, <1>7

\* A batch has room for a question.
LEMMA BatchRoom ==
    ASSUME ScanOK(scan), scan.path = "vision", scan.result = "running"
    PROVE  batchMax \in Nat
<1>1. PerPage \in Nat \ {0} /\ PagesPerBatch \in Nat \ {0} /\ NImages \in Nat \ {0}
  BY GenerationAssumption
<1>2. PICK left \in Nat : left = NImages - scan.start
  BY <1>1 DEF ScanOK, VisionOK, ShapedScan
<1>3. PICK room \in Nat : room = overallTarget - Len(scan.out)
  <2>1. Len(scan.out) \in Nat
    BY SeqIs DEF ScanOK, KeptOK
  <2> QED BY <2>1, TargetIs DEF ScanOK, VisionOK
<1>4. PICK pages \in Nat : pages = Min({PagesPerBatch, left})
  <2>1. Min({PagesPerBatch, left}) \in {PagesPerBatch, left}
    BY <1>1, TwoLeast
  <2> QED BY <1>1, <2>1
<1>5. PICK most \in Nat : most = PerPage * pages
  <2>1. PICK x \in Nat : x = PerPage
    BY <1>1
  <2> QED BY <2>1
<1>6. Min({most, room}) \in {most, room}
  BY TwoLeast
<1>7. batchMax = Min({most, room})
  BY <1>2, <1>3, <1>4, <1>5 DEF batchMax
<1> QED BY <1>6, <1>7

\* A call of the vision model keeps the invariant.
LEMMA CallVisionStep ==
    ASSUME ScanOK(scan), NEW reply \in ModelReplies, CallVision(reply)
    PROVE  ScanOK(scan')
<1>1. PICK s : s = [scan EXCEPT !.asked = @ + 1]
  OBVIOUS
<1>2. scan.path = "vision" /\ scan.result = "running" /\ ShapedScan(scan) /\ KeptOK(scan) /\ VisionOK(scan)
  BY DEF CallVision, ScanOK
<1>3. PICK asked \in Nat : asked = scan.asked + 1
  BY <1>2 DEF ShapedScan
<1>4. s = [scan EXCEPT !.asked = asked]
  BY <1>1, <1>3
<1>5. /\ s.path = "vision" /\ s.mode = scan.mode /\ s.start = scan.start /\ s.attempt = scan.attempt
      /\ s.out = scan.out /\ s.asked = asked /\ s.result = "running" /\ s.readable = scan.readable
  BY <1>2, <1>4 DEF ShapedScan
<1>6. ShapedScan(s)
  <2>1. s \in [path : {"vision", "text"}, mode : {"chapter", "existing"}, start : Nat, attempt : 0..1,
           provider : {"gemini", "openai"}, round : 0..1, out : {scan.out}, readable : BOOLEAN, asked : Nat,
           result : {"none", "running", "done", "failed", "unreadable", "requeued"}]
    BY <1>2, <1>4, Zenon DEF ShapedScan
  <2> QED BY <1>5, <2>1 DEF ShapedScan
<1>7. PICK batch \in Nat : scan.start = batch * PagesPerBatch /\ scan.asked <= 2 * batch + scan.attempt
  BY <1>2 DEF VisionOK
<1>8. scan.asked \in Nat /\ scan.attempt \in 0..1
  BY <1>2 DEF ShapedScan
<1>9. KeptOK(s)
  BY <1>2, <1>5 DEF KeptOK
<1>10. /\ Distinct(scan.out) /\ Len(scan.out) < overallTarget /\ Len(scan.out) <= overallTarget
       /\ scan.start < NImages /\ scan.start < NImages + PagesPerBatch
  <2>1. Len(scan.out) \in Nat
    BY <1>2, SeqIs DEF KeptOK
  <2> QED BY <1>2, <2>1, TargetIs DEF VisionOK
<1>11. ScanOK(NextBatch(s))
  <2>1. s.asked <= 2 * batch + 2
    BY <1>3, <1>5, <1>7, <1>8
  <2> QED BY <1>5, <1>6, <1>7, <1>9, <1>10, <2>1, NextBatchOK
<1>12. CASE scan' = NextBatch(s)
  BY <1>11, <1>12
<1>13. CASE scan.attempt = 0 /\ scan' = [s EXCEPT !.attempt = 1]
  <2>1. PICK again : again = [s EXCEPT !.attempt = 1]
    OBVIOUS
  <2>2. /\ again.path = "vision" /\ again.mode = scan.mode /\ again.start = scan.start /\ again.attempt = 1
        /\ again.out = scan.out /\ again.asked = asked /\ again.result = "running"
    BY <1>5, <1>6, <2>1 DEF ShapedScan
  <2>3. ShapedScan(again)
    <3>1. 1 \in 0..1
      OBVIOUS
    <3>2. again \in [path : {"vision", "text"}, mode : {"chapter", "existing"}, start : Nat, attempt : 0..1,
           provider : {"gemini", "openai"}, round : 0..1, out : {s.out}, readable : BOOLEAN, asked : Nat,
           result : {"none", "running", "done", "failed", "unreadable", "requeued"}]
      BY <1>6, <2>1, <3>1, Zenon DEF ShapedScan
    <3> QED BY <1>5, <2>2, <3>2 DEF ShapedScan
  <2>4. KeptOK(again)
    BY <1>2, <2>2 DEF KeptOK
  <2>5. VisionOK(again)
    <3>1. again.asked <= 2 * batch + 1
      BY <1>3, <1>7, <1>8, <1>13, <2>2
    <3> QED BY <1>7, <1>10, <2>2, <3>1 DEF VisionOK
  <2>6. TextOK(again)
    BY <2>2 DEF TextOK
  <2> QED BY <1>13, <2>1, <2>3, <2>4, <2>5, <2>6 DEF ScanOK
<1>14. PICK got : got = Grounded(reply)
  OBVIOUS
<1>15. PICK n : n = Min({Len(got), batchMax})
  OBVIOUS
<1>16. PICK taken : taken = Taken(got, n, scan.attempt)
  OBVIOUS
<1>17. CASE /\ scan.attempt = 1 \/ \A i \in DOMAIN got : got[i].related
            /\ scan' = NextBatch([s EXCEPT !.readable = TRUE, !.out = Merged(@, taken)])
  <2>1. GroundedOK(got, scan.mode)
    BY <1>14, GroundedFacts
  <2>2. Len(got) \in Nat
    BY <2>1, SeqIs DEF GroundedOK
  <2>3. n \in Nat /\ n <= Len(got)
    <3>1. batchMax \in Nat
      BY <1>2, BatchRoom
    <3>2. PICK a \in Nat, b \in Nat : a = Len(got) /\ b = batchMax
      BY <2>2, <3>1
    <3>3. Min({a, b}) \in {a, b} /\ Min({a, b}) <= a
      <4>1. a \in Int /\ b \in Int
        OBVIOUS
      <4> QED BY <4>1, TwoLeast, Zenon
    <3> QED BY <1>15, <3>2, <3>3
  <2>4. IsSeq(taken) /\ \A i \in DOMAIN taken : KeptQuestion(taken[i], "vision", scan.mode)
    BY <1>8, <1>16, <1>17, <2>1, <2>3, TakenOK
  <2>5. PICK out : out = Merged(s.out, taken)
    OBVIOUS
  <2>6. IsSeq(scan.out) /\ \A i \in DOMAIN scan.out : KeptQuestion(scan.out[i], "vision", scan.mode)
    BY <1>2 DEF KeptOK
  <2>7. /\ IsSeq(out) /\ Distinct(out) /\ Len(out) <= overallTarget
        /\ \A i \in DOMAIN out : (\E j \in DOMAIN scan.out : out[i] = scan.out[j]) \/ (\E j \in DOMAIN taken : out[i] = taken[j])
    BY <1>5, <1>10, <2>4, <2>5, <2>6, MergedFacts
  <2>8. \A i \in DOMAIN out : KeptQuestion(out[i], "vision", scan.mode)
    BY <2>4, <2>6, <2>7
  <2>9. PICK u : u = [s EXCEPT !.readable = TRUE, !.out = out]
    OBVIOUS
  <2>10. [s EXCEPT !.readable = TRUE, !.out = Merged(@, taken)] = u
    BY <2>5, <2>9
  <2>11. /\ u.path = "vision" /\ u.mode = scan.mode /\ u.start = scan.start /\ u.out = out
         /\ u.asked = asked /\ u.result = "running"
    BY <1>5, <1>6, <2>9 DEF ShapedScan
  <2>12. ShapedScan(u)
    <3>1. u \in [path : {"vision", "text"}, mode : {"chapter", "existing"}, start : Nat, attempt : 0..1,
           provider : {"gemini", "openai"}, round : 0..1, out : {out}, readable : BOOLEAN, asked : Nat,
           result : {"none", "running", "done", "failed", "unreadable", "requeued"}]
      BY <1>6, <2>9, Zenon DEF ShapedScan
    <3> QED BY <2>11, <3>1 DEF ShapedScan
  <2>13. KeptOK(u)
    BY <2>7, <2>8, <2>11 DEF KeptOK
  <2>14. u.asked <= 2 * batch + 2
    BY <1>3, <1>7, <1>8, <2>11
  <2>15. ScanOK(NextBatch(u))
    BY <1>7, <1>10, <2>7, <2>11, <2>12, <2>13, <2>14, NextBatchOK
  <2> QED BY <1>17, <2>10, <2>15
<1>18. \/ scan' = NextBatch(s)
       \/ scan.attempt = 0 /\ scan' = [s EXCEPT !.attempt = 1]
       \/ /\ scan.attempt = 1 \/ ~\E i \in DOMAIN got : ~got[i].related
          /\ scan' = NextBatch([s EXCEPT !.readable = TRUE, !.out = Merged(@, taken)])
  <2> DEFINE legible == Replied(reply) /\ ~visionResponseUnreadable(reply)
             bad == Unparsable(reply, 0, Extracts(scan.mode))
             few == Len(got) < minCount
             off == \E i \in DOMAIN got : ~got[i].related
  <2>1. \/ scan' = NextBatch(scan) /\ FALSE
        \/ ~legible /\ scan' = NextBatch(s)
        \/ legible /\ scan.attempt = 0 /\ (bad \/ few \/ off) /\ scan' = [s EXCEPT !.attempt = 1]
        \/ legible /\ scan.attempt = 1 /\ bad /\ scan' = NextBatch(s)
        \/ /\ legible /\ ~bad /\ (scan.attempt = 1 \/ ~(few \/ off))
           /\ scan' = NextBatch([s EXCEPT !.readable = TRUE, !.out = Merged(@, taken)])
    BY <1>1, <1>14, <1>15, <1>16, Zenon DEF CallVision, Taken
  <2> HIDE DEF legible, bad, few
  <2> QED BY <2>1
<1> QED BY <1>12, <1>13, <1>17, <1>18

\* A call of a text model keeps the invariant.
LEMMA CallGeneratorStep ==
    ASSUME ScanOK(scan), NEW reply \in ModelReplies, CallGenerator(reply)
    PROVE  ScanOK(scan')
<1>1. PICK s : s = [scan EXCEPT !.asked = @ + 1]
  OBVIOUS
<1>2. scan.path = "text" /\ scan.result = "running" /\ ShapedScan(scan) /\ KeptOK(scan) /\ TextOK(scan)
  BY DEF CallGenerator, ScanOK
<1>3. PICK asked \in Nat : asked = scan.asked + 1
  BY <1>2 DEF ShapedScan
<1>4. s = [scan EXCEPT !.asked = asked]
  BY <1>1, <1>3
<1>5. /\ s.path = "text" /\ s.mode = scan.mode /\ s.start = 0 /\ s.attempt = scan.attempt /\ s.round = scan.round
      /\ s.provider = scan.provider /\ s.out = scan.out /\ s.asked = asked /\ s.result = "running"
  BY <1>2, <1>4 DEF ShapedScan, TextOK
<1>6. ShapedScan(s)
  <2>1. s \in [path : {"vision", "text"}, mode : {"chapter", "existing"}, start : Nat, attempt : 0..1,
           provider : {"gemini", "openai"}, round : 0..1, out : {scan.out}, readable : BOOLEAN, asked : Nat,
           result : {"none", "running", "done", "failed", "unreadable", "requeued"}]
    BY <1>2, <1>4, Zenon DEF ShapedScan
  <2> QED BY <1>5, <2>1 DEF ShapedScan
<1>7. asked <= CallsBehind(scan) + 1 /\ scan.attempt \in 0..1 /\ scan.round \in 0..1 /\ scan.provider \in {"gemini", "openai"}
      /\ (~HasFallback => scan.provider = "gemini")
  BY <1>2, <1>3 DEF TextOK, ShapedScan, CallsBehind
<1>8. ASSUME NEW t, NEW provider \in {"gemini", "openai"}, NEW attempt \in 0..1, NEW round \in 0..1,
             NEW result \in {"running", "failed"},
             t = [s EXCEPT !.provider = provider, !.attempt = attempt, !.round = round, !.result = result],
             ~HasFallback => provider = "gemini",
             asked <= IF result = "failed" THEN IF HasFallback THEN 8 ELSE 4
                      ELSE IF HasFallback THEN 4 * round + (IF provider = "openai" THEN 2 ELSE 0) + attempt
                           ELSE 2 * round + attempt
      PROVE  ScanOK(t)
  <2>1. /\ t.path = "text" /\ t.mode = scan.mode /\ t.start = 0 /\ t.attempt = attempt /\ t.round = round
        /\ t.provider = provider /\ t.out = scan.out /\ t.asked = asked /\ t.result = result
    BY <1>5, <1>6, <1>8 DEF ShapedScan
  <2>2. ShapedScan(t)
    <3>1. t \in [path : {"vision", "text"}, mode : {"chapter", "existing"}, start : Nat, attempt : 0..1,
           provider : {"gemini", "openai"}, round : 0..1, out : {s.out}, readable : BOOLEAN, asked : Nat,
           result : {"none", "running", "done", "failed", "unreadable", "requeued"}]
      BY <1>6, <1>8, Zenon DEF ShapedScan
    <3> QED BY <1>5, <2>1, <3>1 DEF ShapedScan
  <2>3. KeptOK(t)
    BY <1>2, <2>1 DEF KeptOK
  <2>4. TextOK(t)
    BY <1>8, <2>1 DEF TextOK, CallsBehind
  <2>5. VisionOK(t)
    BY <2>1 DEF VisionOK
  <2> QED BY <2>2, <2>3, <2>4, <2>5 DEF ScanOK
<1>9. ScanOK(ProviderFails(s))
  <2>1. CASE s.provider = "gemini" /\ HasFallback
    <3>1. ProviderFails(s) = [s EXCEPT !.provider = "openai", !.attempt = 0]
      BY <2>1 DEF ProviderFails
    <3>2. ProviderFails(s) = [s EXCEPT !.provider = "openai", !.attempt = 0, !.round = scan.round, !.result = "running"]
      BY <1>5, <1>6, <3>1 DEF ShapedScan
    <3>3. asked <= 4 * scan.round + 2 + 0
      BY <1>5, <1>7, <2>1 DEF CallsBehind
    <3>4. PICK round \in 0..1 : round = scan.round
      BY <1>7
    <3>5. ProviderFails(s) = [s EXCEPT !.provider = "openai", !.attempt = 0, !.round = round, !.result = "running"]
      BY <3>2, <3>4
    <3>6. 0 \in 0..1 /\ "running" \in {"running", "failed"} /\ "running" # "failed" /\ "openai" \in {"gemini", "openai"}
      OBVIOUS
    <3>7. asked <= 4 * round + (IF "openai" = "openai" THEN 2 ELSE 0) + 0
      BY <3>3, <3>4
    <3> QED BY <1>8, <2>1, <3>5, <3>6, <3>7
  <2>2. CASE s.round = 0 /\ ~(s.provider = "gemini" /\ HasFallback)
    <3>1. ProviderFails(s) = [s EXCEPT !.provider = "gemini", !.attempt = 0, !.round = 1]
      BY <2>2 DEF ProviderFails
    <3>2. ProviderFails(s) = [s EXCEPT !.provider = "gemini", !.attempt = 0, !.round = 1, !.result = "running"]
      BY <1>5, <1>6, <3>1 DEF ShapedScan
    <3>3. asked <= IF HasFallback THEN 4 ELSE 2
      BY <1>5, <1>7, <2>2 DEF CallsBehind
    <3> QED BY <1>8, <3>2, <3>3
  <2>3. CASE s.round # 0 /\ ~(s.provider = "gemini" /\ HasFallback)
    <3>1. ProviderFails(s) = [s EXCEPT !.result = "failed"]
      BY <2>3 DEF ProviderFails
    <3>2. ProviderFails(s) = [s EXCEPT !.provider = scan.provider, !.attempt = scan.attempt, !.round = scan.round, !.result = "failed"]
      BY <1>5, <1>6, <3>1 DEF ShapedScan
    <3>3. asked <= IF HasFallback THEN 8 ELSE 4
      BY <1>5, <1>7, <2>3 DEF CallsBehind
    <3> QED BY <1>7, <1>8, <3>2, <3>3
  <2> QED BY <2>1, <2>2, <2>3
<1>10. CASE scan' = ProviderFails(s)
  BY <1>9, <1>10
<1>11. CASE scan.attempt = 0 /\ scan' = [s EXCEPT !.attempt = 1]
  <2>1. scan' = [s EXCEPT !.provider = scan.provider, !.attempt = 1, !.round = scan.round, !.result = "running"]
    BY <1>5, <1>6, <1>11 DEF ShapedScan
  <2>2. asked <= IF HasFallback THEN 4 * scan.round + (IF scan.provider = "openai" THEN 2 ELSE 0) + 1
                 ELSE 2 * scan.round + 1
    BY <1>7, <1>11 DEF CallsBehind
  <2>3. PICK provider \in {"gemini", "openai"}, round \in 0..1 : provider = scan.provider /\ round = scan.round
    BY <1>7
  <2>4. scan' = [s EXCEPT !.provider = provider, !.attempt = 1, !.round = round, !.result = "running"]
    BY <2>1, <2>3
  <2>5. 1 \in 0..1 /\ "running" \in {"running", "failed"} /\ "running" # "failed"
    OBVIOUS
  <2>6. asked <= IF HasFallback THEN 4 * round + (IF provider = "openai" THEN 2 ELSE 0) + 1
                 ELSE 2 * round + 1
    BY <2>2, <2>3
  <2>7. ~HasFallback => provider = "gemini"
    BY <1>7, <2>3
  <2> QED BY <1>8, <2>4, <2>5, <2>6, <2>7
<1>12. PICK got : got = Accepted(reply.questions, FALSE)
  OBVIOUS
<1>13. PICK out : out = [i \in DOMAIN got |->
                          [text |-> got[i].text, type |-> got[i].type, options |-> got[i].options,
                           index |-> got[i].index, related |-> TRUE, attempt |-> scan.attempt]]
  OBVIOUS
<1>14. CASE ~Unparsable(reply, Mix[scan.mode], FALSE) /\ scan' = [s EXCEPT !.result = "done", !.out = out]
  <2>1. PICK n \in Nat : n = Len(got) /\ DOMAIN got = 1..n
    BY <1>12, AcceptedPlayable, SeqIs DEF AllPlayable
  <2>2. out \in [1..n -> {out[i] : i \in 1..n}]
    BY <1>13, <2>1
  <2>3. IsSeq(out) /\ Len(out) = n /\ DOMAIN out = 1..n
    BY <2>2, SeqFrom
  <2>4. \A i \in 1..n : /\ out[i].text = got[i].text /\ out[i].type = got[i].type /\ out[i].options = got[i].options
                        /\ out[i].index = got[i].index /\ out[i].related = TRUE
    BY <1>13, <2>1
  <2>5. \A i \in 1..n : KeptQuestion(out[i], "text", scan.mode)
    <3>1. \A i \in 1..n : Playable(got[i], FALSE)
      BY <1>12, <2>1, AcceptedPlayable DEF AllPlayable
    <3> QED BY <2>4, <3>1 DEF KeptQuestion, Playable, InRange
  <2>6. n = Mix[scan.mode]
    <3>1. scan.mode \in {"chapter", "existing"} /\ Mix[scan.mode] \in Nat \ {0}
      BY <1>2, GenerationAssumption DEF ShapedScan
    <3>2. PICK want : want = Mix[scan.mode]
      OBVIOUS
    <3>3. ~Rejected(reply.questions, want, FALSE)
      BY <1>14, <3>2 DEF Unparsable
    <3>4. want > 0 => n = want
      BY <1>12, <2>1, <3>3, Zenon DEF Rejected
    <3> QED BY <3>1, <3>2, <3>4
  <2>7. PICK t : t = [s EXCEPT !.result = "done", !.out = out]
    OBVIOUS
  <2>8. /\ t.path = "text" /\ t.mode = scan.mode /\ t.start = 0 /\ t.out = out /\ t.provider = scan.provider
        /\ t.asked = asked /\ t.result = "done"
    BY <1>5, <1>6, <2>7 DEF ShapedScan
  <2>9. ShapedScan(t)
    <3>1. t \in [path : {"vision", "text"}, mode : {"chapter", "existing"}, start : Nat, attempt : 0..1,
           provider : {"gemini", "openai"}, round : 0..1, out : {out}, readable : BOOLEAN, asked : Nat,
           result : {"none", "running", "done", "failed", "unreadable", "requeued"}]
      BY <1>6, <2>7, Zenon DEF ShapedScan
    <3> QED BY <2>8, <3>1 DEF ShapedScan
  <2>10. KeptOK(t)
    BY <2>3, <2>5, <2>8 DEF KeptOK
  <2>11. TextOK(t)
    <3>1. asked <= IF HasFallback THEN 8 ELSE 4
      BY <1>7 DEF CallsBehind
    <3> QED BY <1>7, <2>3, <2>6, <2>8, <3>1 DEF TextOK
  <2>12. VisionOK(t)
    BY <2>8 DEF VisionOK
  <2> QED BY <1>14, <2>7, <2>9, <2>10, <2>11, <2>12 DEF ScanOK
<1>15. \/ scan' = ProviderFails(s)
       \/ scan.attempt = 0 /\ scan' = [s EXCEPT !.attempt = 1]
       \/ ~Unparsable(reply, Mix[scan.mode], FALSE) /\ scan' = [s EXCEPT !.result = "done", !.out = out]
  BY <1>1, <1>12, <1>13, Zenon DEF CallGenerator
<1> QED BY <1>10, <1>11, <1>14, <1>15

\* The empty list.
LEMMA EmptyIs == IsSeq(<<>>) /\ DOMAIN <<>> = {} /\ Len(<<>>) = 0
BY DEF IsSeq, Elements

\* A generation that has not asked yet.
LEMMA FreshScan ==
    ASSUME NEW path \in {"vision", "text"}, NEW mode \in {"chapter", "existing"},
           NEW result \in {"none", "running", "requeued"}, NEW s,
           s = [path |-> path, mode |-> mode, start |-> 0, attempt |-> 0, provider |-> "gemini", round |-> 0,
                out |-> <<>>, readable |-> FALSE, asked |-> 0, result |-> result]
    PROVE  ScanOK(s)
<1>1. /\ s.path = path /\ s.mode = mode /\ s.start = 0 /\ s.attempt = 0 /\ s.provider = "gemini" /\ s.round = 0
      /\ s.out = <<>> /\ s.readable = FALSE /\ s.asked = 0 /\ s.result = result
  OBVIOUS
<1>2. ShapedScan(s)
  <2>1. 0 \in 0..1 /\ 0 \in Nat /\ <<>> \in {<<>>}
    OBVIOUS
  <2>2. s \in [path : {"vision", "text"}, mode : {"chapter", "existing"}, start : Nat, attempt : 0..1,
           provider : {"gemini", "openai"}, round : 0..1, out : {<<>>}, readable : BOOLEAN, asked : Nat,
           result : {"none", "running", "done", "failed", "unreadable", "requeued"}]
    BY <2>1
  <2> QED BY <1>1, <2>2 DEF ShapedScan
<1>3. KeptOK(s)
  BY <1>1, EmptyIs DEF KeptOK
<1>4. NImages \in Nat \ {0} /\ PagesPerBatch \in Nat \ {0} /\ overallTarget \in Nat \ {0}
  BY GenerationAssumption, TargetIs
<1>5. VisionOK(s)
  <2>1. 0 \in Nat /\ s.start = 0 * PagesPerBatch /\ s.asked <= 2 * 0 + (IF s.result = "running" THEN s.attempt ELSE 0)
    BY <1>1, <1>4
  <2>2. \E batch \in Nat : s.start = batch * PagesPerBatch
          /\ s.asked <= 2 * batch + (IF s.result = "running" THEN s.attempt ELSE 0)
    BY <2>1
  <2>3. Distinct(s.out) /\ Len(s.out) = 0
    BY <1>1, EmptyIs DEF Distinct
  <2>4. s.result # "done"
    BY <1>1
  <2>5. s.start < NImages /\ Len(s.out) < overallTarget /\ Len(s.out) <= overallTarget /\ s.start < NImages + PagesPerBatch
    BY <1>1, <1>4, <2>3
  <2> QED BY <2>2, <2>3, <2>4, <2>5 DEF VisionOK
<1>6. TextOK(s)
  <2>1. CallsBehind(s) >= 0
    BY <1>1 DEF CallsBehind
  <2> QED BY <1>1, <2>1 DEF TextOK
<1> QED BY <1>2, <1>3, <1>5, <1>6 DEF ScanOK

\* A job that is let in, and one that is sent back, start with nothing.
LEMMA AllowScan ==
    ASSUME NEW path \in {"vision", "text"}, NEW mode \in {"chapter", "existing"}, Allow(path, mode)
    PROVE  ScanOK(scan')
<1>1. PICK result \in {"running", "requeued"} :
        scan' = [path |-> path, mode |-> mode, start |-> 0, attempt |-> 0, provider |-> "gemini", round |-> 0,
                 out |-> <<>>, readable |-> FALSE, asked |-> 0, result |-> result]
  BY DEF Allow, NewScan
<1>2. PICK s : s = [path |-> path, mode |-> mode, start |-> 0, attempt |-> 0, provider |-> "gemini", round |-> 0,
                    out |-> <<>>, readable |-> FALSE, asked |-> 0, result |-> result]
  OBVIOUS
<1> QED BY <1>1, <1>2, FreshScan

\* In the beginning nothing is generated.
LEMMA GenerationInitInv ==
    ASSUME GenerationInit
    PROVE  GenerationInv
<1>1. ScanOK(scan)
  <2>1. scan = [path |-> "vision", mode |-> "chapter", start |-> 0, attempt |-> 0, provider |-> "gemini",
                round |-> 0, out |-> <<>>, readable |-> FALSE, asked |-> 0, result |-> "none"]
    BY DEF GenerationInit, NewScan
  <2> QED BY <2>1, FreshScan
<1>2. CallsOK
  <2>1. calls = <<>> /\ admitted = <<>> /\ minute = 0
    BY DEF GenerationInit
  <2>2. IsSeq(<<>>) /\ DOMAIN <<>> = {}
    BY EmptyIs
  <2>3. \A time \in Int : After(<<>>, time) = After(<<>>, time) /\ After(<<>>, time) = 0
    BY FS_EmptySet, <2>2 DEF After
  <2> QED BY <2>1, <2>2, <2>3 DEF CallsOK
<1> QED BY <1>1, <1>2 DEF GenerationInv

\* Every step keeps the invariant.
LEMMA GenerationStepInv ==
    ASSUME GenerationInv, [GenerationNext]_generationVars
    PROVE  GenerationInv'
<1>1. ScanOK(scan) /\ CallsOK
  BY DEF GenerationInv
<1>2. CASE \E path \in {"vision", "text"}, mode \in {"chapter", "existing"} : Allow(path, mode)
  <2>1. PICK path \in {"vision", "text"}, mode \in {"chapter", "existing"} : Allow(path, mode)
    BY <1>2
  <2> QED BY <1>1, <2>1, AllowScan, AllowCalls DEF GenerationInv
<1>3. CASE \E reply \in ModelReplies : CallVision(reply) \/ CallGenerator(reply)
  <2>1. PICK reply \in ModelReplies : CallVision(reply) \/ CallGenerator(reply)
    BY <1>3
  <2>2. ScanOK(scan')
    BY <1>1, <2>1, CallVisionStep, CallGeneratorStep
  <2>3. CallsOK'
    <3>1. UNCHANGED <<calls, minute, admitted>>
      BY <2>1 DEF CallVision, CallGenerator
    <3> QED BY <1>1, <3>1 DEF CallsOK
  <2> QED BY <2>2, <2>3 DEF GenerationInv
<1>4. CASE Minute
  <2>1. ScanOK(scan')
    BY <1>1, <1>4 DEF Minute
  <2> QED BY <1>1, <1>4, <2>1, MinuteCalls DEF GenerationInv
<1>5. CASE UNCHANGED generationVars
  <2>1. UNCHANGED <<scan, calls, minute, admitted>>
    BY <1>5 DEF generationVars
  <2> QED BY <1>1, <2>1 DEF GenerationInv, CallsOK
<1> QED BY <1>2, <1>3, <1>4, <1>5 DEF GenerationNext

\* A batch that starts before the end is one of the batches.
LEMMA BatchesBound ==
    ASSUME NEW batch \in Nat, batch * PagesPerBatch < NImages + PagesPerBatch
    PROVE  Batches \in Nat /\ batch <= Batches
<1>1. PICK p \in Nat \ {0}, n \in Nat \ {0} : p = PagesPerBatch /\ n = NImages
  BY GenerationAssumption
<1>2. PICK d \in Int : d = (n + p - 1) \div p
  BY <1>1
<1>3. d >= 0 /\ p * d <= n + p - 1 /\ n + p - 1 < p * d + p
  BY <1>1, <1>2
<1>4. batch * p < n + p
  BY <1>1
<1>5. batch <= d
  <2> SUFFICES ASSUME batch >= d + 1
               PROVE  FALSE
    BY <1>2
  <2>1. PICK more \in Nat : batch = d + 1 + more
    BY <1>2
  <2>2. batch * p = p * d + p + more * p
    BY <1>1, <1>2, <2>1
  <2>3. more * p >= 0
    BY <1>1, <2>1
  <2> QED BY <1>1, <1>2, <1>3, <1>4, <2>2, <2>3
<1> QED BY <1>1, <1>2, <1>3, <1>5 DEF Batches

\* The invariant says that generated quizzes are sound.
LEMMA GenerationTruth ==
    ASSUME GenerationInv
    PROVE  GeneratedSound /\ GenerationTypeOK
<1>1. ShapedScan(scan) /\ KeptOK(scan) /\ VisionOK(scan) /\ TextOK(scan) /\ CallsOK
  BY DEF GenerationInv, ScanOK
<1>2. /\ scan.path \in {"vision", "text"} /\ scan.mode \in {"chapter", "existing"} /\ scan.start \in Nat
      /\ scan.attempt \in 0..1 /\ scan.round \in 0..1 /\ scan.provider \in {"gemini", "openai"}
      /\ scan.readable \in BOOLEAN /\ scan.asked \in Nat
      /\ scan.result \in {"none", "running", "done", "failed", "unreadable", "requeued"}
  BY <1>1 DEF ShapedScan
<1>3. NImages \in Nat \ {0} /\ PagesPerBatch \in Nat \ {0}
  BY GenerationAssumption
<1>4. Len(scan.out) \in Nat
  BY <1>1, SeqIs DEF KeptOK
<1>5. \A i \in DOMAIN scan.out :
        /\ scan.out[i].options \in LegalOptions(scan.out[i].type) /\ scan.out[i].text # ""
        /\ InRange(scan.out[i]) \/ (scan.out[i].index = Unknown /\ scan.path = "vision" /\ Extracts(scan.mode))
        /\ ~scan.out[i].related => scan.out[i].attempt = 1 /\ ~Extracts(scan.mode)
  BY <1>1 DEF KeptOK, KeptQuestion, Playable
<1>6. scan.asked <= IF scan.path = "vision" THEN 2 * Batches ELSE IF HasFallback THEN 8 ELSE 4
  <2>1. CASE scan.path = "vision"
    <3>1. PICK batch \in Nat : /\ scan.start = batch * PagesPerBatch
                               /\ scan.asked <= 2 * batch + (IF scan.result = "running" THEN scan.attempt ELSE 0)
      BY <1>1, <2>1 DEF VisionOK
    <3>2. batch <= Batches /\ Batches \in Nat
      BY <1>1, <2>1, <3>1, BatchesBound DEF VisionOK
    <3>3. CASE scan.result = "running"
      <4>1. scan.start < NImages
        BY <1>1, <2>1, <3>3 DEF VisionOK
      <4>2. (batch + 1) * PagesPerBatch < NImages + PagesPerBatch
        <5>1. PICK p \in Nat : p = PagesPerBatch
          BY <1>3
        <5>2. (batch + 1) * p = batch * p + p
          BY <5>1
        <5> QED BY <1>2, <1>3, <3>1, <4>1, <5>1, <5>2
      <4>3. PICK next \in Nat : next = batch + 1
        OBVIOUS
      <4>4. next <= Batches
        BY <4>2, <4>3, BatchesBound
      <4> QED BY <1>2, <2>1, <3>1, <3>2, <3>3, <4>3, <4>4
    <3>4. CASE scan.result # "running"
      BY <1>2, <2>1, <3>1, <3>2, <3>4
    <3> QED BY <3>3, <3>4
  <2>2. CASE scan.path = "text"
    <3>1. CallsBehind(scan) <= IF HasFallback THEN 8 ELSE 4
      BY <1>1, <1>2, <2>2 DEF CallsBehind, TextOK
    <3>2. CallsBehind(scan) \in Int
      BY <1>2 DEF CallsBehind
    <3> QED BY <1>1, <1>2, <2>2, <3>1, <3>2 DEF TextOK
  <2> QED BY <1>2, <2>1, <2>2
<1>7. scan.result = "done" =>
        /\ scan.out # <<>>
        /\ scan.path = "text" => Len(scan.out) = Mix[scan.mode]
        /\ scan.path = "vision" =>
             /\ Len(scan.out) <= Min({PerPage * NImages, MaxQuestions})
             /\ \A i, j \in DOMAIN scan.out : scan.out[i].text = scan.out[j].text => i = j
  <2>1. Mix[scan.mode] \in Nat \ {0}
    BY <1>2, GenerationAssumption
  <2>2. Len(<<>>) = 0
    BY EmptyIs
  <2>3. scan.path = "vision" => Len(scan.out) <= Min({PerPage * NImages, MaxQuestions}) /\ Distinct(scan.out)
    BY <1>1, TargetIs DEF VisionOK
  <2> QED BY <1>1, <1>2, <2>1, <2>2, <2>3 DEF VisionOK, TextOK, Distinct
<1>8. \A i \in DOMAIN admitted :
        Cardinality({j \in 1..i : admitted[j] > admitted[i] - Window}) <= MaxCalls
  BY <1>1 DEF CallsOK
<1>9. GeneratedSound
  BY <1>5, <1>6, <1>7, <1>8 DEF GeneratedSound
<1>10. scan.start \in 0 .. NImages + PagesPerBatch
  BY <1>1, <1>2, <1>3 DEF VisionOK, TextOK
<1>11. GenerationTypeOK
  BY <1>1, <1>2, <1>10 DEF GenerationTypeOK, CallsOK
<1> QED BY <1>9, <1>11

(* ------------------------------ the system ------------------------------ *)

\* Attempts: the owners of the running ones, the types, the published quiz, the dashboard.
AttemptsInv == QuizInv /\ QuizTyped /\ QuizStable /\ QuizFresh

\* Attempts begin and go on with their invariant.
LEMMA AttemptsHold ==
    /\ QuizInit => AttemptsInv
    /\ AttemptsInv /\ [QuizNext]_quizVars => AttemptsInv'
BY QuizInitInv, QuizTypedInit, QuizStableInit, QuizFreshInit, QuizStepInv, QuizTypedStep, QuizStableStep, QuizFreshStep
   DEF AttemptsInv

\* The invariants of the parts.
LearningInv == AttemptsInv /\ PracticeInv /\ GenerationInv /\ CacheInv /\ ScanPhoneInv

\* They hold at the start.
LEMMA LearningInitInv ==
    ASSUME Init
    PROVE  LearningInv
BY AttemptsHold, PracticeInitInv, GenerationInitInv, CacheInitInv, PhoneInitInv DEF Init, LearningInv

\* A step of the whole is a step or a stutter of each part.
LEMMA LearningParts ==
    ASSUME [LearningNext]_<<quizVars, practiceVars, generationVars, cacheVars, phoneVars>>
    PROVE  [QuizNext]_quizVars /\ [PracticeNext]_practiceVars /\ [GenerationNext]_generationVars
           /\ [CacheNext]_cacheVars /\ [PhoneNext]_phoneVars
<1>1. CASE LearningNext
  BY <1>1 DEF LearningNext, QuizAtRest, PracticeAtRest, GenerationAtRest, CacheAtRest, PhoneAtRest
<1>2. CASE UNCHANGED <<quizVars, practiceVars, generationVars, cacheVars, phoneVars>>
  BY <1>2
<1> QED BY <1>1, <1>2

\* Every step keeps them.
LEMMA LearningStepInv ==
    ASSUME LearningInv, [LearningNext]_<<quizVars, practiceVars, generationVars, cacheVars, phoneVars>>
    PROVE  LearningInv'
BY LearningParts, AttemptsHold, PracticeStepInv, GenerationStepInv, CacheStepInv, PhoneStepInv DEF LearningInv

\* The invariants hold.
LEMMA LearningInvariant == LearningSpec => []LearningInv
BY LearningInitInv, LearningStepInv, PTL DEF LearningSpec

\* What an entry of the upload queue of the phone says is so: the pages it counts as sent
\* have reached the server in some job of the upload, and the quiz it offers was made of
\* such a job, with any number of uploads, screens, pages, retries and kills.
THEOREM QueueIsTruthful == LearningSpec => []QueueTellsTruth
<1>1. LearningInv => QueueTellsTruth
  BY PhoneTruth DEF LearningInv
<1> QED BY <1>1, LearningInvariant, PTL

\* However often an attempt is submitted, every answer to a submission is the result that
\* is stored, and in any order the database may choose a page of the reports shows its
\* score behind the newer attempts and among those of its time.
THEOREM ResultIsOne == LearningSpec => []OneResult
<1>1. LearningInv => OneResult
  BY QuizTruth DEF LearningInv, AttemptsInv
<1> QED BY <1>1, LearningInvariant, PTL

\* At most one attempt is in progress and one goal active, except for as many more as
\* requests of the student overlapped.
THEOREM OneOfEachAtATime == LearningSpec => []OneAtATime
<1>1. LearningInv => OneAtATime
  BY QuizTruth, PracticeBounded DEF LearningInv, AttemptsInv, OneAtATime
<1> QED BY <1>1, LearningInvariant, PTL

\* A goal has one set for a day, of at most as many questions as a set may have, and none
\* that a set of the days before had, if that set was there when it was chosen.
THEOREM SetsAreSound == LearningSpec => []SetSound
<1>1. LearningInv => SetSound
  BY PracticeSetSound DEF LearningInv
<1> QED BY <1>1, LearningInvariant, PTL

\* Submissions count once: one score is told of a set, the skill gaps move once for it, a
\* week gets one score, the mean of its completed sets, and only when every day has one,
\* and a streak is not longer than the sets that were completed.
THEOREM PracticeCountsOnce == LearningSpec => []CountedOnce
<1>1. LearningInv => CountedOnce
  BY PracticeCounted DEF LearningInv
<1> QED BY <1>1, LearningInvariant, PTL

\* Quiz, attempts, dashboard, goals, sets, scores, generation, cache and the queue of the
\* phone keep their types, whatever their number.
THEOREM LearningTypesHold == LearningSpec => []TypeOK
<1>1. LearningInv => QuizTypeOK /\ PracticeTypeOK /\ GenerationTypeOK
  BY QuizTypes, PracticeTyped, GenerationTruth DEF LearningInv, AttemptsInv
<1>2. LearningInv => CacheTypeOK /\ PhoneTypeOK
  BY CacheTruth, PhoneTruth DEF LearningInv
<1>3. LearningInv => TypeOK
  BY <1>1, <1>2 DEF TypeOK
<1> QED BY <1>3, LearningInvariant, PTL

\* Unless a save overlapped the publication, a published quiz has its keys, and completed
\* attempts are reviewed, and counted by topic, as they were graded: for any drafts,
\* clients, clocks and answers.
THEOREM PublishedQuizIsStable == LearningSpec => []PublishedIsStable
<1>1. LearningInv => PublishedIsStable
  BY StableTruth DEF LearningInv, AttemptsInv
<1> QED BY <1>1, LearningInvariant, PTL

\* A dashboard from the cache shows all completed attempts once the invalidations have
\* run, unless its computation overlapped a submission or an invalidation failed; its
\* streak is the longest run of days that ends today or yesterday.
THEOREM DashboardIsFresh == LearningSpec => []AnalyticsFresh
<1>1. LearningInv => AnalyticsFresh
  BY FreshTruth DEF LearningInv, AttemptsInv
<1> QED BY <1>1, LearningInvariant, PTL

\* Whatever the models answer, a generated quiz that is saved can be played and is no
\* larger than asked for, a job makes a bounded number of calls, and the limiter admits a
\* user as often as it may in every window: for any pages, batches, replies and limits.
THEOREM GenerationIsSound == LearningSpec => []GeneratedSound
<1>1. LearningInv => GeneratedSound
  BY GenerationTruth DEF LearningInv
<1> QED BY <1>1, LearningInvariant, PTL
===============================================================================
