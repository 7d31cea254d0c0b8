------------------------------ MODULE Induction ------------------------------
(***************************************************************************)
(* Induction over the natural numbers and what it gives for recursively     *)
(* defined functions, in the first-order form that the proofs of the other  *)
(* modules can cite: a property is given as the set of numbers that have it.*)
(* With them a few facts of arithmetic that the proofs share, and sums over *)
(* the elements of a finite set and along a sequence.                       *)
(***************************************************************************)
EXTENDS Integers, Sequences, FiniteSets, FiniteSetTheorems, WellFoundedInduction, TLAPS

\* Every nonempty set of natural numbers has a least element.
LEMMA LeastNat ==
    ASSUME NEW T \in SUBSET Nat, T # {}
    PROVE  \E n \in T : \A m \in T : n <= m
<1>1. PICK n \in T : \A m \in T : <<m, n>> \notin OpToRel(<, Nat)
    BY NatLessThanWellFounded, WFMin, Zenon
<1>2. ASSUME NEW m \in T
      PROVE  n <= m
  <2>1. <<m, n>> \notin OpToRel(<, Nat)
    BY <1>1
  <2>2. ~ (m < n)
    BY <2>1 DEF OpToRel
  <2> QED
    BY <2>2
<1> QED
    BY <1>2

\* A set of natural numbers that holds zero and with every number the next
\* one holds them all.
LEMMA NatSet ==
    ASSUME NEW T \in SUBSET Nat, 0 \in T, \A n \in T : n + 1 \in T
    PROVE  \A n \in Nat : n \in T
<1> SUFFICES ASSUME Nat \ T # {}
             PROVE  FALSE
    OBVIOUS
<1>1. PICK n \in Nat \ T : \A m \in Nat \ T : n <= m
    BY LeastNat
<1>2. n # 0 /\ n - 1 \in Nat
    BY <1>1
<1>3. n - 1 \in T
    BY <1>1, <1>2
<1> QED
    BY <1>1, <1>2, <1>3

\* The same up to a bound: a property of 0 that each number below N hands on
\* to the next one.
LEMMA UpTo ==
    ASSUME NEW N \in Nat, NEW T, 0 \in T,
           \A n \in 0 .. N - 1 : n \in T => n + 1 \in T
    PROVE  \A n \in 0 .. N : n \in T
<1> DEFINE U == {n \in Nat : n <= N => n \in T}
<1>1. U \in SUBSET Nat /\ 0 \in U
    OBVIOUS
<1>2. ASSUME NEW n \in U
      PROVE  n + 1 \in U
    OBVIOUS
<1>3. \A n \in Nat : n \in U
  <2> HIDE DEF U
  <2> QED
    BY <1>1, <1>2, NatSet
<1> QED
    BY <1>3

\* g is the function with first value a and the given step.
IsPath(g, N, S, a, step) ==
    /\ g \in [0 .. N -> S]
    /\ \A i \in 0 .. N : g[i] = IF i = 0 THEN a ELSE step[<<i, g[i - 1]>>]

\* A function given by its first value and a step from each value to the
\* next one exists: so a recursive definition of this form means what it says.
LEMMA PathExists ==
    ASSUME NEW N \in Nat, NEW S, NEW a \in S, NEW step \in [(1 .. N) \X S -> S]
    PROVE  \E g : IsPath(g, N, S, a, step)
<1> DEFINE Follows(g, n) ==
              \A i \in 0 .. n : g[i] = IF i = 0 THEN a ELSE step[<<i, g[i - 1]>>]
           T == {n \in 0 .. N : \E g \in [0 .. n -> S] : Follows(g, n)}
<1>1. 0 \in T
  <2> DEFINE g == [i \in 0 .. 0 |-> a]
  <2>1. g \in [0 .. 0 -> S] /\ Follows(g, 0)
    OBVIOUS
  <2>2. \E x \in [0 .. 0 -> S] : Follows(x, 0)
    <3> HIDE DEF g, Follows
    <3> QED
      BY <2>1
  <2> QED
    BY <2>2
<1>2. ASSUME NEW n \in 0 .. N - 1, n \in T
      PROVE  n + 1 \in T
  <2>1. PICK g \in [0 .. n -> S] : Follows(g, n)
    BY <1>2
  <2> DEFINE h == [i \in 0 .. n + 1 |-> IF i = n + 1 THEN step[<<n + 1, g[n]>>] ELSE g[i]]
  <2>2. step[<<n + 1, g[n]>>] \in S
    OBVIOUS
  <2>3. h \in [0 .. n + 1 -> S]
    BY <2>2
  <2>4. ASSUME NEW i \in 0 .. n + 1
        PROVE  h[i] = IF i = 0 THEN a ELSE step[<<i, h[i - 1]>>]
    <3>1. CASE i = n + 1
      <4>1. h[i - 1] = g[n] /\ h[i] = step[<<i, g[n]>>] /\ i # 0
        BY <3>1
      <4> HIDE DEF h
      <4> QED
        BY <4>1
    <3>2. CASE i # n + 1
      <4>1. i \in 0 .. n /\ h[i] = g[i] /\ (i # 0 => h[i - 1] = g[i - 1])
        BY <3>2
      <4> HIDE DEF h
      <4> QED
        BY <2>1, <4>1
    <3> QED
      BY <3>1, <3>2
  <2>5. Follows(h, n + 1)
    BY <2>4
  <2>6. \E x \in [0 .. n + 1 -> S] : Follows(x, n + 1)
    <3> HIDE DEF h, Follows
    <3> QED
      BY <2>3, <2>5
  <2> QED
    BY <2>6
<1>3. N \in T
  <2> HIDE DEF T
  <2> QED
    BY <1>1, <1>2, UpTo
<1>4. PICK g \in [0 .. N -> S] : Follows(g, N)
    BY <1>3
<1>5. IsPath(g, N, S, a, step)
    BY <1>4 DEF IsPath
<1> QED
    BY <1>5

\* A sequence without repetitions is no longer than the set it is drawn from.
LEMMA Pigeons ==
    ASSUME NEW S, IsFiniteSet(S), NEW n \in Nat, NEW s \in [1 .. n -> S],
           \A i, j \in 1 .. n : s[i] = s[j] => i = j
    PROVE  n <= Cardinality(S)
<1>1. IsFiniteSet(1 .. n) /\ Cardinality(1 .. n) = n
    BY FS_Interval
<1>2. Cardinality(S) \in Nat
    BY FS_CardinalityType
<1> SUFFICES ASSUME Cardinality(S) < n
             PROVE  FALSE
    BY <1>2
<1> QED
    BY <1>1, FS_PigeonHole

\* A number below the divisor is its own remainder, and once past it again.
LEMMA Remainder ==
    ASSUME NEW N \in Nat \ {0}, NEW q \in 0 .. N - 1
    PROVE  q % N = q /\ (N + q) % N = q
OBVIOUS

-----------------------------------------------------------------------------
(* Sums over the elements of a finite set. *)

\* g sums f over each subset of S, taking the elements in the order of pick.
IsFold(g, S, f, pick) ==
    \A s \in SUBSET S : g[s] = IF s = {} THEN 0 ELSE f[pick[s]] + g[s \ {pick[s]}]

\* pick chooses an element of each subset of S.
Picks(pick, S) == \A s \in SUBSET S : s # {} => pick[s] \in s

\* The subsets of a finite set have sizes, and one element less than they had.
LEMMA Sizes ==
    ASSUME NEW S, IsFiniteSet(S)
    PROVE  /\ Cardinality(S) \in Nat
           /\ \A s \in SUBSET S : /\ Cardinality(s) \in 0 .. Cardinality(S)
                                  /\ Cardinality(s) = 0 <=> s = {}
                                  /\ \A x \in s : Cardinality(s \ {x}) = Cardinality(s) - 1
<1>1. Cardinality(S) \in Nat
    BY FS_CardinalityType
<1>2. ASSUME NEW s \in SUBSET S
      PROVE  /\ Cardinality(s) \in 0 .. Cardinality(S)
             /\ Cardinality(s) = 0 <=> s = {}
             /\ \A x \in s : Cardinality(s \ {x}) = Cardinality(s) - 1
  <2>1. IsFiniteSet(s) /\ Cardinality(s) <= Cardinality(S)
    BY FS_Subset
  <2>2. Cardinality(s) \in Nat /\ (Cardinality(s) = 0 <=> s = {})
    BY <2>1, FS_CardinalityType, FS_EmptySet
  <2>3. \A x \in s : Cardinality(s \ {x}) = Cardinality(s) - 1
    BY <2>1, FS_RemoveElement
  <2> QED
    BY <1>1, <2>1, <2>2, <2>3
<1> QED
    BY <1>1, <1>2

\* Sums over the subsets of a finite set exist.
LEMMA FoldExists ==
    ASSUME NEW S, IsFiniteSet(S), NEW f \in [S -> Int], NEW pick, Picks(pick, S)
    PROVE  \E g \in [SUBSET S -> Int] : IsFold(g, S, f, pick)
<1> DEFINE Upto(n) == {s \in SUBSET S : Cardinality(s) <= n}
           Sums(g, n) == \A s \in Upto(n) : g[s] = IF s = {} THEN 0 ELSE f[pick[s]] + g[s \ {pick[s]}]
           T == {n \in 0 .. Cardinality(S) : \E g \in [Upto(n) -> Int] : Sums(g, n)}
<1>0. Cardinality(S) \in Nat
    BY Sizes
<1>1. 0 \in T
  <2>1. \A s \in Upto(0) : s = {}
    BY Sizes
  <2>2. PICK g : g = [s \in Upto(0) |-> 0]
    OBVIOUS
  <2>3. g \in [Upto(0) -> Int] /\ Sums(g, 0)
    BY <2>1, <2>2
  <2>4. 0 \in 0 .. Cardinality(S)
    BY <1>0
  <2> HIDE DEF Sums, Upto
  <2> QED
    BY <2>3, <2>4
<1>2. ASSUME NEW n \in 0 .. Cardinality(S) - 1, n \in T
      PROVE  n + 1 \in T
  <2>1. PICK g \in [Upto(n) -> Int] : Sums(g, n)
    BY <1>2
  <2>2. PICK h : h = [s \in Upto(n + 1) |->
                        IF s \in Upto(n) THEN g[s] ELSE f[pick[s]] + g[s \ {pick[s]}]]
    OBVIOUS
  <2>3. ASSUME NEW s \in Upto(n + 1)
        PROVE  h[s] \in Int /\ h[s] = IF s = {} THEN 0 ELSE f[pick[s]] + h[s \ {pick[s]}]
    <3>1. CASE s = {}
      <4>1. s \in Upto(n)
        BY <1>0, <3>1, Sizes
      <4> QED
        BY <2>1, <2>2, <3>1, <4>1
    <3>2. CASE s # {}
      <4>1. PICK x \in s : x = pick[s]
        BY <3>2 DEF Picks
      <4>2. Cardinality(s) \in Nat /\ Cardinality(s) <= n + 1 /\ Cardinality(s \ {x}) = Cardinality(s) - 1
        BY Sizes
      <4>3. s \ {x} \in Upto(n) /\ s \ {x} \in Upto(n + 1)
        BY <1>0, <4>2
      <4>4. h[s \ {x}] = g[s \ {x}] /\ g[s \ {x}] \in Int /\ f[x] \in Int
        BY <2>1, <2>2, <4>3
      <4>5. h[s] = f[x] + g[s \ {x}]
        BY <2>1, <2>2, <3>2, <4>1
      <4> QED
        BY <3>2, <4>1, <4>4, <4>5
    <3> QED
      BY <3>1, <3>2
  <2>4. h \in [Upto(n + 1) -> Int] /\ Sums(h, n + 1)
    BY <2>2, <2>3
  <2>5. n + 1 \in 0 .. Cardinality(S)
    BY <1>0
  <2> QED
    BY <2>4, <2>5
<1>3. Cardinality(S) \in T
  <2> HIDE DEF T
  <2> QED
    BY <1>0, <1>1, <1>2, UpTo
<1>4. Upto(Cardinality(S)) = SUBSET S
    BY <1>0, Sizes
<1>5. PICK g \in [Upto(Cardinality(S)) -> Int] : Sums(g, Cardinality(S))
    BY <1>3
<1> QED
    BY <1>4, <1>5 DEF IsFold

\* The sum h of e differs from the sum g of f as e does from f in z.
Differ(g, h, S, f, e, z) == g[S] \in Int /\ h[S] = g[S] + e[z] - f[z]

\* Two sums of functions that differ in z at most.
LEMMA FoldOne ==
    ASSUME NEW S, IsFiniteSet(S), NEW f \in [S -> Int], NEW e \in [S -> Int], NEW pick, Picks(pick, S),
           NEW g, IsFold(g, S, f, pick), NEW h, IsFold(h, S, e, pick),
           NEW z \in S, \A y \in S : y # z => e[y] = f[y]
    PROVE  Differ(g, h, S, f, e, z)
<1> DEFINE Good(s) == g[s] \in Int /\ h[s] = g[s] + (IF z \in s THEN e[z] - f[z] ELSE 0)
           T == {n \in 0 .. Cardinality(S) : \A s \in SUBSET S : Cardinality(s) = n => Good(s)}
<1>0. Cardinality(S) \in Nat
    BY Sizes
<1>1. 0 \in T
  <2>1. ASSUME NEW s \in SUBSET S, Cardinality(s) = 0
        PROVE  Good(s)
    <3>1. s = {}
      BY <2>1, Sizes
    <3>2. g[s] = 0 /\ h[s] = 0
      BY <3>1 DEF IsFold
    <3> QED
      BY <3>1, <3>2
  <2> HIDE DEF Good
  <2> QED
    BY <1>0, <2>1
<1>2. ASSUME NEW n \in 0 .. Cardinality(S) - 1, n \in T
      PROVE  n + 1 \in T
  <2>1. ASSUME NEW s \in SUBSET S, Cardinality(s) = n + 1
        PROVE  Good(s)
    <3>1. s # {}
      BY <1>0, <2>1, Sizes
    <3>2. PICK x \in s : x = pick[s]
      BY <3>1 DEF Picks
    <3>3. s \ {x} \in SUBSET S /\ Cardinality(s \ {x}) = n
      BY <2>1, Sizes
    <3>4. Good(s \ {x})
      BY <1>2, <3>3
    <3>5. g[s] = f[x] + g[s \ {x}] /\ h[s] = e[x] + h[s \ {x}] /\ f[x] \in Int /\ e[x] \in Int
      BY <3>1, <3>2 DEF IsFold
    <3>6. e[z] \in Int /\ f[z] \in Int
      OBVIOUS
    <3>7. CASE x = z
      BY <3>4, <3>5, <3>7
    <3>8. CASE x # z
      BY <3>4, <3>5, <3>6, <3>8
    <3> QED
      BY <3>7, <3>8
  <2>2. n + 1 \in 0 .. Cardinality(S)
    BY <1>0
  <2> HIDE DEF Good
  <2> QED
    BY <2>1, <2>2
<1>3. Cardinality(S) \in T
  <2> HIDE DEF T
  <2> QED
    BY <1>0, <1>1, <1>2, UpTo
<1>4. Good(S)
    BY <1>3
<1>5. e[z] \in Int /\ f[z] \in Int
    OBVIOUS
<1> QED
    BY <1>4, <1>5 DEF Differ

\* A sum of zeros.
LEMMA FoldZero ==
    ASSUME NEW S, IsFiniteSet(S), NEW f, \A y \in S : f[y] = 0, NEW pick, Picks(pick, S),
           NEW g, IsFold(g, S, f, pick)
    PROVE  g[S] = 0
<1> DEFINE T == {n \in 0 .. Cardinality(S) : \A s \in SUBSET S : Cardinality(s) = n => g[s] = 0}
<1>0. Cardinality(S) \in Nat
    BY Sizes
<1>1. 0 \in T
    BY <1>0, Sizes DEF IsFold
<1>2. ASSUME NEW n \in 0 .. Cardinality(S) - 1, n \in T
      PROVE  n + 1 \in T
  <2>1. ASSUME NEW s \in SUBSET S, Cardinality(s) = n + 1
        PROVE  g[s] = 0
    <3>1. s # {}
      BY <1>0, <2>1, Sizes
    <3>2. PICK x \in s : x = pick[s]
      BY <3>1 DEF Picks
    <3>3. s \ {x} \in SUBSET S /\ Cardinality(s \ {x}) = n
      BY <2>1, Sizes
    <3>4. g[s \ {x}] = 0
      BY <1>2, <3>3
    <3>5. g[s] = f[x] + g[s \ {x}] /\ f[x] = 0
      BY <3>1, <3>2 DEF IsFold
    <3> QED
      BY <3>4, <3>5
  <2> QED
    BY <1>0, <2>1
<1>3. Cardinality(S) \in T
  <2> HIDE DEF T
  <2> QED
    BY <1>0, <1>1, <1>2, UpTo
<1> QED
    BY <1>3

-----------------------------------------------------------------------------
(* Sums along a sequence. *)

\* p holds the sums of the beginnings of q.
IsSum(p, q) ==
    p \in [0 .. Len(q) -> Int] /\ p[0] = 0 /\ \A i \in 1 .. Len(q) : p[i] = p[i - 1] + q[i]

\* A sequence of numbers has a sum.
LEMMA SumExists ==
    ASSUME NEW q \in Seq(Int)
    PROVE  \E p : IsSum(p, q)
<1>1. PICK N \in Nat : N = Len(q) /\ q \in [1 .. N -> Int]
    OBVIOUS
<1>2. PICK step : step = [x \in (1 .. N) \X Int |-> x[2] + q[x[1]]]
    OBVIOUS
<1>3. step \in [(1 .. N) \X Int -> Int] /\ \A i \in 1 .. N, m \in Int : step[<<i, m>>] = m + q[i]
    BY <1>1, <1>2
<1>4. PICK p : IsPath(p, N, Int, 0, step)
  <2>1. \A S, a, st : a \in S /\ st \in [(1 .. N) \X S -> S] => \E p : IsPath(p, N, S, a, st)
    BY PathExists
  <2>2. 0 \in Int /\ step \in [(1 .. N) \X Int -> Int]
    BY <1>3
  <2> QED
    BY <2>1, <2>2, Zenon
<1>5. p \in [0 .. N -> Int] /\ \A i \in 0 .. N : p[i] = IF i = 0 THEN 0 ELSE step[<<i, p[i - 1]>>]
    BY <1>4 DEF IsPath
<1>6. p[0] = 0
  <2>1. 0 \in 0 .. N
    OBVIOUS
  <2> QED
    BY <1>5, <2>1
<1>7. ASSUME NEW i \in 1 .. N
      PROVE  p[i] = p[i - 1] + q[i]
  <2>1. i \in 0 .. N /\ i # 0 /\ i - 1 \in 0 .. N
    OBVIOUS
  <2>2. p[i] = step[<<i, p[i - 1]>>] /\ p[i - 1] \in Int
    BY <1>5, <2>1
  <2> QED
    BY <1>3, <2>2
<1> QED
    BY <1>1, <1>5, <1>6, <1>7 DEF IsSum

\* The sum of what remains behind the head.
LEMMA SumTail ==
    ASSUME NEW q \in Seq(Int), q # <<>>, NEW p, IsSum(p, q), NEW r, IsSum(r, Tail(q))
    PROVE  r[Len(Tail(q))] = p[Len(q)] - Head(q)
<1>1. PICK N \in Nat : N + 1 = Len(q) /\ N = Len(Tail(q))
  <2>1. Len(q) \in Nat /\ Len(q) # 0 /\ Len(Tail(q)) = Len(q) - 1
    OBVIOUS
  <2>2. Len(q) - 1 \in Nat /\ (Len(q) - 1) + 1 = Len(q)
    BY <2>1
  <2> QED
    BY <2>1, <2>2
<1>2. Head(q) = q[1] /\ q[1] \in Int /\ \A i \in 1 .. N : Tail(q)[i] = q[i + 1]
    BY <1>1
<1>3. p \in [0 .. N + 1 -> Int] /\ p[0] = 0 /\ \A i \in 1 .. N + 1 : p[i] = p[i - 1] + q[i]
    BY <1>1 DEF IsSum
<1>4. r \in [0 .. N -> Int] /\ r[0] = 0 /\ \A i \in 1 .. N : r[i] = r[i - 1] + q[i + 1]
    BY <1>1, <1>2 DEF IsSum
<1> DEFINE T == {n \in 0 .. N : r[n] = p[n + 1] - q[1]}
<1>5. 0 \in T
  <2>1. p[1] = p[1 - 1] + q[1]
    BY <1>3
  <2> QED
    BY <1>2, <1>3, <1>4, <2>1
<1>6. ASSUME NEW n \in 0 .. N - 1, n \in T
      PROVE  n + 1 \in T
  <2>1. r[n + 1] = r[n] + q[n + 2]
  <3>1. n + 1 \in 1 .. N /\ (n + 1) - 1 = n /\ (n + 1) + 1 = n + 2
    OBVIOUS
  <3> QED
    BY <1>4, <3>1
  <2>2. p[n + 2] = p[n + 1] + q[n + 2]
  <3>1. n + 2 \in 1 .. N + 1 /\ (n + 2) - 1 = n + 1
    OBVIOUS
  <3> QED
    BY <1>3, <3>1
  <2>3. p[n + 1] \in Int /\ n + 2 \in 1 .. Len(q)
    BY <1>1, <1>3
  <2>4. q[n + 2] \in Int
    BY <2>3
  <2>5. r[n + 1] = p[n + 2] - q[1]
    BY <1>2, <1>6, <2>1, <2>2, <2>3, <2>4
  <2>6. (n + 1) + 1 = n + 2 /\ n + 1 \in 0 .. N
    OBVIOUS
  <2> QED
    BY <2>5, <2>6
<1>7. N \in T
  <2> HIDE DEF T
  <2>1. \A n \in 0 .. N : n \in T
    BY <1>5, <1>6, UpTo
  <2> QED
    BY <2>1
<1> QED
    BY <1>1, <1>2, <1>7

\* The sum of a sequence that another one is appended to.
LEMMA SumCat ==
    ASSUME NEW q \in Seq(Int), NEW r \in Seq(Int), NEW p, IsSum(p, q), NEW w, IsSum(w, r),
           NEW v, IsSum(v, q \o r)
    PROVE  v[Len(q \o r)] = p[Len(q)] + w[Len(r)]
<1>1. PICK N \in Nat, M \in Nat : N = Len(q) /\ M = Len(r) /\ N + M = Len(q \o r)
    OBVIOUS
<1>2. /\ \A i \in 1 .. N : (q \o r)[i] = q[i] /\ q[i] \in Int
      /\ \A i \in 1 .. M : (q \o r)[N + i] = r[i] /\ r[i] \in Int
  <2>1. ASSUME NEW i \in 1 .. M
        PROVE  (q \o r)[N + i] = r[i] /\ r[i] \in Int
    <3>1. N + i \in 1 .. N + M /\ ~ (N + i <= N) /\ N + i - N = i
      OBVIOUS
    <3> QED
      BY <1>1, <3>1
  <2> QED
    BY <1>1, <2>1
<1>3. /\ p \in [0 .. N -> Int] /\ p[0] = 0 /\ \A i \in 1 .. N : p[i] = p[i - 1] + q[i]
      /\ w \in [0 .. M -> Int] /\ w[0] = 0 /\ \A i \in 1 .. M : w[i] = w[i - 1] + r[i]
      /\ v \in [0 .. N + M -> Int] /\ v[0] = 0 /\ \A i \in 1 .. N + M : v[i] = v[i - 1] + (q \o r)[i]
    BY <1>1 DEF IsSum
<1> DEFINE T == {n \in 0 .. N : v[n] = p[n]}
<1>4. 0 \in T
    BY <1>3
<1>5. ASSUME NEW n \in 0 .. N - 1, n \in T
      PROVE  n + 1 \in T
  <2>1. n + 1 \in 1 .. N /\ n + 1 \in 1 .. N + M /\ (n + 1) - 1 = n
    OBVIOUS
  <2>2. (q \o r)[n + 1] = q[n + 1]
    BY <1>2, <2>1
  <2>3. v[n + 1] = v[n] + (q \o r)[n + 1]
    BY <1>3, <2>1
  <2>4. p[n + 1] = p[n] + q[n + 1]
    BY <1>3, <2>1
  <2> QED
    BY <1>5, <2>2, <2>3, <2>4
<1>6. N \in T
  <2> HIDE DEF T
  <2>1. \A n \in 0 .. N : n \in T
    BY <1>4, <1>5, UpTo
  <2> QED
    BY <2>1
<1> DEFINE U == {n \in 0 .. M : v[N + n] = p[N] + w[n]}
<1>7. 0 \in U
    BY <1>3, <1>6
<1>8. ASSUME NEW n \in 0 .. M - 1, n \in U
      PROVE  n + 1 \in U
  <2>1. n + 1 \in 1 .. M /\ (n + 1) - 1 = n /\ N + n + 1 \in 1 .. N + M /\ (N + n + 1) - 1 = N + n
        /\ N + (n + 1) = N + n + 1
    OBVIOUS
  <2>2. r[n + 1] \in Int /\ w[n + 1] = w[n] + r[n + 1]
    BY <1>2, <1>3, <2>1
  <2>5. v[N + n + 1] = v[N + n] + r[n + 1]
    <3>1. v[N + n + 1] = v[(N + n + 1) - 1] + (q \o r)[N + n + 1]
      BY <1>3, <2>1
    <3>2. (q \o r)[N + n + 1] = r[n + 1]
      <4>1. PICK m \in 1 .. M : m = n + 1
        BY <2>1
      <4>2. (q \o r)[N + m] = r[m]
        BY <1>2
      <4> QED
        BY <2>1, <4>1, <4>2
    <3> QED
      BY <2>1, <3>1, <3>2
  <2>3. p[N] \in Int /\ w[n] \in Int
    BY <1>3
  <2>4. v[N + n + 1] = p[N] + w[n + 1]
    BY <1>8, <2>2, <2>3, <2>5
  <2> QED
    BY <2>1, <2>4
<1>9. M \in U
  <2> HIDE DEF U
  <2>1. \A n \in 0 .. M : n \in U
    BY <1>7, <1>8, UpTo
  <2> QED
    BY <2>1
<1> QED
    BY <1>1, <1>9

\* The sum of k equal numbers.
LEMMA SumEqual ==
    ASSUME NEW k \in Nat, NEW q, k <= Len(q), Len(q) \in Nat, NEW u \in Int, NEW p, IsSum(p, q),
           \A i \in 1 .. k : q[i] = u
    PROVE  p[k] = k * u
<1>1. p \in [0 .. Len(q) -> Int] /\ p[0] = 0 /\ \A i \in 1 .. Len(q) : p[i] = p[i - 1] + q[i]
    BY DEF IsSum
<1> DEFINE T == {n \in 0 .. k : p[n] = n * u}
<1>2. 0 \in T
    BY <1>1
<1>3. ASSUME NEW n \in 0 .. k - 1, n \in T
      PROVE  n + 1 \in T
  <2>1. n + 1 \in 1 .. Len(q) /\ (n + 1) - 1 = n /\ n + 1 \in 1 .. k
    OBVIOUS
  <2>2. p[n + 1] = n * u + u
    BY <1>1, <1>3, <2>1
  <2>3. (n + 1) * u = n * u + u
    OBVIOUS
  <2> QED
    BY <2>1, <2>2, <2>3
<1>4. k \in T
  <2> HIDE DEF T
  <2>1. \A n \in 0 .. k : n \in T
    BY <1>2, <1>3, UpTo
  <2> QED
    BY <2>1
<1> QED
    BY <1>4

\* A sequence has one sum.
LEMMA SameSum ==
    ASSUME NEW q \in Seq(Int), NEW p, IsSum(p, q), NEW v, IsSum(v, q)
    PROVE  v[Len(q)] = p[Len(q)]
<1>1. PICK N \in Nat : N = Len(q)
    OBVIOUS
<1> DEFINE T == {n \in 0 .. N : v[n] = p[n]}
<1>2. 0 \in T
    BY <1>1 DEF IsSum
<1>3. ASSUME NEW n \in 0 .. N - 1, n \in T
      PROVE  n + 1 \in T
  <2>1. n + 1 \in 1 .. N /\ (n + 1) - 1 = n
    OBVIOUS
  <2>2. v[n + 1] = v[n] + q[n + 1] /\ p[n + 1] = p[n] + q[n + 1]
    BY <1>1, <2>1 DEF IsSum
  <2> QED
    BY <1>3, <2>1, <2>2
<1>4. N \in T
  <2> HIDE DEF T
  <2>1. \A n \in 0 .. N : n \in T
    BY <1>2, <1>3, UpTo
  <2> QED
    BY <2>1
<1> QED
    BY <1>1, <1>4

\* The sum of a sequence of numbers is one.
LEMMA LastSum ==
    ASSUME NEW q \in Seq(Int), NEW s, IsSum(s, q)
    PROVE  s[Len(q)] \in Int
<1>1. Len(q) \in Nat
    OBVIOUS
<1>2. Len(q) \in 0 .. Len(q)
    BY <1>1
<1> QED
    BY <1>2 DEF IsSum

=============================================================================
