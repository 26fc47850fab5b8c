----------------------------- MODULE DataLemmas -----------------------------
(***************************************************************************)
(* Lemmas about data that the proofs share: induction and recursion over   *)
(* the natural numbers and over finite sets, with sets in place of         *)
(* predicates and functions in place of operators; sums; and the lines and *)
(* cells of a text.                                                        *)
(***************************************************************************)
EXTENDS TextLines, SequenceTheorems, FiniteSetTheorems, TLAPS

(* A set of naturals that is not empty has a least element. *)
LEMMA LeastNat ==
  ASSUME NEW T \in SUBSET Nat, T # {}
  PROVE  \E n \in T : \A m \in T : n <= m
<1> DEFINE R == OpToRel(<, Nat)
<1>1. IsWellFoundedOn(R, Nat)
  BY NatLessThanWellFounded
<1>2. \A m, n \in Nat : m < n => <<m, n>> \in R
  BY DEF OpToRel
<1> HIDE DEF R
<1>3. PICK n \in T : \A m \in T : ~(<<m, n>> \in R)
  BY <1>1, WFMin
<1>4. \A m \in T : m \in Nat /\ n \in Nat /\ ~(m < n)
  BY <1>2, <1>3
<1> QED
  BY <1>4

(* Induction: a set that has 0 and, with a number, the next has them all.  *)
LEMMA NatSetInduction ==
  ASSUME NEW S, 0 \in S, \A n \in Nat : n \in S => n + 1 \in S
  PROVE  \A n \in Nat : n \in S
<1> DEFINE T == {n \in Nat : n \notin S}
<1>1. SUFFICES ASSUME T # {} PROVE FALSE
  OBVIOUS
<1>2. PICK n \in T : \A m \in T : n <= m
  <2> HIDE DEF T
  <2>1. T \in SUBSET Nat
    BY DEF T
  <2> QED
    BY <1>1, <2>1, LeastNat
<1>3. n - 1 \in Nat /\ n - 1 \notin T
  BY <1>2
<1> QED
  BY <1>2, <1>3

(* Recursion: a value for 0 and a step from each number to the next define *)
(* a function.                                                             *)
Iterates(f, base, step) == f[0] = base /\ \A n \in Nat : f[n + 1] = step[n][f[n]]

LEMMA Iteration ==
  ASSUME NEW S, NEW base \in S, NEW step \in [Nat -> [S -> S]]
  PROVE  \E f \in [Nat -> S] : Iterates(f, base, step)
<1> USE DEF Iterates
<1> DEFINE Approx(n) == {g \in [0 .. n -> S] :
                           g[0] = base /\ \A k \in 0 .. n - 1 : g[k + 1] = step[k][g[k]]}
           Defined == {n \in Nat : Approx(n) # {}}
<1>1. \A n \in Nat : n \in Defined
  <2>1. 0 \in Defined
    <3>1. [k \in 0 .. 0 |-> base] \in Approx(0)
      OBVIOUS
    <3> QED
      BY <3>1
  <2>2. ASSUME NEW n \in Nat, n \in Defined
        PROVE  n + 1 \in Defined
    <3>1. PICK g \in Approx(n) : TRUE
      BY <2>2
    <3> DEFINE h == [k \in 0 .. n + 1 |-> IF k = n + 1 THEN step[n][g[n]] ELSE g[k]]
    <3>2. g[n] \in S
      BY <3>1
    <3>3. step[n][g[n]] \in S
      BY <3>2
    <3>4. h \in [0 .. n + 1 -> S] /\ h[0] = base
      BY <3>1, <3>3
    <3>5. \A k \in 0 .. n : h[k + 1] = step[k][h[k]]
      BY <3>1
    <3> HIDE DEF h
    <3>6. h \in Approx(n + 1)
      BY <3>4, <3>5
    <3> QED
      BY <3>6
  <2> HIDE DEF Defined
  <2> QED
    BY <2>1, <2>2, NatSetInduction
<1>2. ASSUME NEW m \in Nat, NEW n \in Nat, NEW g \in Approx(m), NEW h \in Approx(n)
      PROVE  \A k \in Nat : k <= m /\ k <= n => g[k] = h[k]
  <2> DEFINE Same == {k \in Nat : k <= m /\ k <= n => g[k] = h[k]}
  <2>1. 0 \in Same
    OBVIOUS
  <2>2. ASSUME NEW k \in Nat, k \in Same
        PROVE  k + 1 \in Same
    <3>1. SUFFICES ASSUME k + 1 <= m, k + 1 <= n PROVE g[k + 1] = h[k + 1]
      OBVIOUS
    <3>2. k \in 0 .. m - 1 /\ k \in 0 .. n - 1
      BY <3>1
    <3> QED
      BY <2>2, <3>1, <3>2
  <2>3. \A k \in Nat : k \in Same
    <3> HIDE DEF Same
    <3> QED
      BY <2>1, <2>2, NatSetInduction
  <2> QED
    BY <2>3
<1> DEFINE G(n) == CHOOSE g : g \in Approx(n)
           f == [n \in Nat |-> G(n)[n]]
<1>3. \A n \in Nat : G(n) \in Approx(n)
  BY <1>1
<1> HIDE DEF G
<1>4. f \in [Nat -> S] /\ f[0] = base
  BY <1>3
<1>5. ASSUME NEW n \in Nat
      PROVE  f[n + 1] = step[n][f[n]]
  <2>1. G(n + 1)[n + 1] = step[n][G(n + 1)[n]]
    BY <1>3
  <2>2. G(n + 1)[n] = G(n)[n]
    <3> HIDE DEF Approx
    <3> QED
      BY <1>2, <1>3
  <2> QED
    BY <2>1, <2>2
<1> HIDE DEF f
<1> QED
  BY <1>4, <1>5

------------------------------------------------------------------------------
(* f is defined along a finite interval, as a LET-defined function is. *)
RecursUpTo(f, n, base, step) ==
  f = [i \in 0 .. n |-> IF i = 0 THEN base ELSE step[i][f[i - 1]]]

(* There is such a function. *)
LEMMA RecursionUpTo ==
  ASSUME NEW n \in Nat, NEW S, NEW base \in S, NEW step \in [1 .. n -> [S -> S]]
  PROVE  \E f \in [0 .. n -> S] : RecursUpTo(f, n, base, step)
<1> DEFINE all == [k \in Nat |-> IF k + 1 \in 1 .. n THEN step[k + 1] ELSE [x \in S |-> x]]
<1>1. all \in [Nat -> [S -> S]]
  OBVIOUS
<1>2. \A i \in 1 .. n : all[i - 1] = step[i]
  OBVIOUS
<1> HIDE DEF all
<1>3. PICK g \in [Nat -> S] : g[0] = base /\ \A k \in Nat : g[k + 1] = all[k][g[k]]
  <2>1. \E g \in [Nat -> S] : Iterates(g, base, all)
    BY <1>1, Iteration, Zenon
  <2> QED
    BY <2>1 DEF Iterates
<1> DEFINE f == [i \in 0 .. n |-> g[i]]
<1>4. \A i \in 1 .. n : g[i] = step[i][g[i - 1]]
  <2> TAKE i \in 1 .. n
  <2>1. i - 1 \in Nat /\ (i - 1) + 1 = i
    OBVIOUS
  <2> QED
    BY <1>2, <1>3, <2>1
<1>5. f \in [0 .. n -> S] /\ f[0] = base /\ \A i \in 1 .. n : f[i] = step[i][f[i - 1]]
  <2>1. \A i \in 0 .. n : i \in Nat /\ f[i] = g[i]
    OBVIOUS
  <2>2. f \in [0 .. n -> S]
    BY <1>3, <2>1
  <2>3. \A i \in 1 .. n : i \in 0 .. n /\ i - 1 \in 0 .. n
    OBVIOUS
  <2>4. 0 \in 0 .. n
    OBVIOUS
  <2> HIDE DEF f
  <2> QED
    BY <1>3, <1>4, <2>1, <2>2, <2>3, <2>4
<1>6. \A i \in 0 .. n : i = 0 \/ i \in 1 .. n
  OBVIOUS
<1> HIDE DEF f
<1>7. RecursUpTo(f, n, base, step)
  BY <1>5, <1>6 DEF RecursUpTo
<1> QED
  BY <1>5, <1>7

(* Induction over the subsets of a finite set. *)
LEMMA SubsetInduction ==
  ASSUME NEW S, IsFiniteSet(S), NEW P,
         \A s \in SUBSET S : (\A x \in s : s \ {x} \in P) => s \in P
  PROVE  \A s \in SUBSET S : s \in P
<1> DEFINE Sizes == {n \in Nat : \A s \in SUBSET S : Cardinality(s) <= n => s \in P}
<1>1. \A s \in SUBSET S : IsFiniteSet(s) /\ Cardinality(s) \in Nat
  BY FS_Subset, FS_CardinalityType
<1>2. 0 \in Sizes
  <2> SUFFICES ASSUME NEW s \in SUBSET S, Cardinality(s) <= 0
               PROVE  s \in P
    OBVIOUS
  <2>1. s = {}
    BY <1>1, FS_EmptySet
  <2> QED
    BY <2>1
<1>3. ASSUME NEW n \in Nat, n \in Sizes
      PROVE  n + 1 \in Sizes
  <2> SUFFICES ASSUME NEW s \in SUBSET S, Cardinality(s) <= n + 1, NEW x \in s
               PROVE  s \ {x} \in P
    OBVIOUS
  <2>1. Cardinality(s \ {x}) = Cardinality(s) - 1
    BY <1>1, FS_RemoveElement
  <2>2. Cardinality(s \ {x}) <= n /\ s \ {x} \in SUBSET S
    BY <1>1, <2>1
  <2> QED
    BY <1>3, <2>2
<1>4. \A n \in Nat : n \in Sizes
  <2> HIDE DEF Sizes
  <2> QED
    BY <1>2, <1>3, NatSetInduction
<1> QED
  BY <1>1, <1>4

(* Recursion over the subsets of a finite set: a value for the empty set   *)
(* and, for the others, the element that is taken away and the step that   *)
(* puts it back define a function.                                         *)
TakesFrom(first, S) == \A s \in SUBSET S : s # {} => first[s] \in s
StepsIn(op, S, V) == \A x \in S, v \in V : op[x][v] \in V
Recurs(f, S, base, first, op) ==
  \A s \in SUBSET S : f[s] = IF s = {} THEN base ELSE op[first[s]][f[s \ {first[s]}]]

(* There is such a function. *)
LEMMA SetRecursion ==
  ASSUME NEW S, IsFiniteSet(S), NEW V, NEW base \in V,
         NEW first, TakesFrom(first, S), NEW op, StepsIn(op, S, V)
  PROVE  \E f \in [SUBSET S -> V] : Recurs(f, S, base, first, op)
<1> USE DEF TakesFrom, StepsIn
<1> DEFINE Next(F) == [s \in SUBSET S |->
                         IF s = {} THEN base ELSE op[first[s]][F[s \ {first[s]}]]]
           step == [n \in Nat |-> [F \in [SUBSET S -> V] |-> Next(F)]]
           start == [s \in SUBSET S |-> base]
<1> DEFINE W == [SUBSET S -> V]
<1>1. ASSUME NEW F \in W
      PROVE  Next(F) \in W
  <2> SUFFICES ASSUME NEW s \in SUBSET S, s # {}
               PROVE  op[first[s]][F[s \ {first[s]}]] \in V
    OBVIOUS
  <2>1. first[s] \in S /\ F[s \ {first[s]}] \in V
    OBVIOUS
  <2> QED
    BY <2>1
<1>2. start \in W /\ step \in [Nat -> [W -> W]]
  <2> HIDE DEF Next, W
  <2>1. step \in [Nat -> [W -> W]]
    BY <1>1 DEF W
  <2>2. start \in W
    BY DEF W
  <2> QED
    BY <2>1, <2>2
<1>3. PICK it \in [Nat -> W] :
        it[0] = start /\ \A n \in Nat : it[n + 1] = Next(it[n])
  <2>1. PICK it \in [Nat -> W] :
          it[0] = start /\ \A n \in Nat : it[n + 1] = step[n][it[n]]
    <3> HIDE DEF step, start, W
    <3>1. \E it \in [Nat -> W] : Iterates(it, start, step)
      BY <1>2, Iteration, Zenon
    <3> QED
      BY <3>1 DEF Iterates
  <2> HIDE DEF Next, start, W
  <2>2. \A n \in Nat : step[n][it[n]] = Next(it[n])
    BY DEF W
  <2> QED
    BY <2>1, <2>2
<1>4. /\ \A n \in Nat : it[n] \in W /\ it[n][{}] = base
      /\ \A n \in Nat, s \in SUBSET S :
           s # {} => it[n + 1][s] = op[first[s]][it[n][s \ {first[s]}]]
  <2>1. \A n \in Nat, s \in SUBSET S :
          it[n + 1][s] = IF s = {} THEN base ELSE op[first[s]][it[n][s \ {first[s]}]]
    <3> SUFFICES ASSUME NEW n \in Nat
                 PROVE  \A s \in SUBSET S : it[n + 1][s] =
                          IF s = {} THEN base ELSE op[first[s]][it[n][s \ {first[s]}]]
      OBVIOUS
    <3> DEFINE F == it[n]
    <3>1. it[n + 1] = Next(F)
      BY <1>3
    <3> HIDE DEF F
    <3>2. \A s \in SUBSET S : it[n + 1][s] = IF s = {} THEN base ELSE op[first[s]][F[s \ {first[s]}]]
      BY <3>1
    <3> QED
      BY <3>2 DEF F
  <2>2. \A n \in Nat : it[n][{}] = base
    <3> SUFFICES ASSUME NEW n \in Nat PROVE it[n][{}] = base
      OBVIOUS
    <3>1. CASE n = 0
      BY <1>3, <3>1
    <3>2. CASE n # 0
      <4>1. n - 1 \in Nat /\ n = (n - 1) + 1
        BY <3>2
      <4> QED
        BY <2>1, <4>1
    <3> QED
      BY <3>1, <3>2
  <2> HIDE DEF W, Next
  <2> QED
    BY <1>3, <2>1, <2>2
<1> HIDE DEF step, start
<1> DEFINE Stable == {n \in Nat : \A s \in SUBSET S : Cardinality(s) <= n => it[n + 1][s] = it[n][s]}
<1>5. \A n \in Nat : n \in Stable
  <2> HIDE DEF Next, W
  <2>1. 0 \in Stable
    <3>1. ASSUME NEW s \in SUBSET S, Cardinality(s) <= 0
          PROVE  s = {}
      <4>1. IsFiniteSet(s) /\ Cardinality(s) \in Nat
        BY FS_Subset, FS_CardinalityType
      <4> QED
        BY <3>1, <4>1, FS_EmptySet
    <3>2. it[0 + 1][{}] = it[0][{}]
      BY <1>4
    <3> QED
      BY <3>1, <3>2
  <2>2. ASSUME NEW n \in Nat, n \in Stable
        PROVE  n + 1 \in Stable
    <3> SUFFICES ASSUME NEW s \in SUBSET S, Cardinality(s) <= n + 1
                 PROVE  it[n + 1 + 1][s] = it[n + 1][s]
      OBVIOUS
    <3>1. CASE s = {}
      BY <1>4, <3>1
    <3>2. CASE s # {}
      <4> DEFINE r == s \ {first[s]}
      <4>1. r \in SUBSET S /\ Cardinality(r) <= n
        <5>1. first[s] \in s /\ IsFiniteSet(s)
          BY <3>2, FS_Subset
        <5>2. Cardinality(r) = Cardinality(s) - 1 /\ Cardinality(s) \in Nat
          BY <5>1, FS_RemoveElement, FS_CardinalityType
        <5> QED
          BY <5>2
      <4>2. it[n + 1][r] = it[n][r]
        BY <2>2, <4>1
      <4>3. it[n + 1][s] = op[first[s]][it[n][r]]
        BY <1>4, <3>2
      <4>4. n + 1 \in Nat
        OBVIOUS
      <4>5. it[n + 1 + 1][s] = op[first[s]][it[n + 1][r]]
        BY <1>4, <3>2, <4>4
      <4> QED
        BY <4>2, <4>3, <4>5
    <3> QED
      BY <3>1, <3>2
  <2> HIDE DEF Stable
  <2> QED
    BY <2>1, <2>2, NatSetInduction
<1> DEFINE N == Cardinality(S)
<1>6. N \in Nat /\ \A s \in SUBSET S : Cardinality(s) <= N
  BY FS_Subset, FS_CardinalityType
<1> HIDE DEF N, Next
<1>7. \A s \in SUBSET S : it[N + 1][s] = it[N][s]
  BY <1>5, <1>6
<1>8. \A s \in SUBSET S :
        it[N][s] = IF s = {} THEN base ELSE op[first[s]][it[N][s \ {first[s]}]]
  BY <1>4, <1>6, <1>7
<1> DEFINE f == it[N]
<1>9. f \in [SUBSET S -> V]
  BY <1>4, <1>6
<1>10. \A s \in SUBSET S :
         f[s] = IF s = {} THEN base ELSE op[first[s]][f[s \ {first[s]}]]
  BY <1>8
<1> QED
  BY <1>9, <1>10 DEF Recurs

------------------------------------------------------------------------------
(* The sum of a function over a finite set (SumFunctionOnSet).  Its        *)
(* definition takes the elements in an order of its own.                   *)
SumsBy(f, w, S) ==
  /\ f \in [SUBSET S -> Int]
  /\ f[{}] = 0
  /\ \A s \in SUBSET S : s # {} =>
       LET c == CHOOSE x \in s : TRUE IN f[s] = w[c] + f[s \ {c}]

(* A sum is what the recursion by chosen elements makes of its set. *)
LEMMA SumByChoice ==
  ASSUME NEW S, IsFiniteSet(S), NEW w, \A x \in S : w[x] \in Int
  PROVE  \E f : SumsBy(f, w, S) /\ SumFunctionOnSet(w, S) = f[S]
<1> DEFINE first == [s \in SUBSET S |-> CHOOSE x \in s : TRUE]
           op == [x \in S |-> [v \in Int |-> w[x] + v]]
           Equation(f) == f = [s \in SUBSET S |->
                                 IF s = {} THEN 0
                                 ELSE LET c == CHOOSE x \in s : TRUE IN w[c] + f[s \ {c}]]
           sum == CHOOSE f : Equation(f)
<1>1. TakesFrom(first, S)
  BY DEF TakesFrom
<1>2. StepsIn(op, S, Int)
  BY DEF StepsIn
<1>3. PICK g \in [SUBSET S -> Int] : Recurs(g, S, 0, first, op)
  <2> HIDE DEF first, op
  <2>1. 0 \in Int
    OBVIOUS
  <2> QED
    BY <1>1, <1>2, <2>1, SetRecursion, Zenon
<1>4. Equation(g)
  <2>1. \A s \in SUBSET S : s # {} =>
          /\ first[s] \in S /\ first[s] = CHOOSE x \in s : TRUE
          /\ g[s \ {first[s]}] \in Int
    OBVIOUS
  <2>2. \A s \in SUBSET S : s # {} =>
          op[first[s]][g[s \ {first[s]}]] = w[first[s]] + g[s \ {first[s]}]
    BY <2>1
  <2>3. \A s \in SUBSET S : g[s] = IF s = {} THEN 0
                                   ELSE LET c == CHOOSE x \in s : TRUE IN w[c] + g[s \ {c}]
    <3> HIDE DEF op, first
    <3> QED
      BY <1>1, <1>3, <2>1, <2>2 DEF Recurs
  <2> HIDE DEF op, first
  <2> QED
    BY <1>1, <1>3, <2>3
<1>5. Equation(sum)
  <2> HIDE DEF Equation
  <2> QED
    BY <1>4, Zenon
<1>6. SumFunctionOnSet(w, S) = sum[S]
  BY DEF SumFunctionOnSet, FoldFunctionOnSet, MapThenFoldSet
<1> HIDE DEF sum
<1>7. /\ sum[{}] = 0
      /\ \A s \in SUBSET S : s # {} =>
           LET c == CHOOSE x \in s : TRUE IN sum[s] = w[c] + sum[s \ {c}]
  BY <1>5
<1>8. /\ g[{}] = 0
      /\ \A s \in SUBSET S : s # {} =>
           LET c == CHOOSE x \in s : TRUE IN g[s] = w[c] + g[s \ {c}]
  BY <1>4
<1> HIDE DEF op, first
<1> DEFINE Same == {s \in SUBSET S : sum[s] = g[s]}
<1>9. ASSUME NEW s \in SUBSET S, \A x \in s : s \ {x} \in Same
      PROVE  s \in Same
  <2>1. CASE s = {}
    BY <1>7, <1>8, <2>1
  <2>2. CASE s # {}
    <3> DEFINE c == CHOOSE x \in s : TRUE
    <3>1. c \in s
      BY <2>2
    <3>2. sum[s] = w[c] + sum[s \ {c}] /\ g[s] = w[c] + g[s \ {c}]
      BY <1>7, <1>8, <2>2
    <3> HIDE DEF c
    <3> QED
      BY <1>9, <3>1, <3>2
  <2> QED
    BY <2>1, <2>2
<1>10. \A s \in SUBSET S : sum[s] = g[s]
  <2> HIDE DEF Same
  <2>1. \A s \in SUBSET S : s \in Same
    BY <1>9, SubsetInduction
  <2> QED
    BY <2>1 DEF Same
<1>11. SumsBy(g, w, S)
  BY <1>8 DEF SumsBy
<1> HIDE DEF Equation
<1> QED
  BY <1>6, <1>10, <1>11

(* The order of the elements is the same for functions that agree. *)
LEMMA SumsAgree ==
  ASSUME NEW S, IsFiniteSet(S), NEW T \in SUBSET S,
         NEW v, NEW w, \A x \in T : v[x] = w[x],
         NEW f, SumsBy(f, v, S), NEW g, SumsBy(g, w, T)
  PROVE  f[T] = g[T]
<1> DEFINE Same == {s \in SUBSET T : f[s] = g[s]}
<1>1. ASSUME NEW s \in SUBSET T, \A x \in s : s \ {x} \in Same
      PROVE  s \in Same
  <2>1. CASE s = {}
    BY <2>1 DEF SumsBy
  <2>2. CASE s # {}
    <3> DEFINE c == CHOOSE x \in s : TRUE
    <3>1. c \in s
      BY <2>2
    <3>2. f[s] = v[c] + f[s \ {c}] /\ g[s] = w[c] + g[s \ {c}]
      BY <2>2 DEF SumsBy
    <3> HIDE DEF c
    <3> QED
      BY <1>1, <3>1, <3>2
  <2> QED
    BY <2>1, <2>2
<1>2. IsFiniteSet(T)
  BY FS_Subset
<1>3. \A s \in SUBSET T : s \in Same
  <2> HIDE DEF Same
  <2> QED
    BY <1>1, <1>2, SubsetInduction
<1> QED
  BY <1>3

(* Functions that agree on a finite set have the same sum over it. *)
LEMMA SumSame ==
  ASSUME NEW S, IsFiniteSet(S),
         NEW v, \A x \in S : v[x] \in Int,
         NEW w, \A x \in S : w[x] = v[x]
  PROVE  SumFunctionOnSet(w, S) = SumFunctionOnSet(v, S)
<1>1. PICK f : SumsBy(f, v, S) /\ SumFunctionOnSet(v, S) = f[S]
  BY SumByChoice
<1>2. PICK g : SumsBy(g, w, S) /\ SumFunctionOnSet(w, S) = g[S]
  BY SumByChoice
<1> QED
  BY <1>1, <1>2, SumsAgree

(* The sum over no elements is zero. *)
LEMMA SumEmpty ==
  ASSUME NEW w
  PROVE  SumFunctionOnSet(w, {}) = 0
<1>1. IsFiniteSet({})
  BY FS_EmptySet
<1>2. \A x \in {} : w[x] \in Int
  OBVIOUS
<1>3. PICK f : SumsBy(f, w, {}) /\ SumFunctionOnSet(w, {}) = f[{}]
  BY <1>1, <1>2, SumByChoice
<1> QED
  BY <1>3 DEF SumsBy

(* A sum is an element's value and the sum over the others. *)
LEMMA SumRemove ==
  ASSUME NEW S, IsFiniteSet(S), NEW w, \A x \in S : w[x] \in Int
  PROVE  /\ SumFunctionOnSet(w, S) \in Int
         /\ \A x \in S : SumFunctionOnSet(w, S) = w[x] + SumFunctionOnSet(w, S \ {x})
<1>1. PICK f : SumsBy(f, w, S) /\ SumFunctionOnSet(w, S) = f[S]
  BY SumByChoice
<1>2. ASSUME NEW T \in SUBSET S
      PROVE  SumFunctionOnSet(w, T) = f[T]
  <2>1. IsFiniteSet(T)
    BY FS_Subset
  <2>2. PICK g : SumsBy(g, w, T) /\ SumFunctionOnSet(w, T) = g[T]
    BY <2>1, SumByChoice
  <2> QED
    BY <1>1, <2>2, SumsAgree
<1> DEFINE Free == {s \in SUBSET S : \A x \in s : f[s] = w[x] + f[s \ {x}]}
<1>3. ASSUME NEW s \in SUBSET S, \A x \in s : s \ {x} \in Free
      PROVE  s \in Free
  <2> SUFFICES ASSUME NEW x \in s
               PROVE  f[s] = w[x] + f[s \ {x}]
    OBVIOUS
  <2> DEFINE c == CHOOSE y \in s : TRUE
  <2>1. c \in s /\ f[s] = w[c] + f[s \ {c}]
    BY <1>1 DEF SumsBy
  <2> HIDE DEF c
  <2>2. CASE x = c
    BY <2>1, <2>2
  <2>3. CASE x # c
    <3> DEFINE r == s \ {c, x}
    <3>1. r = (s \ {c}) \ {x} /\ r = (s \ {x}) \ {c} /\ r \in SUBSET S
      OBVIOUS
    <3>2. f[s \ {c}] = w[x] + f[r]
      BY <1>3, <2>1, <2>3, <3>1
    <3>3. f[s \ {x}] = w[c] + f[r]
      BY <1>3, <2>1, <2>3, <3>1
    <3>4. f[r] \in Int /\ w[x] \in Int /\ w[c] \in Int
      BY <1>1, <2>1, <3>1 DEF SumsBy
    <3> HIDE DEF r
    <3> QED
      BY <2>1, <3>2, <3>3, <3>4
  <2> QED
    BY <2>2, <2>3
<1>4. \A s \in SUBSET S : s \in Free
  <2> HIDE DEF Free
  <2> QED
    BY <1>3, SubsetInduction
<1>5. \A x \in S : f[S] = w[x] + f[S \ {x}]
  BY <1>4
<1>6. f[S] \in Int
  BY <1>1 DEF SumsBy
<1> QED
  BY <1>1, <1>2, <1>5, <1>6

(* An element more adds its value. *)
LEMMA SumAdd ==
  ASSUME NEW S, IsFiniteSet(S), NEW w, NEW x, x \notin S,
         \A y \in S \cup {x} : w[y] \in Int
  PROVE  SumFunctionOnSet(w, S \cup {x}) = w[x] + SumFunctionOnSet(w, S)
<1>1. IsFiniteSet(S \cup {x}) /\ (S \cup {x}) \ {x} = S
  BY FS_AddElement
<1> QED
  BY <1>1, SumRemove

(* A sum of values that are not negative is not negative. *)
LEMMA SumNat ==
  ASSUME NEW S, IsFiniteSet(S), NEW w, \A x \in S : w[x] \in Nat
  PROVE  SumFunctionOnSet(w, S) \in Nat
<1> DEFINE P == {s \in SUBSET S : SumFunctionOnSet(w, s) \in Nat}
<1>1. ASSUME NEW s \in SUBSET S, \A x \in s : s \ {x} \in P
      PROVE  s \in P
  <2>1. CASE s = {}
    BY <2>1, SumEmpty
  <2>2. ASSUME NEW x \in s
        PROVE  s \in P
    <3>1. IsFiniteSet(s) /\ \A y \in s : w[y] \in Int
      BY FS_Subset
    <3>2. SumFunctionOnSet(w, s) = w[x] + SumFunctionOnSet(w, s \ {x})
      BY <3>1, SumRemove
    <3>3. w[x] \in Nat /\ SumFunctionOnSet(w, s \ {x}) \in Nat
      BY <1>1
    <3> QED
      BY <3>2, <3>3
  <2> QED
    BY <2>1, <2>2
<1>2. \A s \in SUBSET S : s \in P
  <2> HIDE DEF P
  <2> QED
    BY <1>1, SubsetInduction
<1> QED
  BY <1>2

------------------------------------------------------------------------------
(* The members of a finite set of integers by their rank. *)
Rank(S, i) == Cardinality({j \in S : j < i})
Nth(S, k) == CHOOSE i \in S : Rank(S, i) = k

(* The ranks in a finite set are below its size, and a larger number has *)
(* a larger one.                                                         *)
LEMMA RankFacts ==
  ASSUME NEW S \in SUBSET Int, IsFiniteSet(S), NEW i \in S
  PROVE  /\ Cardinality(S) \in Nat
         /\ Rank(S, i) \in 0 .. Cardinality(S) - 1
         /\ \A j \in S : i < j => Rank(S, i) < Rank(S, j)
<1>1. /\ IsFiniteSet(S \ {i}) /\ Cardinality(S \ {i}) = Cardinality(S) - 1
      /\ Cardinality(S) \in Nat /\ Cardinality(S \ {i}) \in Nat
  BY FS_RemoveElement, FS_CardinalityType
<1>2. \A j \in S : IsFiniteSet({k \in S : k < j}) /\ Rank(S, j) \in Nat
  <2> TAKE j \in S
  <2>1. {k \in S : k < j} \in SUBSET S
    OBVIOUS
  <2> QED
    BY <2>1, FS_Subset, FS_CardinalityType DEF Rank
<1>3. Rank(S, i) <= Cardinality(S) - 1
  <2>1. {k \in S : k < i} \in SUBSET (S \ {i})
    OBVIOUS
  <2> QED
    BY <1>1, <2>1, FS_Subset DEF Rank
<1>4. ASSUME NEW j \in S, i < j
      PROVE  Rank(S, i) < Rank(S, j)
  <2> DEFINE A == {k \in S : k < i}
             B == {k \in S : k < j}
  <2>1. i \notin A /\ A \cup {i} \in SUBSET B
    <3>1. \A k \in S : k \in Int
      OBVIOUS
    <3>2. \A k \in S : k < i => k < j
      BY <1>4, <3>1
    <3>3. ~(i < i)
      BY <3>1
    <3> QED
      BY <1>4, <3>2, <3>3
  <2>2. IsFiniteSet(A) /\ IsFiniteSet(B) /\ Rank(S, i) = Cardinality(A) /\ Rank(S, j) = Cardinality(B)
    BY <1>2 DEF Rank
  <2> HIDE DEF A, B
  <2>3. Cardinality(A \cup {i}) = Cardinality(A) + 1
    BY <2>1, <2>2, FS_AddElement
  <2>4. Cardinality(A \cup {i}) <= Cardinality(B)
    BY <2>1, <2>2, FS_Subset
  <2>5. Cardinality(A) \in Nat /\ Cardinality(B) \in Nat
    BY <2>2, FS_CardinalityType
  <2> QED
    BY <2>2, <2>3, <2>4, <2>5
<1>5. Rank(S, i) \in Nat
  BY <1>2
<1>6. Rank(S, i) \in 0 .. Cardinality(S) - 1
  BY <1>1, <1>3, <1>5
<1> QED
  BY <1>1, <1>4, <1>6

(* A finite set of integers that is not empty has a greatest element. *)
LEMMA GreatestInt ==
  ASSUME NEW S \in SUBSET Int, IsFiniteSet(S), S # {}
  PROVE  \E m \in S : \A i \in S : i <= m
<1> DEFINE P == {s \in SUBSET S : s = {} \/ \E m \in s : \A i \in s : i <= m}
<1>1. ASSUME NEW s \in SUBSET S, \A x \in s : s \ {x} \in P
      PROVE  s \in P
  <2> SUFFICES ASSUME NEW x \in s PROVE \E m \in s : \A i \in s : i <= m
    OBVIOUS
  <2>1. CASE s \ {x} = {}
    <3>1. \A i \in s : i = x
      BY <2>1
    <3> QED
      BY <3>1
  <2>2. CASE s \ {x} # {}
    <3>1. PICK m \in s \ {x} : \A i \in s \ {x} : i <= m
      BY <1>1, <2>2
    <3>2. x \in Int /\ m \in Int /\ m \in s
      OBVIOUS
    <3>3. CASE x <= m
      BY <3>1, <3>2, <3>3
    <3>4. CASE m <= x
      BY <3>1, <3>2, <3>4
    <3> QED
      BY <3>2, <3>3, <3>4
  <2> QED
    BY <2>1, <2>2
<1>2. \A s \in SUBSET S : s \in P
  <2> HIDE DEF P
  <2> QED
    BY <1>1, SubsetInduction
<1> QED
  BY <1>2

(* The greatest of a finite set of integers. *)
LEMMA MaxFacts ==
  ASSUME NEW S \in SUBSET Int, IsFiniteSet(S), S # {}
  PROVE  Max(S) \in S /\ \A i \in S : i <= Max(S)
<1>1. PICK m \in S : \A i \in S : i <= m
  BY GreatestInt
<1>2. \A i \in S : i \in Int
  OBVIOUS
<1>3. \A i \in S : m >= i
  BY <1>1, <1>2
<1>4. Max(S) \in S /\ \A i \in S : Max(S) >= i
  BY <1>3 DEF Max
<1> QED
  BY <1>2, <1>4

(* The least of a set of naturals. *)
LEMMA MinFacts ==
  ASSUME NEW S \in SUBSET Nat, S # {}
  PROVE  Min(S) \in S /\ \A i \in S : Min(S) <= i
<1>1. PICK m \in S : \A i \in S : m <= i
  BY LeastNat
<1> QED
  BY <1>1 DEF Min

(* Every rank is taken, *)
LEMMA RankTaken ==
  ASSUME NEW S \in SUBSET Int, IsFiniteSet(S)
  PROVE  \A k \in 0 .. Cardinality(S) - 1 : \E i \in S : Rank(S, i) = k
<1> DEFINE P == {s \in SUBSET S : \A k \in 0 .. Cardinality(s) - 1 : \E i \in s : Rank(s, i) = k}
<1>1. ASSUME NEW s \in SUBSET S, \A x \in s : s \ {x} \in P
      PROVE  s \in P
  <2>1. IsFiniteSet(s) /\ Cardinality(s) \in Nat
    BY FS_Subset, FS_CardinalityType
  <2> SUFFICES ASSUME NEW k \in 0 .. Cardinality(s) - 1 PROVE \E i \in s : Rank(s, i) = k
    OBVIOUS
  <2>2. s # {}
    BY <2>1, FS_EmptySet
  <2>3. PICK m \in s : \A i \in s : i <= m
    BY <2>1, <2>2, GreatestInt
  <2> DEFINE r == s \ {m}
  <2>4. Cardinality(r) = Cardinality(s) - 1
    BY <2>1, FS_RemoveElement
  <2>5. {j \in s : j < m} = r /\ \A i \in r : {j \in s : j < i} = {j \in r : j < i}
    <3>1. \A j \in s : j \in Int
      OBVIOUS
    <3>2. \A j \in s : j < m <=> j # m
      BY <2>3, <3>1
    <3>3. \A i \in r : ~(m < i)
      BY <2>3, <3>1
    <3> QED
      BY <3>2, <3>3
  <2>6. Rank(s, m) = Cardinality(r) /\ \A i \in r : Rank(s, i) = Rank(r, i)
    BY <2>5 DEF Rank
  <2>7. CASE k = Cardinality(s) - 1
    BY <2>4, <2>6, <2>7
  <2>8. CASE k < Cardinality(s) - 1
    <3>1. k \in 0 .. Cardinality(r) - 1
      BY <2>1, <2>4, <2>8
    <3>2. PICK i \in r : Rank(r, i) = k
      BY <1>1, <3>1
    <3> QED
      BY <2>6, <3>2
  <2> QED
    BY <2>1, <2>7, <2>8
<1>2. \A s \in SUBSET S : s \in P
  <2> HIDE DEF P
  <2> QED
    BY <1>1, SubsetInduction
<1> QED
  BY <1>2

(* so that the choice by rank is the one member of that rank. *)
LEMMA NthIs ==
  ASSUME NEW S \in SUBSET Int, IsFiniteSet(S)
  PROVE  /\ \A i \in S : Nth(S, Rank(S, i)) = i
         /\ \A k \in 0 .. Cardinality(S) - 1 : Nth(S, k) \in S /\ Rank(S, Nth(S, k)) = k
<1>1. \A i, j \in S : Rank(S, i) = Rank(S, j) => i = j
  <2> SUFFICES ASSUME NEW i \in S, NEW j \in S, Rank(S, i) = Rank(S, j), i # j
               PROVE  FALSE
    OBVIOUS
  <2>1. i < j => Rank(S, i) < Rank(S, j)
    BY RankFacts
  <2>2. j < i => Rank(S, j) < Rank(S, i)
    BY RankFacts
  <2>3. Rank(S, i) \in Int
    BY RankFacts
  <2>4. i \in Int /\ j \in Int
    OBVIOUS
  <2> QED
    BY <2>1, <2>2, <2>3, <2>4
<1>2. \A i \in S : Nth(S, Rank(S, i)) = i
  BY <1>1 DEF Nth
<1>3. \A k \in 0 .. Cardinality(S) - 1 : Nth(S, k) \in S /\ Rank(S, Nth(S, k)) = k
  BY RankTaken DEF Nth
<1> QED
  BY <1>2, <1>3

------------------------------------------------------------------------------
(* Two different values make a set of two. *)
LEMMA PairSize ==
  ASSUME NEW x, NEW y, x # y
  PROVE  IsFiniteSet({x, y}) /\ Cardinality({x, y}) = 2
<1>1. IsFiniteSet({x}) /\ Cardinality({x}) = 1 /\ y \notin {x}
  BY FS_Singleton
<1>2. IsFiniteSet({x} \cup {y}) /\ Cardinality({x} \cup {y}) = 2
  BY <1>1, FS_AddElement
<1>3. {x} \cup {y} = {x, y}
  OBVIOUS
<1> QED
  BY <1>2, <1>3

(* A function over the first n positions is a sequence of n. *)
LEMMA TupleOfFunction ==
  ASSUME NEW T, NEW n \in Nat, NEW f \in [1 .. n -> T]
  PROVE  f \in Seq(T) /\ Len(f) = n
OBVIOUS

(* The positions that separate the parts of a text. *)
Ends(text, byte) == {0, Len(text) + 1} \cup {i \in DOMAIN text : text[i] = byte}

(* The ends of the parts of a text are finitely many positions, the *)
(* first 0 and the last behind the text.                            *)
LEMMA EndsFacts ==
  ASSUME NEW B, NEW text \in Seq(B), NEW byte
  PROVE  /\ Ends(text, byte) \in SUBSET (0 .. Len(text) + 1)
         /\ Ends(text, byte) \in SUBSET Int
         /\ IsFiniteSet(Ends(text, byte))
         /\ 0 \in Ends(text, byte) /\ Len(text) + 1 \in Ends(text, byte)
<1>1. Ends(text, byte) \in SUBSET (0 .. Len(text) + 1)
  BY DEF Ends
<1>2. IsFiniteSet(0 .. Len(text) + 1)
  BY FS_Interval
<1>3. IsFiniteSet(Ends(text, byte))
  BY <1>1, <1>2, FS_Subset
<1> QED
  BY <1>1, <1>3 DEF Ends

ByRank(parts, S, text, B) ==
  /\ Cardinality(S) \in Nat /\ Cardinality(S) >= 2
  /\ \A k \in 0 .. Cardinality(S) - 1 : Nth(S, k) \in 0 .. Len(text) + 1
  /\ parts \in Seq(Seq(B))
  /\ Len(parts) = Cardinality(S) - 1
  /\ \A k \in 1 .. Cardinality(S) - 1 :
       parts[k] = SubSeq(text, Nth(S, k - 1) + 1, Nth(S, k) - 1)

(* The parts of a text run from one end to the next. *)
LEMMA PartsByRank ==
  ASSUME NEW B, NEW text \in Seq(B), NEW byte
  PROVE  ByRank(Parts(text, byte), Ends(text, byte), text, B)
<1> DEFINE S == Ends(text, byte)
<1>1. /\ S \in SUBSET (0 .. Len(text) + 1) /\ IsFiniteSet(S) /\ S \in SUBSET Int
      /\ 0 \in S /\ Len(text) + 1 \in S /\ Len(text) \in Nat
  BY EndsFacts
<1> HIDE DEF S
<1>2. Cardinality(S) \in Nat /\ Cardinality(S) >= 2
  <2>1. 0 # Len(text) + 1 /\ {0, Len(text) + 1} \in SUBSET S
    BY <1>1
  <2>2. Cardinality({0, Len(text) + 1}) = 2
    BY <2>1, PairSize
  <2>3. Cardinality({0, Len(text) + 1}) <= Cardinality(S)
    BY <1>1, <2>1, FS_Subset
  <2> QED
    BY <1>1, <2>2, <2>3, FS_CardinalityType
<1>3. \A k \in 0 .. Cardinality(S) - 1 : Nth(S, k) \in S /\ Nth(S, k) \in 0 .. Len(text) + 1
  BY <1>1, NthIs
<1> DEFINE n == Cardinality(S) - 1
           p == [k \in 1 .. n |-> SubSeq(text, Nth(S, k - 1) + 1, Nth(S, k) - 1)]
<1>4. Parts(text, byte) = p
  BY DEF Parts, Ends, Nth, Rank, S
<1>5. \A k \in 1 .. n : SubSeq(text, Nth(S, k - 1) + 1, Nth(S, k) - 1) \in Seq(B)
  <2> TAKE k \in 1 .. n
  <2>1. k - 1 \in 0 .. Cardinality(S) - 1 /\ k \in 0 .. Cardinality(S) - 1
    BY <1>2
  <2> DEFINE a == Nth(S, k - 1)
             b == Nth(S, k)
  <2>2. a \in 0 .. Len(text) + 1 /\ b \in 0 .. Len(text) + 1
    BY <1>3, <2>1
  <2> HIDE DEF a, b
  <2>3. \A i \in a + 1 .. b - 1 : text[i] \in B
    BY <2>2
  <2> QED
    BY <2>2, <2>3, SubSeqProperties DEF a, b
<1>6. n \in Nat /\ p \in [1 .. n -> Seq(B)]
  BY <1>2, <1>5
<1> HIDE DEF n
<1>7. \A k \in 1 .. n : p[k] = SubSeq(text, Nth(S, k - 1) + 1, Nth(S, k) - 1)
  OBVIOUS
<1> HIDE DEF p
<1>8. p \in Seq(Seq(B)) /\ Len(p) = n
  BY <1>6, TupleOfFunction
<1> QED
  BY <1>2, <1>3, <1>4, <1>7, <1>8 DEF n, S, ByRank

(* A text without separators is one part. *)
LEMMA PartsWhole ==
  ASSUME NEW B, NEW text \in Seq(B), NEW byte, \A i \in DOMAIN text : text[i] # byte
  PROVE  Parts(text, byte) = <<text>>
<1> DEFINE S == {0, Len(text) + 1}
<1>1. S = Ends(text, byte) /\ Len(text) \in Nat
  BY DEF Ends
<1>2. Cardinality(S) = 2 /\ IsFiniteSet(S)
  <2>1. 0 # Len(text) + 1
    BY <1>1
  <2> QED
    BY <2>1, PairSize
<1>3. Rank(S, 0) = 0 /\ Rank(S, Len(text) + 1) = 1
  <2>1. {j \in S : j < 0} = {} /\ {j \in S : j < Len(text) + 1} = {0}
    BY <1>1
  <2> QED
    BY <2>1, FS_EmptySet, FS_Singleton DEF Rank
<1>4. Nth(S, 0) = 0 /\ Nth(S, 1) = Len(text) + 1
  <2>1. S \in SUBSET Int
    BY <1>1
  <2> QED
    BY <1>2, <1>3, <2>1, NthIs
<1> HIDE DEF S
<1>5. /\ Parts(text, byte)[1] = SubSeq(text, 1, Len(text))
      /\ Len(Parts(text, byte)) = 1 /\ Parts(text, byte) \in Seq(Seq(B))
  <2>1. ByRank(Parts(text, byte), S, text, B)
    BY <1>1, PartsByRank, Zenon
  <2>2. 1 \in 1 .. Cardinality(S) - 1 /\ 1 - 1 = 0 /\ 0 + 1 = 1
    BY <1>2
  <2>3. Parts(text, byte)[1] = SubSeq(text, Nth(S, 1 - 1) + 1, Nth(S, 1) - 1)
    BY <2>1, <2>2 DEF ByRank
  <2>4. Nth(S, 1) - 1 = Len(text)
    BY <1>1, <1>4
  <2> QED
    BY <1>2, <1>4, <2>1, <2>3, <2>4 DEF ByRank
<1>6. SubSeq(text, 1, Len(text)) = text
  BY SubSeqFull
<1> QED
  BY <1>5, <1>6

(* Numbers that are moved up keep their ranks. *)
Shifted(S, e) == {j + e : j \in S}

(* Moving the numbers of a set by the same distance keeps how many they *)
(* are.                                                                 *)
LEMMA ShiftedFacts ==
  ASSUME NEW S \in SUBSET Int, IsFiniteSet(S), NEW e \in Int
  PROVE  /\ IsFiniteSet(Shifted(S, e)) /\ Shifted(S, e) \in SUBSET Int
         /\ Cardinality(Shifted(S, e)) = Cardinality(S)
<1> DEFINE f == [j \in S |-> j + e]
<1>1. f \in Bijection(S, Shifted(S, e))
  <2>1. f \in [S -> Shifted(S, e)]
    BY DEF Shifted
  <2>2. \A i, j \in S : f[i] = f[j] => i = j
    OBVIOUS
  <2>3. \A t \in Shifted(S, e) : \E j \in S : f[j] = t
    BY DEF Shifted
  <2> QED
    BY <2>1, <2>2, <2>3 DEF Bijection, Injection, Surjection, IsInjective
<1>2. ExistsBijection(S, Shifted(S, e))
  BY <1>1 DEF ExistsBijection
<1>3. Shifted(S, e) \in SUBSET Int
  BY DEF Shifted
<1> QED
  BY <1>2, <1>3, FS_Bijection

(* Naturals that are moved up with a zero put before them have the next *)
(* rank.                                                                *)
LEMMA RankShifted ==
  ASSUME NEW T \in SUBSET Nat, IsFiniteSet(T), NEW e \in Nat \ {0},
         NEW S, S = {0} \cup Shifted(T, e)
  PROVE  /\ IsFiniteSet(S) /\ S \in SUBSET Int
         /\ Cardinality(S) = Cardinality(T) + 1
         /\ Nth(S, 0) = 0
         /\ \A k \in 0 .. Cardinality(T) - 1 : Nth(S, k + 1) = Nth(T, k) + e
<1>1. \A j \in T : j \in Nat
  OBVIOUS
<1>2. ASSUME NEW R \in SUBSET T
      PROVE  /\ IsFiniteSet({0} \cup Shifted(R, e))
             /\ Cardinality({0} \cup Shifted(R, e)) = Cardinality(R) + 1
  <2>1. R \in SUBSET Int /\ IsFiniteSet(R)
    <3>1. R \in SUBSET Int
      OBVIOUS
    <3> QED
      BY <3>1, FS_Subset
  <2>2. 0 \notin Shifted(R, e)
    BY <1>1 DEF Shifted
  <2>3. IsFiniteSet(Shifted(R, e)) /\ Cardinality(Shifted(R, e)) = Cardinality(R)
    BY <2>1, ShiftedFacts
  <2>4. Shifted(R, e) \cup {0} = {0} \cup Shifted(R, e)
    OBVIOUS
  <2> QED
    BY <2>2, <2>3, <2>4, FS_AddElement
<1>3. IsFiniteSet(S) /\ Cardinality(S) = Cardinality(T) + 1
  BY <1>2
<1>4. S \in SUBSET Int
  BY DEF Shifted
<1>5. Rank(S, 0) = 0
  <2>1. {j \in S : j < 0} = {}
    BY <1>1 DEF Shifted
  <2> QED
    BY <2>1, FS_EmptySet DEF Rank
<1>6. ASSUME NEW j \in T
      PROVE  j + e \in S /\ Rank(S, j + e) = Rank(T, j) + 1
  <2> DEFINE R == {i \in T : i < j}
  <2>1. {i \in S : i < j + e} = {0} \cup Shifted(R, e)
    BY <1>1 DEF Shifted
  <2>2. R \in SUBSET T
    OBVIOUS
  <2>3. Cardinality({0} \cup Shifted(R, e)) = Cardinality(R) + 1
    <3> HIDE DEF R
    <3> QED
      BY <1>2, <2>2
  <2>4. j + e \in S
    BY DEF Shifted
  <2> QED
    BY <2>1, <2>3, <2>4 DEF Rank
<1>7. Nth(S, 0) = 0
  <2>1. 0 \in S
    OBVIOUS
  <2> QED
    BY <1>3, <1>4, <1>5, <2>1, NthIs
<1>8. ASSUME NEW k \in 0 .. Cardinality(T) - 1
      PROVE  Nth(S, k + 1) = Nth(T, k) + e
  <2>1. T \in SUBSET Int
    OBVIOUS
  <2>2. Nth(T, k) \in T /\ Rank(T, Nth(T, k)) = k
    BY <2>1, NthIs
  <2>3. Nth(T, k) + e \in S /\ Rank(S, Nth(T, k) + e) = k + 1
    BY <1>6, <2>2
  <2> QED
    BY <1>3, <1>4, <2>3, NthIs
<1> QED
  BY <1>3, <1>4, <1>7, <1>8

(* A part of a text's rest is a part of the text. *)
LEMMA SubSeqOfRest ==
  ASSUME NEW B, NEW text \in Seq(B), NEW e \in 0 .. Len(text),
         NEW a \in 0 .. Len(text) - e + 1, NEW b \in 0 .. Len(text) - e + 1
  PROVE  SubSeq(SubSeq(text, e + 1, Len(text)), a + 1, b - 1) = SubSeq(text, a + e + 1, b + e - 1)
<1> DEFINE rest == SubSeq(text, e + 1, Len(text))
<1>1. rest \in Seq(B) /\ Len(rest) = Len(text) - e /\ Len(text) \in Nat
  OBVIOUS
<1>2. \A i \in 1 .. Len(text) - e : rest[i] = text[i + e]
  OBVIOUS
<1> HIDE DEF rest
<1> DEFINE s == SubSeq(rest, a + 1, b - 1)
           t == SubSeq(text, a + e + 1, b + e - 1)
<1>3. CASE a + 1 > b - 1
  <2>1. s = <<>>
    BY <1>3, SubSeqEmpty
  <2>2. t = <<>>
    BY <1>3, SubSeqEmpty
  <2> QED
    BY <2>1, <2>2 DEF rest
<1>4. CASE a + 1 <= b - 1
  <2>1. \A i \in a + 1 .. b - 1 : rest[i] \in B
    BY <1>1
  <2>2. \A i \in a + e + 1 .. b + e - 1 : text[i] \in B
    BY <1>1
  <2>3. /\ s \in Seq(B) /\ Len(s) = b - a - 1
        /\ \A i \in 1 .. b - a - 1 : s[i] = rest[a + i]
    BY <1>1, <1>4, <2>1, SubSeqProperties
  <2>4. /\ t \in Seq(B) /\ Len(t) = b - a - 1
        /\ \A i \in 1 .. b - a - 1 : t[i] = text[a + e + i]
    BY <1>1, <1>4, <2>2, SubSeqProperties
  <2>5. \A i \in 1 .. b - a - 1 : rest[a + i] = text[a + e + i]
    BY <1>1, <1>2
  <2> HIDE DEF s, t
  <2>6. \A i \in 1 .. Len(s) : s[i] = t[i]
    BY <2>3, <2>4, <2>5
  <2>7. s = t
    BY <2>3, <2>4, <2>6, SeqEqual
  <2> QED
    BY <2>7 DEF s, t, rest
<1> QED
  BY <1>1, <1>3, <1>4

(* The first separator ends the first part. *)
LEMMA PartsFirst ==
  ASSUME NEW B, NEW text \in Seq(B), NEW byte, NEW e \in 1 .. Len(text),
         text[e] = byte, \A i \in 1 .. e - 1 : text[i] # byte
  PROVE  Parts(text, byte) =
           <<SubSeq(text, 1, e - 1)>> \o Parts(SubSeq(text, e + 1, Len(text)), byte)
<1> DEFINE rest == SubSeq(text, e + 1, Len(text))
           S == Ends(text, byte)
           T == Ends(rest, byte)
           P == Parts(text, byte)
           R == Parts(rest, byte)
           first == SubSeq(text, 1, e - 1)
<1>1. /\ rest \in Seq(B) /\ Len(rest) = Len(text) - e /\ Len(text) \in Nat
      /\ \A i \in 1 .. Len(text) - e : rest[i] = text[i + e]
  OBVIOUS
<1>2. first \in Seq(B)
  OBVIOUS
<1> HIDE DEF rest, first
<1>3. S = {0} \cup Shifted(T, e)
  <2>1. ASSUME NEW j \in T PROVE j + e \in S
    <3>1. CASE j = 0
      BY <3>1 DEF Ends
    <3>2. CASE j = Len(rest) + 1
      BY <1>1, <3>2 DEF Ends
    <3>3. CASE j \in DOMAIN rest /\ rest[j] = byte
      <4>1. j \in 1 .. Len(text) - e
        BY <1>1, <3>3
      <4>2. j + e \in 1 .. Len(text) /\ text[j + e] = byte
        BY <1>1, <3>3, <4>1
      <4> QED
        BY <4>2 DEF Ends
    <3> QED
      BY <3>1, <3>2, <3>3 DEF Ends
  <2>2. ASSUME NEW i \in S, i # 0 PROVE i - e \in T /\ i = (i - e) + e
    <3>1. CASE i = Len(text) + 1
      BY <1>1, <3>1 DEF Ends
    <3>2. CASE i = e
      BY <1>1, <3>2 DEF Ends
    <3>3. CASE i \in DOMAIN text /\ text[i] = byte /\ i # e
      <4>1. i > e /\ i \in 1 .. Len(text)
        BY <3>3
      <4>2. i - e \in 1 .. Len(rest) /\ rest[i - e] = text[i] /\ i = (i - e) + e
        BY <1>1, <4>1
      <4> QED
        BY <1>1, <3>3, <4>2 DEF Ends
    <3> QED
      BY <2>2, <3>1, <3>2, <3>3 DEF Ends
  <2>3. 0 \in S
    BY DEF Ends
  <2> HIDE DEF S, T
  <2> QED
    BY <2>1, <2>2, <2>3 DEF Shifted
<1>4. T \in SUBSET Nat /\ IsFiniteSet(T)
  <2>1. T \in SUBSET (0 .. Len(rest) + 1) /\ IsFiniteSet(T)
    BY <1>1, EndsFacts
  <2> QED
    BY <1>1, <2>1
<1>5. ByRank(P, S, text, B)
  BY PartsByRank, Zenon
<1>6. ByRank(R, T, rest, B)
  BY <1>1, PartsByRank, Zenon
<1> HIDE DEF S, T, P, R
<1>7. /\ Cardinality(S) = Cardinality(T) + 1
      /\ Nth(S, 0) = 0
      /\ \A k \in 0 .. Cardinality(T) - 1 : Nth(S, k + 1) = Nth(T, k) + e
  <2>1. e \in Nat \ {0}
    OBVIOUS
  <2> QED
    BY <1>3, <1>4, <2>1, RankShifted, Zenon
<1>8. Nth(T, 0) = 0
  <2>1. 0 \in T
    BY DEF T, Ends
  <2>2. \A j \in T : ~(j < 0)
    BY <1>4
  <2>3. {j \in T : j < 0} = {}
    BY <2>2
  <2>4. Rank(T, 0) = 0
    BY <2>3, FS_EmptySet DEF Rank
  <2>5. T \in SUBSET Int
    BY <1>4
  <2> QED
    BY <1>4, <2>1, <2>4, <2>5, NthIs
<1> DEFINE n == Cardinality(T) - 1
           Q == <<first>> \o R
<1>9. n \in Nat \ {0} /\ Len(P) = n + 1 /\ Len(R) = n /\ P \in Seq(Seq(B)) /\ R \in Seq(Seq(B))
  <2>1. Cardinality(T) \in Nat /\ Cardinality(T) >= 2 /\ Len(P) = Cardinality(S) - 1
    BY <1>5, <1>6 DEF ByRank
  <2>2. Len(R) = Cardinality(T) - 1 /\ P \in Seq(Seq(B)) /\ R \in Seq(Seq(B))
    BY <1>5, <1>6 DEF ByRank
  <2> QED
    BY <1>7, <2>1, <2>2
<1>10. P[1] = first
  <2>1. 1 \in 1 .. Cardinality(S) - 1 /\ 0 \in 0 .. Cardinality(T) - 1
    BY <1>6, <1>7 DEF ByRank
  <2>2. P[1] = SubSeq(text, Nth(S, 1 - 1) + 1, Nth(S, 1) - 1)
    BY <1>5, <2>1 DEF ByRank
  <2>3. Nth(S, 0 + 1) = 0 + e
    BY <1>7, <1>8, <2>1
  <2>4. Nth(S, 1 - 1) + 1 = 1 /\ Nth(S, 1) - 1 = e - 1
    BY <1>7, <2>3
  <2> QED
    BY <2>2, <2>4 DEF first
<1>11. ASSUME NEW k \in 1 .. n
       PROVE  P[k + 1] = R[k]
  <2> DEFINE a == Nth(T, k - 1)
             b == Nth(T, k)
  <2>1. /\ k + 1 \in 1 .. Cardinality(S) - 1 /\ k \in 1 .. Cardinality(T) - 1
        /\ k - 1 \in 0 .. Cardinality(T) - 1 /\ k \in 0 .. Cardinality(T) - 1
        /\ k + 1 - 1 = (k - 1) + 1
    BY <1>6, <1>7 DEF ByRank
  <2>2. a \in 0 .. Len(text) - e + 1 /\ b \in 0 .. Len(text) - e + 1
    BY <1>1, <1>6, <2>1 DEF ByRank
  <2>3. P[k + 1] = SubSeq(text, Nth(S, k + 1 - 1) + 1, Nth(S, k + 1) - 1)
    BY <1>5, <2>1 DEF ByRank
  <2>4. Nth(S, k + 1 - 1) = a + e /\ Nth(S, k + 1) = b + e
    BY <1>7, <2>1
  <2>5. R[k] = SubSeq(rest, a + 1, b - 1)
    BY <1>6, <2>1 DEF ByRank
  <2> HIDE DEF a, b
  <2>6. e \in 0 .. Len(text)
    BY <1>1
  <2>7. SubSeq(rest, a + 1, b - 1) = SubSeq(text, a + e + 1, b + e - 1)
    BY <2>2, <2>6, SubSeqOfRest DEF rest
  <2>8. (a + e) + 1 = a + e + 1 /\ (b + e) - 1 = b + e - 1
    BY <1>1, <2>2
  <2> QED
    BY <2>3, <2>4, <2>5, <2>7, <2>8
<1>12. /\ Q \in Seq(Seq(B)) /\ Len(Q) = n + 1 /\ Q[1] = first
       /\ \A k \in 1 .. n : Q[k + 1] = R[k]
  <2> HIDE DEF n
  <2> QED
    BY <1>2, <1>9
<1>13. \A i \in 1 .. Len(P) : P[i] = Q[i]
  <2> SUFFICES ASSUME NEW i \in 1 .. Len(P) PROVE P[i] = Q[i]
    OBVIOUS
  <2> HIDE DEF n, Q
  <2>1. CASE i = 1
    BY <1>10, <1>12, <2>1
  <2>2. CASE i # 1
    <3>1. i - 1 \in 1 .. n /\ i = (i - 1) + 1
      BY <1>9, <2>2
    <3> QED
      BY <1>11, <1>12, <3>1
  <2> QED
    BY <2>1, <2>2
<1> HIDE DEF Q, n
<1>14. P = Q
  BY <1>9, <1>12, <1>13, SeqEqual
<1> QED
  BY <1>14 DEF P, Q, R, first, rest

(* Without its last element, a sequence that ends with another ends with *)
(* that one's front.                                                     *)
LEMMA FrontOfConcat ==
  ASSUME NEW T, NEW s \in Seq(T), NEW r \in Seq(T), r # <<>>
  PROVE  Front(s \o r) = s \o Front(r)
<1> DEFINE n == Len(s)
           m == Len(r) - 1
           F == SubSeq(r, 1, m)
           a == SubSeq(s \o r, 1, n + m)
           b == s \o F
<1>1. n \in Nat /\ m \in Nat /\ Len(r) = m + 1
  BY EmptySeq
<1>2. /\ s \o r \in Seq(T) /\ Len(s \o r) = n + m + 1
      /\ \A i \in 1 .. n + m : (s \o r)[i] = IF i <= n THEN s[i] ELSE r[i - n]
  <2> HIDE DEF n, m
  <2>1. Len(s) = n
    BY DEF n
  <2> QED
    BY <1>1, <2>1
<1>3. Front(s \o r) = a /\ Front(r) = F
  BY <1>1, <1>2 DEF Front
<1>4. F \in Seq(T) /\ Len(F) = m /\ \A i \in 1 .. m : F[i] = r[i]
  <2> HIDE DEF m
  <2> QED
    BY <1>1
<1> HIDE DEF F
<1>5. b \in Seq(T) /\ Len(b) = n + m /\ \A i \in 1 .. n + m : b[i] = IF i <= n THEN s[i] ELSE F[i - n]
  <2> HIDE DEF n, m
  <2>1. Len(s) = n
    BY DEF n
  <2> QED
    BY <1>1, <1>4, <2>1
<1>6. a \in Seq(T) /\ Len(a) = n + m /\ \A i \in 1 .. n + m : a[i] = (s \o r)[i]
  <2> HIDE DEF n, m
  <2> QED
    BY <1>1, <1>2
<1> HIDE DEF a, b
<1>7. \A i \in 1 .. Len(a) : a[i] = b[i]
  <2> SUFFICES ASSUME NEW i \in 1 .. n + m PROVE a[i] = b[i]
    BY <1>6
  <2>1. (i > n => i - n \in 1 .. m) /\ (i <= n \/ i > n)
    BY <1>1
  <2> HIDE DEF n, m
  <2>2. a[i] = IF i <= n THEN s[i] ELSE r[i - n]
    BY <1>2, <1>6
  <2>3. b[i] = IF i <= n THEN s[i] ELSE F[i - n]
    BY <1>5
  <2>4. i > n => F[i - n] = r[i - n]
    BY <1>4, <2>1
  <2> QED
    BY <2>1, <2>2, <2>3, <2>4
<1>8. a = b
  BY <1>5, <1>6, <1>7, SeqEqual
<1> QED
  BY <1>3, <1>8 DEF b

(* The first line ends at the first newline, or after the last byte. *)
LEMMA LineEndFacts ==
  ASSUME NEW B, NEW text \in Seq(B)
  PROVE  /\ LineEnd(text) \in 1 .. Len(text) + 1
         /\ \A i \in 1 .. LineEnd(text) - 1 : text[i] # Newline
         /\ LineEnd(text) <= Len(text) => text[LineEnd(text)] = Newline
<1> DEFINE S == {i \in 1 .. Len(text) : text[i] = Newline} \cup {Len(text) + 1}
<1>1. S \in SUBSET Nat /\ S # {} /\ Len(text) \in Nat
  OBVIOUS
<1>2. \E n \in S : \A m \in S : n <= m
  <2> HIDE DEF S
  <2> QED
    BY <1>1, LeastNat
<1>3. LineEnd(text) = CHOOSE x \in S : \A y \in S : x <= y
  BY DEF LineEnd, Min
<1>4. LineEnd(text) \in S /\ \A y \in S : LineEnd(text) <= y
  <2> HIDE DEF S
  <2> QED
    BY <1>2, <1>3
<1>5. LineEnd(text) \in 1 .. Len(text) + 1
  BY <1>1, <1>4
<1> QED
  BY <1>4, <1>5

(* The first line and what is after it are texts, the latter a shorter *)
(* one.                                                                *)
LEMMA LineFacts ==
  ASSUME NEW B, NEW text \in Seq(B)
  PROVE  /\ Line(text) \in Seq(B) /\ AfterLine(text) \in Seq(B)
         /\ text # <<>> => Len(AfterLine(text)) < Len(text)
<1> DEFINE e == LineEnd(text)
<1>1. e \in 1 .. Len(text) + 1 /\ Len(text) \in Nat
  BY LineEndFacts
<1> HIDE DEF e
<1>2. SubSeq(text, 1, e - 1) \in Seq(B)
  BY <1>1
<1>3. /\ SubSeq(text, e + 1, Len(text)) \in Seq(B)
      /\ Len(SubSeq(text, e + 1, Len(text))) = IF e + 1 <= Len(text) THEN Len(text) - e ELSE 0
  BY <1>1
<1>4. text # <<>> => Len(text) > 0
  BY <1>1
<1> QED
  BY <1>1, <1>2, <1>3, <1>4 DEF Line, AfterLine, e

(* A line that ends with a newline does not depend on what follows. *)
LEMMA LineOfConcat ==
  ASSUME NEW B, NEW text \in Seq(B), NEW more \in Seq(B),
         \E i \in 1 .. Len(text) : text[i] = Newline
  PROVE  /\ Line(text \o more) = Line(text)
         /\ AfterLine(text \o more) = AfterLine(text) \o more
<1> DEFINE both == text \o more
           e == LineEnd(text)
           f == LineEnd(both)
<1>1. /\ both \in Seq(B) /\ Len(both) = Len(text) + Len(more)
      /\ Len(text) \in Nat /\ Len(more) \in Nat
      /\ \A i \in 1 .. Len(text) : both[i] = text[i]
      /\ \A i \in 1 .. Len(more) : both[Len(text) + i] = more[i]
  OBVIOUS
<1> HIDE DEF both
<1>2. /\ e \in 1 .. Len(text) + 1 /\ (\A i \in 1 .. e - 1 : text[i] # Newline)
      /\ e <= Len(text) => text[e] = Newline
  BY LineEndFacts
<1>3. /\ f \in 1 .. Len(both) + 1 /\ (\A i \in 1 .. f - 1 : both[i] # Newline)
      /\ f <= Len(both) => both[f] = Newline
  BY <1>1, LineEndFacts
<1> HIDE DEF e, f
<1>4. e <= Len(text)
  BY <1>1, <1>2
<1>5. f = e
  <2>1. ~(f > e)
    BY <1>1, <1>2, <1>3, <1>4
  <2>2. ~(f < e)
    BY <1>1, <1>2, <1>3, <1>4
  <2> QED
    BY <1>2, <1>3, <2>1, <2>2
<1>6. SubSeq(both, 1, e - 1) = SubSeq(text, 1, e - 1)
  <2> DEFINE s == SubSeq(both, 1, e - 1)
             t == SubSeq(text, 1, e - 1)
  <2>1. s \in Seq(B) /\ Len(s) = e - 1 /\ \A i \in 1 .. e - 1 : s[i] = both[i]
    BY <1>1, <1>2, <1>4
  <2>2. t \in Seq(B) /\ Len(t) = e - 1 /\ \A i \in 1 .. e - 1 : t[i] = text[i]
    BY <1>1, <1>2, <1>4
  <2> HIDE DEF s, t
  <2>3. \A i \in 1 .. Len(s) : s[i] = t[i]
    BY <1>1, <1>2, <1>4, <2>1, <2>2
  <2>4. s = t
    BY <2>1, <2>2, <2>3, SeqEqual
  <2> QED
    BY <2>4 DEF s, t
<1>7. SubSeq(both, e + 1, Len(both)) = SubSeq(text, e + 1, Len(text)) \o more
  <2> DEFINE s == SubSeq(both, e + 1, Len(both))
             r == SubSeq(text, e + 1, Len(text))
             t == r \o more
             n == Len(text) - e
             m == Len(more)
  <2>1. /\ s \in Seq(B) /\ Len(s) = n + m
        /\ \A i \in 1 .. n + m : s[i] = both[e + i]
    BY <1>1, <1>2, <1>4
  <2>2. /\ r \in Seq(B) /\ Len(r) = n
        /\ \A i \in 1 .. n : r[i] = text[e + i]
    BY <1>1, <1>2, <1>4
  <2> HIDE DEF r
  <2>3. /\ t \in Seq(B) /\ Len(t) = n + m
        /\ \A i \in 1 .. n + m : t[i] = IF i <= n THEN r[i] ELSE more[i - n]
    <3> HIDE DEF n, m
    <3>1. Len(more) = m
      BY DEF m
    <3> QED
      BY <2>2, <3>1, ConcatProperties
  <2> HIDE DEF s, t
  <2>4. \A i \in 1 .. Len(s) : s[i] = t[i]
    <3> SUFFICES ASSUME NEW i \in 1 .. Len(s) PROVE s[i] = t[i]
      OBVIOUS
    <3>1. CASE i <= n
      <4>1. i \in 1 .. n + m /\ i \in 1 .. n /\ e + i \in 1 .. Len(text)
        BY <1>1, <1>2, <1>4, <2>1, <3>1
      <4>2. s[i] = both[e + i] /\ both[e + i] = text[e + i]
        BY <1>1, <2>1, <4>1
      <4>3. t[i] = r[i] /\ r[i] = text[e + i]
        BY <2>2, <2>3, <3>1, <4>1
      <4> QED
        BY <4>2, <4>3
    <3>2. CASE ~(i <= n)
      <4>1. /\ i \in 1 .. n + m /\ i - n \in 1 .. m /\ e + i = Len(text) + (i - n)
        BY <1>1, <1>2, <1>4, <2>1, <3>2
      <4>2. s[i] = both[e + i] /\ both[Len(text) + (i - n)] = more[i - n]
        BY <1>1, <2>1, <4>1
      <4>3. t[i] = more[i - n]
        BY <2>3, <3>2, <4>1
      <4> QED
        BY <4>1, <4>2, <4>3
    <3> QED
      BY <3>1, <3>2
  <2>5. s = t
    BY <2>1, <2>3, <2>4, SeqEqual
  <2> QED
    BY <2>5 DEF s, t, r
<1> QED
  BY <1>5, <1>6, <1>7 DEF Line, AfterLine, e, f, both

(* The lines of a text are its first line and those of the rest. *)
LEMMA LinesStep ==
  ASSUME NEW B, NEW text \in Seq(B), text # <<>>
  PROVE  Lines(text) = <<Line(text)>> \o Lines(AfterLine(text))
<1> DEFINE e == LineEnd(text)
           line == Line(text)
           rest == AfterLine(text)
           R == Parts(rest, Newline)
<1>1. /\ e \in 1 .. Len(text) + 1 /\ Len(text) \in Nat /\ Len(text) # 0
      /\ (\A i \in 1 .. e - 1 : text[i] # Newline)
      /\ e <= Len(text) => text[e] = Newline
  BY LineEndFacts, EmptySeq
<1>2. line \in Seq(B) /\ rest \in Seq(B)
  BY LineFacts
<1>3. line = SubSeq(text, 1, e - 1) /\ rest = SubSeq(text, e + 1, Len(text))
  BY DEF Line, AfterLine
<1> HIDE DEF e, line, rest
<1>4. CASE e = Len(text) + 1
  <2>1. \A i \in DOMAIN text : text[i] # Newline
    BY <1>1, <1>4
  <2>2. Parts(text, Newline) = <<text>>
    BY <2>1, PartsWhole
  <2>3. line = text
    <3>1. line = SubSeq(text, 1, Len(text))
      BY <1>1, <1>3, <1>4
    <3> QED
      BY <3>1, SubSeqFull
  <2>4. rest = <<>>
    BY <1>1, <1>3, <1>4, SubSeqEmpty
  <2>5. Last(text) # Newline
    BY <1>1, <2>1 DEF Last
  <2>6. Lines(text) = <<text>> /\ Lines(rest) = <<>>
    BY <2>2, <2>4, <2>5 DEF Lines
  <2> QED
    BY <2>3, <2>6 DEF line, rest
<1>5. CASE e <= Len(text)
  <2>1. e \in 1 .. Len(text) /\ text[e] = Newline
    BY <1>1, <1>5
  <2>2. Parts(text, Newline) = <<line>> \o R
    BY <1>1, <1>3, <2>1, PartsFirst, Zenon
  <2>3. R \in Seq(Seq(B)) /\ Len(R) >= 1 /\ Len(R) \in Nat
    <3>1. ByRank(R, Ends(rest, Newline), rest, B)
      BY <1>2, PartsByRank, Zenon
    <3> HIDE DEF R
    <3> QED
      BY <3>1 DEF ByRank
  <2>4. CASE e = Len(text)
    <3>1. rest = <<>>
      BY <1>1, <1>3, <2>4, SubSeqEmpty
    <3>2. R = <<rest>>
      <4>1. \A i \in DOMAIN rest : rest[i] # Newline
        BY <3>1
      <4> QED
        BY <1>2, <4>1, PartsWhole
    <3>3. Last(text) = Newline
      BY <2>1, <2>4 DEF Last
    <3>4. Lines(text) = Front(<<line>> \o <<rest>>)
      BY <2>2, <3>2, <3>3 DEF Lines
    <3>5. Front(<<line>> \o <<rest>>) = <<line>>
      <4>1. <<line>> \in Seq(Seq(B)) /\ <<rest>> \in Seq(Seq(B))
        BY <1>2
      <4>2. Front(<<rest>>) = <<>> /\ <<line>> \o <<>> = <<line>>
        BY <1>2, <4>1 DEF Front
      <4> QED
        BY <4>1, <4>2, FrontOfConcat
    <3>6. Lines(rest) = <<>>
      BY <3>1 DEF Lines
    <3> QED
      BY <3>4, <3>5, <3>6 DEF line, rest
  <2>5. CASE e < Len(text)
    <3>1. Len(rest) = Len(text) - e /\ rest[Len(rest)] = text[Len(text)] /\ rest # <<>>
      <4>1. SubSeq(text, e + 1, Len(text))[Len(text) - e] = text[Len(text)]
        BY <1>1, <2>1, <2>5
      <4>2. Len(SubSeq(text, e + 1, Len(text))) = Len(text) - e
        BY <1>1, <2>1, <2>5
      <4>3. Len(rest) = Len(text) - e /\ rest[Len(rest)] = text[Len(text)]
        BY <1>3, <4>1, <4>2
      <4>4. Len(text) - e # 0
        BY <1>1, <2>1, <2>5
      <4>5. Len(<<>>) = 0
        OBVIOUS
      <4> QED
        BY <4>3, <4>4, <4>5
    <3>2. Last(rest) = Last(text)
      BY <3>1 DEF Last
    <3>3. CASE Last(text) = Newline
      <4>1. Lines(text) = Front(<<line>> \o R)
        BY <2>2, <3>3 DEF Lines
      <4>2. Lines(rest) = Front(R)
        BY <3>1, <3>2, <3>3 DEF Lines
      <4>3. Front(<<line>> \o R) = <<line>> \o Front(R)
        <5>1. <<line>> \in Seq(Seq(B)) /\ R # <<>>
          BY <1>2, <2>3
        <5> HIDE DEF R
        <5> QED
          BY <2>3, <5>1, FrontOfConcat
      <4> QED
        BY <4>1, <4>2, <4>3 DEF line, rest
    <3>4. CASE Last(text) # Newline
      <4>1. Lines(text) = <<line>> \o R
        BY <2>2, <3>4 DEF Lines
      <4>2. Lines(rest) = R
        BY <3>1, <3>2, <3>4 DEF Lines
      <4> QED
        BY <4>1, <4>2 DEF line, rest
    <3> QED
      BY <3>3, <3>4
  <2> QED
    BY <1>1, <2>1, <2>4, <2>5
<1> QED
  BY <1>1, <1>4, <1>5

(* The lines of a text are texts. *)
LEMMA LinesType ==
  ASSUME NEW B, NEW text \in Seq(B)
  PROVE  Lines(text) \in Seq(Seq(B))
<1> DEFINE P == Parts(text, Newline)
<1>1. ByRank(P, Ends(text, Newline), text, B)
  BY PartsByRank, Zenon
<1> HIDE DEF P
<1>2. P \in Seq(Seq(B)) /\ Len(P) >= 1
  BY <1>1 DEF ByRank
<1>3. SubSeq(P, 1, Len(P) - 1) \in Seq(Seq(B))
  BY <1>2
<1> QED
  BY <1>2, <1>3 DEF Lines, Front, P

(* A text of nothing has no lines. *)
LEMMA LinesOfNothing == Lines(<<>>) = <<>>
BY DEF Lines

(* A number above all others has the last rank. *)
LEMMA TopRank ==
  ASSUME NEW S \in SUBSET Int, IsFiniteSet(S), NEW m \in Int, \A i \in S : i < m
  PROVE  /\ Cardinality(S \cup {m}) = Cardinality(S) + 1
         /\ \A k \in 0 .. Cardinality(S) - 1 : Nth(S \cup {m}, k) = Nth(S, k)
         /\ Nth(S \cup {m}, Cardinality(S)) = m
<1> DEFINE T == S \cup {m}
<1>1. \A i \in S : i \in Int
  OBVIOUS
<1>2. m \notin S
  <2>1. ~(m < m)
    OBVIOUS
  <2> QED
    BY <2>1
<1>3. IsFiniteSet(T) /\ Cardinality(T) = Cardinality(S) + 1 /\ T \in SUBSET Int
  BY <1>2, FS_AddElement
<1>4. Rank(T, m) = Cardinality(S)
  <2>1. {j \in T : j < m} = S
    <3>1. ~(m < m)
      OBVIOUS
    <3> QED
      BY <3>1
  <2> QED
    BY <2>1 DEF Rank
<1>5. \A i \in S : Rank(T, i) = Rank(S, i)
  <2> TAKE i \in S
  <2>1. ~(m < i)
    BY <1>1
  <2>2. {j \in T : j < i} = {j \in S : j < i}
    BY <2>1
  <2> QED
    BY <2>2 DEF Rank
<1>6. m \in T /\ S \in SUBSET T
  OBVIOUS
<1> HIDE DEF T
<1>7. Nth(T, Cardinality(S)) = m
  BY <1>3, <1>4, <1>6, NthIs
<1>8. ASSUME NEW k \in 0 .. Cardinality(S) - 1
      PROVE  Nth(T, k) = Nth(S, k)
  <2>1. Nth(S, k) \in S /\ Rank(S, Nth(S, k)) = k
    BY NthIs
  <2>2. Nth(S, k) \in T /\ Rank(T, Nth(S, k)) = k
    BY <1>5, <1>6, <2>1
  <2> QED
    BY <1>3, <2>2, NthIs
<1> QED
  BY <1>3, <1>7, <1>8 DEF T

(* A byte more at the end changes no section before it. *)
LEMMA SubSeqOfAppend ==
  ASSUME NEW B, NEW text \in Seq(B), NEW b \in B,
         NEW m \in 0 .. Len(text) + 1, NEW n \in 0 .. Len(text) + 1
  PROVE  SubSeq(Append(text, b), m + 1, n - 1) = SubSeq(text, m + 1, n - 1)
<1> DEFINE more == Append(text, b)
           s == SubSeq(more, m + 1, n - 1)
           t == SubSeq(text, m + 1, n - 1)
<1>1. \A i \in 1 .. Len(text) : more[i] = text[i] /\ text[i] \in B
  OBVIOUS
<1>2. Len(text) \in Nat
  OBVIOUS
<1> HIDE DEF more
<1>3. CASE m + 1 > n - 1
  <2>1. s = <<>> /\ t = <<>>
    BY <1>2, <1>3, SubSeqEmpty
  <2> QED
    BY <2>1 DEF more
<1>4. CASE m + 1 <= n - 1
  <2>1. \A i \in m + 1 .. n - 1 : i \in 1 .. Len(text)
    BY <1>2
  <2>2. \A i \in m + 1 .. n - 1 : more[i] \in B /\ text[i] \in B
    BY <1>1, <2>1
  <2>3. m + 1 \in Int /\ n - 1 \in Int /\ (n - 1) - (m + 1) + 1 = n - m - 1
    BY <1>2
  <2>4. /\ s \in Seq(B) /\ Len(s) = n - m - 1
        /\ \A i \in 1 .. n - m - 1 : s[i] = more[m + i]
    BY <1>2, <1>4, <2>2, <2>3, SubSeqProperties
  <2>5. /\ t \in Seq(B) /\ Len(t) = n - m - 1
        /\ \A i \in 1 .. n - m - 1 : t[i] = text[m + i]
    BY <1>2, <1>4, <2>2, <2>3, SubSeqProperties
  <2>6. \A i \in 1 .. n - m - 1 : m + i \in 1 .. Len(text)
    BY <1>2
  <2> HIDE DEF s, t
  <2>7. \A i \in 1 .. Len(s) : s[i] = t[i]
    BY <1>1, <2>4, <2>5, <2>6
  <2>8. s = t
    BY <2>4, <2>5, <2>7, SeqEqual
  <2> QED
    BY <2>8 DEF s, t, more
<1> QED
  BY <1>2, <1>3, <1>4

(* One byte more: another part, or a longer last part. *)
LEMMA PartsAppend ==
  ASSUME NEW B, NEW text \in Seq(B), NEW b \in B, NEW byte
  PROVE  LET parts == Parts(text, byte)
         IN  /\ parts \in Seq(Seq(B)) /\ parts # <<>>
             /\ Parts(Append(text, b), byte) =
                  IF b = byte
                    THEN Append(parts, <<>>)
                    ELSE [parts EXCEPT ![Len(parts)] = Append(@, b)]
<1> DEFINE more == Append(text, b)
           n == Len(text)
           inner == {0} \cup {i \in 1 .. n : text[i] = byte}
           S == inner \cup {n + 1}
           M == Ends(more, byte)
           P == Parts(text, byte)
           Q == Parts(more, byte)
           c == Cardinality(inner)
<1>1. /\ more \in Seq(B) /\ Len(more) = n + 1 /\ n \in Nat
      /\ more[n + 1] = b /\ \A i \in 1 .. n : more[i] = text[i]
  OBVIOUS
<1>2. S = Ends(text, byte)
  BY DEF Ends
<1>3. M = IF b = byte THEN S \cup {n + 2} ELSE inner \cup {n + 2}
  <2> HIDE DEF more
  <2>1. M = {0, n + 2} \cup {i \in 1 .. n + 1 : more[i] = byte}
    <3>1. DOMAIN more = 1 .. n + 1 /\ Len(more) + 1 = n + 2
      BY <1>1
    <3> QED
      BY <3>1 DEF Ends
  <2>2. {i \in 1 .. n + 1 : more[i] = byte} =
          {i \in 1 .. n : text[i] = byte} \cup (IF b = byte THEN {n + 1} ELSE {})
    BY <1>1
  <2> QED
    BY <2>1, <2>2
<1>4. inner \in SUBSET Int /\ IsFiniteSet(inner) /\ \A i \in inner : i < n + 1 /\ i < n + 2
  <2>1. inner \in SUBSET (0 .. n)
    BY <1>1
  <2>2. IsFiniteSet(0 .. n)
    BY <1>1, FS_Interval
  <2> HIDE DEF inner
  <2>3. \A i \in inner : i \in Int /\ i < n + 1 /\ i < n + 2
    BY <1>1, <2>1
  <2>4. IsFiniteSet(inner)
    BY <2>1, <2>2, FS_Subset
  <2> QED
    BY <2>3, <2>4
<1>5. ByRank(P, S, text, B)
  BY <1>2, PartsByRank, Zenon
<1>6. ByRank(Q, M, more, B)
  BY <1>1, PartsByRank, Zenon
<1> HIDE DEF P, Q, M, more, inner, S, n, c
<1>7. /\ Cardinality(S) = c + 1 /\ c \in Nat /\ c >= 1
      /\ \A k \in 0 .. c - 1 : Nth(S, k) = Nth(inner, k)
      /\ Nth(S, c) = n + 1
  <2>1. n + 1 \in Int
    BY <1>1
  <2>2. /\ Cardinality(inner \cup {n + 1}) = Cardinality(inner) + 1
        /\ \A k \in 0 .. Cardinality(inner) - 1 : Nth(inner \cup {n + 1}, k) = Nth(inner, k)
        /\ Nth(inner \cup {n + 1}, Cardinality(inner)) = n + 1
    BY <1>4, <2>1, TopRank
  <2>3. Cardinality(inner) \in Nat
    BY <1>4, FS_CardinalityType
  <2>4. Cardinality(S) >= 2
    BY <1>5 DEF ByRank
  <2>5. c \in Nat /\ Cardinality(S) = c + 1 /\ Nth(S, c) = n + 1
    BY <2>2, <2>3 DEF S, c
  <2>6. c >= 1
    BY <2>4, <2>5
  <2>7. \A k \in 0 .. c - 1 : Nth(S, k) = Nth(inner, k)
    BY <2>2 DEF S, c
  <2> QED
    BY <2>5, <2>6, <2>7
<1>8. /\ P \in Seq(Seq(B)) /\ Len(P) = c /\ P # <<>>
      /\ \A k \in 1 .. c : P[k] = SubSeq(text, Nth(S, k - 1) + 1, Nth(S, k) - 1)
      /\ \A k \in 0 .. c : Nth(S, k) \in 0 .. n + 1
  <2>1. Cardinality(S) - 1 = c
    BY <1>7
  <2>2. /\ P \in Seq(Seq(B)) /\ Len(P) = c
        /\ \A k \in 1 .. c : P[k] = SubSeq(text, Nth(S, k - 1) + 1, Nth(S, k) - 1)
        /\ \A k \in 0 .. c : Nth(S, k) \in 0 .. n + 1
    BY <1>5, <2>1 DEF ByRank, n
  <2>3. P # <<>>
    BY <1>7, <2>2
  <2> QED
    BY <2>2, <2>3
<1>9. ASSUME NEW k \in 1 .. c
      PROVE  SubSeq(more, Nth(S, k - 1) + 1, Nth(S, k) - 1) = P[k]
  <2>1. k - 1 \in 0 .. c /\ k \in 0 .. c
    BY <1>7
  <2> DEFINE i == Nth(S, k - 1)
             j == Nth(S, k)
  <2>2. i \in 0 .. n + 1 /\ j \in 0 .. n + 1
    BY <1>8, <2>1
  <2> HIDE DEF i, j
  <2>3. SubSeq(more, i + 1, j - 1) = SubSeq(text, i + 1, j - 1)
    BY <2>2, SubSeqOfAppend DEF more, n
  <2> QED
    BY <1>8, <2>3 DEF i, j
<1>10. CASE b = byte
  <2>1. /\ Cardinality(M) = c + 2
        /\ \A k \in 0 .. c : Nth(M, k) = Nth(S, k)
        /\ Nth(M, c + 1) = n + 2
    <3>1. S \in SUBSET Int /\ IsFiniteSet(S) /\ (\A i \in S : i < n + 2) /\ n + 2 \in Int
      <4>1. IsFiniteSet(inner \cup {n + 1})
        BY <1>4, FS_AddElement
      <4>2. n + 1 \in Int /\ n + 1 < n + 2 /\ n + 2 \in Int
        BY <1>1
      <4> QED
        BY <1>4, <4>1, <4>2 DEF S
    <3>2. /\ Cardinality(S \cup {n + 2}) = Cardinality(S) + 1
          /\ \A k \in 0 .. Cardinality(S) - 1 : Nth(S \cup {n + 2}, k) = Nth(S, k)
          /\ Nth(S \cup {n + 2}, Cardinality(S)) = n + 2
      BY <3>1, TopRank
    <3>3. M = S \cup {n + 2} /\ Cardinality(S) - 1 = c /\ Cardinality(S) + 1 = c + 2 /\ Cardinality(S) = c + 1
      BY <1>3, <1>7, <1>10
    <3> QED
      BY <3>2, <3>3
  <2>2. /\ Q \in Seq(Seq(B)) /\ Len(Q) = c + 1
        /\ \A k \in 1 .. c + 1 : Q[k] = SubSeq(more, Nth(M, k - 1) + 1, Nth(M, k) - 1)
    <3>1. Cardinality(M) - 1 = c + 1
      BY <1>7, <2>1
    <3> QED
      BY <1>6, <3>1 DEF ByRank
  <2>3. ASSUME NEW k \in 1 .. c
        PROVE  Q[k] = P[k]
    <3>1. k - 1 \in 0 .. c /\ k \in 0 .. c /\ k \in 1 .. c + 1
      BY <1>7
    <3> QED
      BY <1>9, <2>1, <2>2, <3>1
  <2>4. Q[c + 1] = <<>>
    <3>1. c + 1 \in 1 .. c + 1 /\ (c + 1) - 1 = c /\ c \in 0 .. c
      BY <1>7
    <3>2. Q[c + 1] = SubSeq(more, Nth(M, (c + 1) - 1) + 1, Nth(M, c + 1) - 1)
      BY <2>2, <3>1
    <3>3. Nth(M, (c + 1) - 1) = n + 1 /\ Nth(M, c + 1) = n + 2
      BY <1>7, <2>1, <3>1
    <3>4. (n + 1) + 1 > (n + 2) - 1 /\ (n + 1) + 1 \in Int /\ (n + 2) - 1 \in Int
      BY <1>1
    <3> QED
      BY <3>2, <3>3, <3>4, SubSeqEmpty
  <2> DEFINE A == Append(P, <<>>)
  <2>5. /\ A \in Seq(Seq(B)) /\ Len(A) = c + 1 /\ A[c + 1] = <<>>
        /\ \A k \in 1 .. c : A[k] = P[k]
    BY <1>7, <1>8
  <2> HIDE DEF A
  <2>6. \A k \in 1 .. Len(Q) : Q[k] = A[k]
    <3> SUFFICES ASSUME NEW k \in 1 .. c + 1 PROVE Q[k] = A[k]
      BY <2>2
    <3>1. k = c + 1 \/ k \in 1 .. c
      BY <1>7
    <3> QED
      BY <2>3, <2>4, <2>5, <3>1
  <2>7. Q = A
    BY <2>2, <2>5, <2>6, SeqEqual
  <2> QED
    BY <1>8, <1>10, <2>7 DEF A, P, Q, more
<1>11. CASE b # byte
  <2>1. /\ Cardinality(M) = c + 1
        /\ \A k \in 0 .. c - 1 : Nth(M, k) = Nth(S, k)
        /\ Nth(M, c) = n + 2
    <3>1. n + 2 \in Int
      BY <1>1
    <3>2. /\ Cardinality(inner \cup {n + 2}) = Cardinality(inner) + 1
          /\ \A k \in 0 .. Cardinality(inner) - 1 : Nth(inner \cup {n + 2}, k) = Nth(inner, k)
          /\ Nth(inner \cup {n + 2}, Cardinality(inner)) = n + 2
      BY <1>4, <3>1, TopRank
    <3>3. M = inner \cup {n + 2}
      BY <1>3, <1>11
    <3> QED
      BY <1>7, <3>2, <3>3 DEF c
  <2>2. /\ Q \in Seq(Seq(B)) /\ Len(Q) = c
        /\ \A k \in 1 .. c : Q[k] = SubSeq(more, Nth(M, k - 1) + 1, Nth(M, k) - 1)
    <3>1. Cardinality(M) - 1 = c
      BY <1>7, <2>1
    <3> QED
      BY <1>6, <3>1 DEF ByRank
  <2>3. ASSUME NEW k \in 1 .. c - 1
        PROVE  Q[k] = P[k]
    <3>1. k - 1 \in 0 .. c - 1 /\ k \in 0 .. c - 1 /\ k \in 1 .. c
      BY <1>7
    <3> QED
      BY <1>9, <2>1, <2>2, <3>1
  <2>4. Q[c] = Append(P[c], b)
    <3> DEFINE i == Nth(S, c - 1)
               s == SubSeq(more, i + 1, n + 1)
               r == SubSeq(text, i + 1, n)
               t == Append(r, b)
    <3>1. c \in 1 .. c /\ c - 1 \in 0 .. c - 1
      BY <1>7
    <3>2. Q[c] = SubSeq(more, Nth(M, c - 1) + 1, Nth(M, c) - 1)
      BY <2>2, <3>1
    <3>3. Nth(M, c - 1) = i /\ Nth(M, c) = n + 2 /\ (n + 2) - 1 = n + 1 /\ (n + 1) - 1 = n
      BY <1>1, <2>1, <3>1
    <3>4. P[c] = r
      BY <1>7, <1>8, <3>1, <3>3
    <3>5. i \in 0 .. n
      <4>1. i \in inner
        <5>1. Nth(inner, c - 1) \in inner
          BY <1>4, <3>1, NthIs DEF c
        <5> QED
          BY <1>7, <3>1, <5>1
      <4>2. i \in 0 .. n + 1 /\ i < n + 1
        <5>1. c - 1 \in 0 .. c
          BY <1>7
        <5> QED
          BY <1>4, <1>8, <4>1, <5>1
      <4> QED
        BY <1>1, <4>2
    <3> HIDE DEF i
    <3>6. s \in Seq(B) /\ Len(s) = n + 1 - i /\ \A k \in 1 .. n + 1 - i : s[k] = more[i + k]
      BY <1>1, <3>5
    <3>7. Len(text) = n
      BY DEF n
    <3>8. r \in Seq(B) /\ Len(r) = n - i /\ \A k \in 1 .. n - i : r[k] = text[i + k]
      BY <1>1, <3>5, <3>7
    <3> HIDE DEF s, r
    <3>9. t \in Seq(B) /\ Len(t) = n + 1 - i /\ t[n + 1 - i] = b /\ \A k \in 1 .. n - i : t[k] = r[k]
      BY <1>1, <3>5, <3>8
    <3> HIDE DEF t
    <3>10. \A k \in 1 .. Len(s) : s[k] = t[k]
      <4> SUFFICES ASSUME NEW k \in 1 .. n + 1 - i PROVE s[k] = t[k]
        BY <3>6
      <4>1. CASE k = n + 1 - i
        <5>1. i + k = n + 1
          BY <1>1, <3>5, <4>1
        <5> QED
          BY <1>1, <3>6, <3>9, <4>1, <5>1
      <4>2. CASE k \in 1 .. n - i
        <5>1. i + k \in 1 .. n
          BY <1>1, <3>5, <4>2
        <5> QED
          BY <1>1, <3>6, <3>8, <3>9, <4>2, <5>1
      <4> QED
        BY <1>1, <3>5, <4>1, <4>2
    <3>11. s = t
      BY <3>6, <3>9, <3>10, SeqEqual
    <3> QED
      BY <3>2, <3>3, <3>4, <3>11 DEF s, t
  <2> DEFINE A == [P EXCEPT ![c] = Append(@, b)]
  <2>5. /\ A \in Seq(Seq(B)) /\ Len(A) = c /\ A[c] = Append(P[c], b)
        /\ \A k \in 1 .. c - 1 : A[k] = P[k]
    <3>1. c \in 1 .. Len(P) /\ P[c] \in Seq(B)
      BY <1>7, <1>8
    <3>2. Append(P[c], b) \in Seq(B)
      BY <3>1
    <3>3. A = [P EXCEPT ![c] = Append(P[c], b)]
      BY <1>8, <3>1
    <3> DEFINE x == Append(P[c], b)
    <3> HIDE DEF x
    <3>4. /\ [P EXCEPT ![c] = x] \in Seq(Seq(B))
          /\ Len([P EXCEPT ![c] = x]) = Len(P)
          /\ \A j \in 1 .. Len(P) : [P EXCEPT ![c] = x][j] = IF j = c THEN x ELSE P[j]
      BY <1>8, <3>1, <3>2, ExceptSeq DEF x
    <3> HIDE DEF A
    <3> QED
      BY <1>7, <1>8, <3>3, <3>4 DEF x
  <2> HIDE DEF A
  <2>6. \A k \in 1 .. Len(Q) : Q[k] = A[k]
    <3> SUFFICES ASSUME NEW k \in 1 .. c PROVE Q[k] = A[k]
      BY <2>2
    <3>1. k = c \/ k \in 1 .. c - 1
      BY <1>7
    <3> QED
      BY <2>3, <2>4, <2>5, <3>1
  <2>7. Q = A
    BY <2>2, <2>5, <2>6, SeqEqual
  <2> QED
    BY <1>8, <1>11, <2>7 DEF A, P, Q, more
<1> QED
  BY <1>10, <1>11
=============================================================================
