--------------------------- MODULE DecimalProofs ---------------------------
(***************************************************************************)
(* Proofs about DecimalText, for texts of any bytes and any length and for *)
(* integers of any width.                                                  *)
(***************************************************************************)
EXTENDS MCDecimalText, DataLemmas

Byte == 0 .. 255

------------------------------------------------------------------------------
(* Remainders. *)

(* A remainder is the number but for a multiple of the modulus. *)
LEMMA Remainder ==
  ASSUME NEW x \in Int, NEW M \in Nat \ {0}
  PROVE  /\ x % M \in 0 .. M - 1
         /\ \E q \in Int : x = M * q + (x % M)
<1>1. x % M \in 0 .. M - 1
  OBVIOUS
<1>2. x \div M \in Int /\ x = M * (x \div M) + (x % M)
  OBVIOUS
<1> QED
  BY <1>1, <1>2

(* Remainders that differ by a multiple of the modulus are the same. *)
LEMMA RemainderUnique ==
  ASSUME NEW M \in Nat \ {0}, NEW q \in Int, NEW r \in 0 .. M - 1, NEW s \in 0 .. M - 1,
         r = M * q + s
  PROVE  r = s
<1>1. CASE q >= 1
  <2>1. M * q >= M
    BY <1>1
  <2> QED
    BY <2>1
<1>2. CASE q <= -1
  <2>1. M * q <= -M
    BY <1>2
  <2> QED
    BY <2>1
<1>3. CASE q = 0
  BY <1>3
<1> QED
  BY <1>1, <1>2, <1>3

(* Multiples of the modulus do not change a remainder. *)
SameRemainder(x, k, M) == (x + M * k) % M = x % M

LEMMA RemainderShift ==
  ASSUME NEW x \in Int, NEW k \in Int, NEW M \in Nat \ {0}
  PROVE  SameRemainder(x, k, M)
<1> DEFINE y == x + M * k
           r == y % M
           s == x % M
<1>1. PICK p \in Int : x = M * p + s
  BY Remainder
<1>2. s \in 0 .. M - 1
  BY Remainder
<1>3. y \in Int
  OBVIOUS
<1> HIDE DEF y
<1>4. r \in 0 .. M - 1
  BY <1>3, Remainder
<1>5. PICK q \in Int : y = M * q + r
  BY <1>3, Remainder
<1> HIDE DEF r, s
<1>6. r = M * (p + k - q) + s
  <2>1. x + M * k = M * q + r
    BY <1>5 DEF y
  <2>2. M * (p + k - q) = M * p + M * k - M * q
    OBVIOUS
  <2>3. M * p \in Int /\ M * k \in Int /\ M * q \in Int /\ r \in Int /\ s \in Int
    BY <1>2, <1>4
  <2> QED
    BY <1>1, <2>1, <2>2, <2>3
<1>7. p + k - q \in Int
  OBVIOUS
<1>8. r = s
  BY <1>2, <1>4, <1>6, <1>7, RemainderUnique
<1> QED
  BY <1>8 DEF r, s, y, SameRemainder

(* A number below the modulus is its own remainder. *)
LEMMA RemainderSmall ==
  ASSUME NEW M \in Nat \ {0}, NEW x \in 0 .. M - 1
  PROVE  x % M = x
OBVIOUS

(* Wrapping once or at every step gives the same. *)
LEMMA Wraps ==
  ASSUME NEW x \in Int, NEW d \in Int
  PROVE  /\ Unsigned(10 * Unsigned(x) + d) = Unsigned(10 * x + d)
         /\ Signed(10 * Signed(x) + d) = Signed(10 * x + d)
<1> DEFINE M == 2 * Half
<1>1. M \in Nat \ {0} /\ Half \in Nat
  BY HalfAssumption
<1>2. PICK p \in Int : x = M * p + Unsigned(x)
  BY <1>1, Remainder DEF Unsigned
<1> DEFINE z == x + Half
<1>3. PICK q \in Int : z = M * q + (z % M)
  <2>1. z \in Int
    BY <1>1
  <2> HIDE DEF z, M
  <2> QED
    BY <1>1, <2>1, Remainder
<1> HIDE DEF M, z
<1>4. Unsigned(x) \in Int /\ z \in Int /\ z % M \in Int
  BY <1>1 DEF Unsigned, M, z
<1>5. Unsigned(10 * Unsigned(x) + d) = Unsigned(10 * x + d)
  <2> DEFINE y == 10 * Unsigned(x) + d
  <2>1. y \in Int
    BY <1>4
  <2>2. 10 * x + d = y + M * (10 * p)
    <3>1. M * (10 * p) = 10 * (M * p) /\ M * p \in Int
      BY <1>1
    <3> QED
      BY <1>2, <1>4, <3>1
  <2> DEFINE k == 10 * p
  <2>3. k \in Int
    OBVIOUS
  <2> HIDE DEF y, k
  <2>4. SameRemainder(y, k, M)
    BY <1>1, <2>1, <2>3, RemainderShift, Zenon
  <2> QED
    BY <2>2, <2>4 DEF Unsigned, M, y, k, SameRemainder
<1>6. Signed(10 * Signed(x) + d) = Signed(10 * x + d)
  <2> DEFINE y == 10 * Signed(x) + d + Half
  <2>1. Signed(x) = (z % M) - Half /\ Signed(x) \in Int
    BY <1>1, <1>4 DEF Signed, M, z
  <2>2. y \in Int
    BY <1>1, <2>1
  <2>3. 10 * x + d + Half = y + M * (10 * q)
    <3>1. M * (10 * q) = 10 * (M * q) /\ M * q \in Int
      BY <1>1
    <3>2. x = M * q + Signed(x)
      BY <1>1, <1>3, <1>4, <2>1, <3>1 DEF z
    <3> QED
      BY <1>1, <2>1, <3>1, <3>2
  <2> DEFINE k == 10 * q
  <2>4. k \in Int
    OBVIOUS
  <2> HIDE DEF y, k
  <2>5. SameRemainder(y, k, M)
    BY <1>1, <2>2, <2>4, RemainderShift, Zenon
  <2> QED
    BY <2>3, <2>5 DEF Signed, M, y, k, SameRemainder
<1> QED
  BY <1>5, <1>6

(* A number that fits is not changed. *)
LEMMA FitsUnchanged ==
  ASSUME NEW x \in 0 .. Half - 1
  PROVE  Unsigned(x) = x /\ Signed(x) = x
<1>1. 2 * Half \in Nat \ {0} /\ Half \in Nat
  BY HalfAssumption
<1>2. x \in 0 .. 2 * Half - 1 /\ x + Half \in 0 .. 2 * Half - 1
  BY <1>1
<1>3. x % (2 * Half) = x /\ (x + Half) % (2 * Half) = x + Half
  BY <1>1, <1>2, RemainderSmall
<1> QED
  BY <1>1, <1>3 DEF Unsigned, Signed

------------------------------------------------------------------------------
(* The weight of digits. *)

(* The powers of ten. *)
LEMMA TensFacts ==
  /\ Tens \in [Nat -> Nat \ {0}]
  /\ Tens[0] = 1
  /\ \A n \in Nat : Tens[n + 1] = 10 * Tens[n]
<1> DEFINE step == [n \in Nat |-> [x \in Nat \ {0} |-> 10 * x]]
           P == Nat \ {0}
           Equation(f) == f = [n \in Nat |-> IF n = 0 THEN 1 ELSE 10 * f[n - 1]]
<1>1. PICK f \in [Nat -> P] : Iterates(f, 1, step)
  <2>1. step \in [Nat -> [P -> P]] /\ 1 \in P
    OBVIOUS
  <2> HIDE DEF step, P
  <2> QED
    BY <2>1, Iteration, Zenon
<1>2. /\ f[0] = 1
      /\ \A n \in Nat : f[n + 1] = 10 * f[n]
  <2>1. \A n \in Nat : f[n] \in P
    OBVIOUS
  <2>2. \A n \in Nat : step[n][f[n]] = 10 * f[n]
    BY <2>1
  <2> QED
    BY <1>1, <2>2 DEF Iterates
<1>3. \A n \in Nat : f[n] = IF n = 0 THEN 1 ELSE 10 * f[n - 1]
  <2> TAKE n \in Nat
  <2>1. CASE n # 0
    <3>1. n - 1 \in Nat /\ (n - 1) + 1 = n
      BY <2>1
    <3> QED
      BY <1>2, <2>1, <3>1
  <2> QED
    BY <1>2, <2>1
<1>4. Equation(f)
  <2>1. f = [n \in Nat |-> f[n]]
    OBVIOUS
  <2> QED
    BY <1>3, <2>1
<1>5. Equation(Tens)
  <2> HIDE DEF Equation
  <2>1. Tens = CHOOSE g : Equation(g)
    BY DEF Tens, Equation
  <2> QED
    BY <1>4, <2>1, Zenon
<1>6. /\ Tens[0] = 1
      /\ \A n \in Nat : Tens[n + 1] = 10 * Tens[n]
  <2>1. \A n \in Nat : Tens[n] = IF n = 0 THEN 1 ELSE 10 * Tens[n - 1]
    BY <1>5
  <2>2. \A n \in Nat : n + 1 \in Nat /\ n + 1 # 0 /\ (n + 1) - 1 = n
    OBVIOUS
  <2> HIDE DEF Equation
  <2> QED
    BY <2>1, <2>2
<1>7. DOMAIN Tens = Nat /\ Tens = [n \in Nat |-> Tens[n]]
  BY <1>5
<1> DEFINE Positive == {n \in Nat : Tens[n] \in P}
<1>8. \A n \in Nat : n \in Positive
  <2>1. 0 \in Positive
    BY <1>6
  <2>2. ASSUME NEW n \in Nat, n \in Positive
        PROVE  n + 1 \in Positive
    BY <1>6, <2>2
  <2> HIDE DEF Positive
  <2> QED
    BY <2>1, <2>2, NatSetInduction
<1> QED
  BY <1>6, <1>7, <1>8

(* A multiple of every value makes the same multiple of the sum. *)
LEMMA SumTimes ==
  ASSUME NEW S, IsFiniteSet(S), NEW w, NEW v, NEW c \in Int,
         \A x \in S : w[x] \in Int /\ v[x] = c * w[x]
  PROVE  /\ SumFunctionOnSet(w, S) \in Int
         /\ SumFunctionOnSet(v, S) = c * SumFunctionOnSet(w, S)
<1> DEFINE P == {s \in SUBSET S : SumFunctionOnSet(v, s) = c * SumFunctionOnSet(w, s)}
<1>1. ASSUME NEW s \in SUBSET S, \A x \in s : s \ {x} \in P
      PROVE  s \in P
  <2>1. CASE s = {}
    BY <2>1, SumEmpty
  <2>2. ASSUME NEW x \in s
        PROVE  s \in P
    <3> DEFINE a == SumFunctionOnSet(w, s \ {x})
               b == SumFunctionOnSet(v, s \ {x})
    <3>1. IsFiniteSet(s) /\ IsFiniteSet(s \ {x})
      BY FS_Subset
    <3>2. \A y \in s : w[y] \in Int /\ v[y] \in Int
      OBVIOUS
    <3>3. \A y \in s \ {x} : w[y] \in Int
      BY <3>2
    <3>4. a \in Int
      BY <3>1, <3>3, SumRemove
    <3>5. SumFunctionOnSet(w, s) = w[x] + a /\ SumFunctionOnSet(v, s) = v[x] + b
      BY <3>1, <3>2, SumRemove
    <3>6. b = c * a
      BY <1>1
    <3> HIDE DEF a, b
    <3>7. v[x] = c * w[x] /\ w[x] \in Int
      OBVIOUS
    <3>8. c * w[x] + c * a = c * (w[x] + a)
      BY <3>4, <3>7
    <3>9. SumFunctionOnSet(v, s) = c * SumFunctionOnSet(w, s)
      BY <3>5, <3>6, <3>7, <3>8
    <3> QED
      BY <3>9
  <2> QED
    BY <2>1, <2>2
<1>2. \A s \in SUBSET S : s \in P
  <2> HIDE DEF P
  <2> QED
    BY <1>1, SubsetInduction
<1>3. SumFunctionOnSet(w, S) \in Int
  BY SumRemove
<1> QED
  BY <1>2, <1>3

(* No digits weigh nothing. *)
LEMMA WeighNothing == Weigh(<<>>) = 0
BY SumEmpty DEF Weigh, SumFunction

(* What Digit is of a byte. *)
LEMMA DigitNat ==
  ASSUME NEW b \in Byte
  PROVE  Digit(b) \in Nat
BY DEF Byte, Digit, Zero

(* With one digit more the others weigh ten times as much. *)
LEMMA WeighAppend ==
  ASSUME NEW s \in Seq(Byte), NEW b \in Byte
  PROVE  /\ Weigh(s) \in Nat
         /\ Weigh(Append(s, b)) = 10 * Weigh(s) + Digit(b)
<1> DEFINE t == Append(s, b)
           n == Len(s)
           D == 1 .. n
           w == [i \in DOMAIN s |-> Digit(s[i]) * Tens[Len(s) - i]]
           v == [i \in DOMAIN t |-> Digit(t[i]) * Tens[Len(t) - i]]
<1>1. /\ n \in Nat /\ DOMAIN s = D /\ DOMAIN t = 1 .. n + 1 /\ Len(t) = n + 1
      /\ t[n + 1] = b /\ \A i \in D : t[i] = s[i] /\ s[i] \in Byte
  OBVIOUS
<1>2. IsFiniteSet(D) /\ n + 1 \notin D /\ D \cup {n + 1} = 1 .. n + 1
  <2>1. IsFiniteSet(1 .. n)
    BY <1>1, FS_Interval
  <2> QED
    BY <1>1, <2>1
<1>3. \A i \in D : w[i] = Digit(s[i]) * Tens[n - i] /\ w[i] \in Nat
  <2> TAKE i \in D
  <2>1. n - i \in Nat /\ Digit(s[i]) \in Nat
    BY <1>1, DigitNat
  <2>2. Tens[n - i] \in Nat
    BY <2>1, TensFacts
  <2>3. \A x, y \in Nat : x * y \in Nat
    OBVIOUS
  <2> QED
    BY <1>1, <2>1, <2>2, <2>3
<1>4. \A i \in D : v[i] = 10 * w[i]
  <2> TAKE i \in D
  <2>1. n - i \in Nat /\ Digit(s[i]) \in Nat /\ (n + 1) - i = (n - i) + 1 /\ i \in 1 .. n + 1
    BY <1>1, DigitNat
  <2>2. v[i] = Digit(s[i]) * Tens[(n - i) + 1]
    BY <1>1, <2>1
  <2>3. Tens[(n - i) + 1] = 10 * Tens[n - i] /\ Tens[n - i] \in Nat
    BY <2>1, TensFacts
  <2>4. \A x, y \in Nat : x * (10 * y) = 10 * (x * y)
    OBVIOUS
  <2> QED
    BY <1>3, <2>1, <2>2, <2>3, <2>4
<1>5. v[n + 1] = Digit(b)
  <2>1. n + 1 \in 1 .. n + 1 /\ (n + 1) - (n + 1) = 0
    BY <1>1
  <2>2. Digit(b) * 1 = Digit(b)
    BY DigitNat
  <2> QED
    BY <1>1, <2>1, <2>2, TensFacts
<1>6. Weigh(s) = SumFunctionOnSet(w, D) /\ Weigh(t) = SumFunctionOnSet(v, D \cup {n + 1})
  <2>1. DOMAIN w = D /\ DOMAIN v = D \cup {n + 1}
    BY <1>1, <1>2
  <2>2. Weigh(s) = SumFunctionOnSet(w, DOMAIN w) /\ Weigh(t) = SumFunctionOnSet(v, DOMAIN v)
    BY DEF Weigh, SumFunction
  <2> QED
    BY <2>1, <2>2
<1> HIDE DEF w, v, t
<1>7. SumFunctionOnSet(v, D \cup {n + 1}) = Digit(b) + SumFunctionOnSet(v, D)
  <2>1. \A i \in D \cup {n + 1} : v[i] \in Int
    <3>1. \A i \in D : v[i] \in Int
      BY <1>3, <1>4
    <3>2. v[n + 1] \in Int
      BY <1>5, DigitNat
    <3> QED
      BY <3>1, <3>2
  <2> HIDE DEF D
  <2> QED
    BY <1>2, <1>5, <2>1, SumAdd
<1>8. SumFunctionOnSet(w, D) \in Nat
  BY <1>2, <1>3, SumNat
<1>9. SumFunctionOnSet(v, D) = 10 * SumFunctionOnSet(w, D)
  <2>1. \A i \in D : w[i] \in Int /\ v[i] = 10 * w[i]
    BY <1>3, <1>4
  <2>2. 10 \in Int
    OBVIOUS
  <2> QED
    BY <1>2, <2>1, <2>2, SumTimes
<1>10. Weigh(t) = 10 * Weigh(s) + Digit(b)
  BY <1>6, <1>7, <1>8, <1>9, DigitNat
<1> QED
  BY <1>6, <1>8, <1>10 DEF t

------------------------------------------------------------------------------
(* The digits of a text, one after the other. *)

Prefix(t, i) == SubSeq(t, 1, i)

(* What a text is up to each of its positions. *)
LEMMA PrefixFacts ==
  ASSUME NEW B, NEW t \in Seq(B)
  PROVE  /\ Prefix(t, 0) = <<>> /\ Prefix(t, Len(t)) = t
         /\ \A i \in 0 .. Len(t) : Prefix(t, i) \in Seq(B)
         /\ \A i \in 0 .. Len(t) - 1 : Prefix(t, i + 1) = Append(Prefix(t, i), t[i + 1])
<1>1. Len(t) \in Nat /\ \A i \in 1 .. Len(t) : t[i] \in B
  OBVIOUS
<1>2. Prefix(t, 0) = <<>>
  BY SubSeqEmpty DEF Prefix
<1>3. Prefix(t, Len(t)) = t
  BY SubSeqFull DEF Prefix
<1>4. \A i \in 0 .. Len(t) : /\ Prefix(t, i) \in Seq(B) /\ Len(Prefix(t, i)) = i
                            /\ \A k \in 1 .. i : Prefix(t, i)[k] = t[k]
  BY <1>1 DEF Prefix
<1>5. ASSUME NEW i \in 0 .. Len(t) - 1
      PROVE  Prefix(t, i + 1) = Append(Prefix(t, i), t[i + 1])
  <2> DEFINE a == Prefix(t, i + 1)
             p == Prefix(t, i)
             b == Append(p, t[i + 1])
  <2>1. i \in 0 .. Len(t) /\ i + 1 \in 0 .. Len(t) /\ t[i + 1] \in B
    BY <1>1
  <2>2. a \in Seq(B) /\ Len(a) = i + 1 /\ \A k \in 1 .. i + 1 : a[k] = t[k]
    BY <1>4, <2>1
  <2>3. p \in Seq(B) /\ Len(p) = i /\ \A k \in 1 .. i : p[k] = t[k]
    BY <1>4, <2>1
  <2> HIDE DEF a, p
  <2>4. b \in Seq(B) /\ Len(b) = i + 1 /\ b[i + 1] = t[i + 1] /\ \A k \in 1 .. i : b[k] = p[k]
    BY <2>1, <2>3
  <2> HIDE DEF b
  <2>5. \A k \in 1 .. Len(a) : a[k] = b[k]
    BY <2>1, <2>2, <2>3, <2>4
  <2>6. a = b
    BY <2>2, <2>4, <2>5, SeqEqual
  <2> QED
    BY <2>6 DEF a, b, p
<1> QED
  BY <1>2, <1>3, <1>4, <1>5

(* The weight of the first digits, and of one more. *)
LEMMA WeighPrefix ==
  ASSUME NEW t \in Seq(Byte)
  PROVE  /\ Weigh(Prefix(t, 0)) = 0
         /\ \A i \in 0 .. Len(t) : Weigh(Prefix(t, i)) \in Nat
         /\ \A i \in 0 .. Len(t) - 1 :
              /\ Digit(t[i + 1]) \in Nat
              /\ Weigh(Prefix(t, i + 1)) = 10 * Weigh(Prefix(t, i)) + Digit(t[i + 1])
<1>1. \A i \in 0 .. Len(t) - 1 : t[i + 1] \in Byte
  OBVIOUS
<1>2. 0 \in Byte
  BY DEF Byte
<1> HIDE DEF Byte
<1>3. \A i \in 0 .. Len(t) : Weigh(Prefix(t, i)) \in Nat
  BY <1>2, PrefixFacts, WeighAppend
<1>4. ASSUME NEW i \in 0 .. Len(t) - 1
      PROVE  /\ Digit(t[i + 1]) \in Nat
             /\ Weigh(Prefix(t, i + 1)) = 10 * Weigh(Prefix(t, i)) + Digit(t[i + 1])
  <2>1. i \in 0 .. Len(t) /\ t[i + 1] \in Byte
    BY <1>1
  <2>2. Prefix(t, i) \in Seq(Byte) /\ Prefix(t, i + 1) = Append(Prefix(t, i), t[i + 1])
    BY <2>1, PrefixFacts
  <2> QED
    BY <2>1, <2>2, WeighAppend, DigitNat
<1> QED
  BY <1>3, <1>4, PrefixFacts, WeighNothing

(* What fits as a whole fits at every digit before. *)
LEMMA PrefixWeighsLess ==
  ASSUME NEW t \in Seq(Byte)
  PROVE  \A i \in 0 .. Len(t) : Weigh(Prefix(t, i)) <= Weigh(t)
<1> DEFINE n == Len(t)
           W(i) == Weigh(Prefix(t, i))
           P == {k \in Nat : k <= n => \A i \in 0 .. k : W(i) <= W(k)}
<1>1. n \in Nat /\ \A i \in 0 .. n : W(i) \in Nat
  BY WeighPrefix
<1>2. \A i \in 0 .. n - 1 : W(i) <= W(i + 1)
  <2> TAKE i \in 0 .. n - 1
  <2>1. W(i) \in Nat /\ Digit(t[i + 1]) \in Nat /\ W(i + 1) = 10 * W(i) + Digit(t[i + 1])
    BY <1>1, WeighPrefix
  <2> HIDE DEF W
  <2> QED
    BY <2>1
<1> HIDE DEF W
<1>3. 0 \in P
  BY <1>1
<1>4. ASSUME NEW k \in Nat, k \in P
      PROVE  k + 1 \in P
  <2> SUFFICES ASSUME k + 1 <= n, NEW i \in 0 .. k + 1 PROVE W(i) <= W(k + 1)
    OBVIOUS
  <2>1. k \in 0 .. n - 1 /\ k \in 0 .. n /\ k + 1 \in 0 .. n /\ i \in 0 .. n
    BY <1>1
  <2>2. W(k) <= W(k + 1) /\ W(k) \in Nat /\ W(k + 1) \in Nat /\ W(i) \in Nat
    BY <1>1, <1>2, <2>1
  <2>3. i \in 0 .. k => W(i) <= W(k)
    BY <1>1, <1>4, <2>1
  <2> QED
    BY <2>2, <2>3
<1>5. n \in P
  <2> HIDE DEF P
  <2> QED
    BY <1>1, <1>3, <1>4, NatSetInduction
<1>6. W(n) = Weigh(t)
  BY PrefixFacts DEF W
<1> QED
  BY <1>1, <1>5, <1>6 DEF W

(* Where the digits that a text begins with end. *)
LEMMA DigitsFacts ==
  ASSUME NEW t \in Seq(Byte)
  PROVE  /\ Digits(t) \in 0 .. Len(t)
         /\ \A i \in 1 .. Digits(t) : IsDigit(t[i])
         /\ (\A i \in DOMAIN t : IsDigit(t[i])) <=> Digits(t) = Len(t)
<1> DEFINE S == {n \in 0 .. Len(t) : \A i \in 1 .. n : IsDigit(t[i])}
<1>1. Len(t) \in Nat /\ DOMAIN t = 1 .. Len(t)
  OBVIOUS
<1>2. S \in SUBSET Int /\ 0 \in S /\ IsFiniteSet(S)
  <2>1. S \in SUBSET (0 .. Len(t)) /\ 0 \in S
    BY <1>1
  <2>2. IsFiniteSet(0 .. Len(t))
    BY <1>1, FS_Interval
  <2> HIDE DEF S
  <2>3. IsFiniteSet(S)
    BY <2>1, <2>2, FS_Subset
  <2>4. \A i \in 0 .. Len(t) : i \in Int
    OBVIOUS
  <2> QED
    BY <2>1, <2>3, <2>4
<1>3. Digits(t) \in S /\ \A i \in S : i <= Digits(t)
  <2> HIDE DEF S
  <2>1. Max(S) \in S /\ \A i \in S : i <= Max(S)
    BY <1>2, MaxFacts
  <2> QED
    BY <2>1 DEF Digits, S
<1>4. ASSUME \A i \in DOMAIN t : IsDigit(t[i])
      PROVE  Digits(t) = Len(t)
  <2>1. Len(t) \in S
    BY <1>1, <1>4
  <2> QED
    BY <1>1, <1>3, <2>1
<1> QED
  BY <1>1, <1>3, <1>4

------------------------------------------------------------------------------
(* ParseUint. *)

(* The wrapped value after each digit is the wrapped weight so far. *)
LEMMA ParseUintValue ==
  ASSUME NEW t \in Seq(Byte), t # <<>>
  PROVE  \E v \in [0 .. Digits(t) -> Int] :
           /\ \A i \in 0 .. Digits(t) : v[i] = Signed(Weigh(Prefix(t, i)))
           /\ ParseUint(t) = IF Digits(t) < Len(t) \/ Overflows(v, Digits(t))
                               THEN [value |-> -1, err |-> "trailingChar"]
                               ELSE [value |-> v[Digits(t)], err |-> "none"]
<1> DEFINE n == Digits(t)
           Equation(f) == f = [i \in 0 .. n |->
                                 IF i = 0 THEN 0 ELSE Signed(10 * f[i - 1] + Digit(t[i]))]
           v == CHOOSE f : Equation(f)
           step == [i \in 1 .. n |-> [x \in Int |-> Signed(10 * x + Digit(t[i]))]]
<1>1. n \in Nat /\ Len(t) \in Nat /\ n <= Len(t)
  BY DigitsFacts
<1>2. \A x \in Int : Signed(x) \in Int
  BY HalfAssumption DEF Signed
<1>3. \A i \in 1 .. n : Digit(t[i]) \in Int
  <2> TAKE i \in 1 .. n
  <2>1. i - 1 \in 0 .. Len(t) - 1 /\ (i - 1) + 1 = i
    BY <1>1
  <2>2. Digit(t[(i - 1) + 1]) \in Nat
    BY <2>1, WeighPrefix
  <2> QED
    BY <2>1, <2>2
<1>4. \E f \in [0 .. n -> Int] : f = [i \in 0 .. n |-> IF i = 0 THEN 0 ELSE step[i][f[i - 1]]]
  <2>1. step \in [1 .. n -> [Int -> Int]]
    <3> HIDE DEF n
    <3>1. \A i \in 1 .. n, x \in Int : 10 * x + Digit(t[i]) \in Int
      BY <1>3
    <3> QED
      BY <1>2, <3>1
  <2>2. 0 \in Int
    OBVIOUS
  <2> HIDE DEF n, step
  <2>3. \E f \in [0 .. n -> Int] : RecursUpTo(f, n, 0, step)
    BY <1>1, <2>1, <2>2, RecursionUpTo, Zenon
  <2> QED
    BY <2>3 DEF RecursUpTo
<1>5. PICK f \in [0 .. n -> Int] : f = [i \in 0 .. n |-> IF i = 0 THEN 0 ELSE step[i][f[i - 1]]]
  BY <1>4
<1>6. Equation(f)
  <2>1. \A i \in 0 .. n : f[i] = IF i = 0 THEN 0 ELSE Signed(10 * f[i - 1] + Digit(t[i]))
    <3> TAKE i \in 0 .. n
    <3>1. f[i] = IF i = 0 THEN 0 ELSE step[i][f[i - 1]]
      BY <1>5
    <3>2. CASE i # 0
      <4>1. i \in 1 .. n /\ i - 1 \in 0 .. n
        BY <1>1, <3>2
      <4>2. f[i - 1] \in Int
        BY <4>1
      <4>3. step[i][f[i - 1]] = Signed(10 * f[i - 1] + Digit(t[i]))
        BY <4>1, <4>2
      <4> QED
        BY <3>1, <3>2, <4>3
    <3> QED
      BY <3>1, <3>2
  <2>2. f = [i \in 0 .. n |-> f[i]]
    OBVIOUS
  <2> QED
    BY <2>1, <2>2
<1>7. Equation(v)
  <2> HIDE DEF Equation
  <2> QED
    BY <1>6, Zenon
<1>8. ParseUint(t) = IF n < Len(t) \/ Overflows(v, n)
                       THEN [value |-> -1, err |-> "trailingChar"]
                       ELSE [value |-> v[n], err |-> "none"]
  BY DEF ParseUint
<1> HIDE DEF v
<1>9. v[0] = 0 /\ \A i \in 1 .. n : v[i] = Signed(10 * v[i - 1] + Digit(t[i]))
  <2>1. \A i \in 0 .. n : v[i] = IF i = 0 THEN 0 ELSE Signed(10 * v[i - 1] + Digit(t[i]))
    BY <1>7
  <2>2. 0 \in 0 .. n /\ \A i \in 1 .. n : i \in 0 .. n /\ i # 0
    BY <1>1
  <2> HIDE DEF n, Equation
  <2> QED
    BY <2>1, <2>2
<1> DEFINE Good == {k \in Nat : k <= n => v[k] = Signed(Weigh(Prefix(t, k)))}
<1>10. \A k \in Nat : k \in Good
  <2>1. 0 \in Good
    <3>1. 0 \in 0 .. Half - 1
      BY HalfAssumption
    <3> QED
      BY <1>9, <3>1, WeighPrefix, FitsUnchanged
  <2>2. ASSUME NEW k \in Nat, k \in Good
        PROVE  k + 1 \in Good
    <3> SUFFICES ASSUME k + 1 <= n PROVE v[k + 1] = Signed(Weigh(Prefix(t, k + 1)))
      OBVIOUS
    <3> DEFINE x == Weigh(Prefix(t, k))
               d == Digit(t[k + 1])
    <3>1. k \in 0 .. Len(t) - 1 /\ k \in 0 .. Len(t) /\ k + 1 \in 1 .. n /\ (k + 1) - 1 = k
      BY <1>1
    <3>2. x \in Int /\ d \in Int /\ Weigh(Prefix(t, k + 1)) = 10 * x + d
      BY <3>1, WeighPrefix
    <3>3. v[k] = Signed(x)
      BY <1>1, <2>2
    <3>4. v[k + 1] = Signed(10 * v[k] + d)
      BY <1>9, <3>1
    <3> HIDE DEF x, d
    <3> QED
      BY <3>2, <3>3, <3>4, Wraps
  <2> HIDE DEF Good
  <2> QED
    BY <2>1, <2>2, NatSetInduction
<1>11. \A i \in 0 .. n : v[i] = Signed(Weigh(Prefix(t, i)))
  BY <1>1, <1>10
<1>12. v \in [0 .. n -> Int]
  <2>1. \A i \in 0 .. n : v[i] \in Int
    <3> TAKE i \in 0 .. n
    <3>1. Weigh(Prefix(t, i)) \in Int
      BY <1>1, WeighPrefix
    <3> QED
      BY <1>2, <1>11, <3>1
  <2>2. v = [i \in 0 .. n |-> v[i]]
    BY <1>7
  <2> HIDE DEF n
  <2> QED
    BY <2>1, <2>2
<1> HIDE DEF n
<1>13. \E w \in [0 .. n -> Int] :
         /\ \A i \in 0 .. n : w[i] = Signed(Weigh(Prefix(t, i)))
         /\ ParseUint(t) = IF n < Len(t) \/ Overflows(w, n)
                             THEN [value |-> -1, err |-> "trailingChar"]
                             ELSE [value |-> w[n], err |-> "none"]
  BY <1>8, <1>11, <1>12
<1> QED
  BY <1>13 DEF n

(* A value that never fell from one digit to the next is not negative. *)
LEMMA NeverFell ==
  ASSUME NEW n \in Nat, NEW v \in [0 .. n -> Int], v[0] = 0, ~Overflows(v, n)
  PROVE  v[n] >= 0
<1> DEFINE P == {k \in Nat : k <= n => v[k] >= 0}
<1>1. 0 \in P
  OBVIOUS
<1>2. ASSUME NEW k \in Nat, k \in P
      PROVE  k + 1 \in P
  <2> SUFFICES ASSUME k + 1 <= n PROVE v[k + 1] >= 0
    OBVIOUS
  <2>1. k + 1 \in 1 .. n /\ (k + 1) - 1 = k /\ k \in 0 .. n /\ k + 1 \in 0 .. n
    OBVIOUS
  <2>2. ~(v[k + 1] < v[k])
    BY <2>1 DEF Overflows
  <2>3. v[k] >= 0 /\ v[k] \in Int /\ v[k + 1] \in Int
    BY <1>2, <2>1
  <2> QED
    BY <2>2, <2>3
<1>3. n \in P
  <2> HIDE DEF P
  <2> QED
    BY <1>1, <1>2, NatSetInduction
<1> QED
  BY <1>3

(* What ParseUint returns for any text. *)
LEMMA UintOfText ==
  ASSUME text \in Seq(Byte)
  PROVE  UintParsed
<1> DEFINE n == Digits(text)
           r == ParseUint(text)
<1>1. CASE text = <<>>
  <2>1. r.err = "emptyInt"
    BY <1>1 DEF ParseUint
  <2>2. ~OnlyDigits(text)
    BY <1>1 DEF OnlyDigits
  <2> HIDE DEF r
  <2>3. r.err # "none"
    BY <2>1
  <2> QED
    BY <2>2, <2>3 DEF UintParsed, r
<1>2. CASE text # <<>>
  <2>1. /\ n \in 0 .. Len(text) /\ n \in Nat /\ Len(text) \in Nat
        /\ OnlyDigits(text) <=> n = Len(text)
    BY <1>2, DigitsFacts DEF OnlyDigits
  <2> HIDE DEF n
  <2>2. PICK v \in [0 .. n -> Int] :
          /\ \A i \in 0 .. n : v[i] = Signed(Weigh(Prefix(text, i)))
          /\ r = IF n < Len(text) \/ Overflows(v, n)
                   THEN [value |-> -1, err |-> "trailingChar"]
                   ELSE [value |-> v[n], err |-> "none"]
    BY <1>2, ParseUintValue DEF n
  <2>3. v[0] = 0
    <3>1. 0 \in 0 .. Half - 1 /\ 0 \in 0 .. n
      BY <2>1, HalfAssumption
    <3> QED
      BY <2>2, <3>1, WeighPrefix, FitsUnchanged
  <2> HIDE DEF r
  <2>4. ASSUME r.err = "none"
        PROVE  OnlyDigits(text) /\ r.value >= 0 /\ r.value = Signed(Weigh(text))
    <3>1. ~(n < Len(text)) /\ ~Overflows(v, n) /\ r.value = v[n]
      BY <2>2, <2>4
    <3>2. n = Len(text)
      BY <2>1, <3>1
    <3>3. v[n] = Signed(Weigh(text))
      <4>1. n \in 0 .. n
        BY <2>1
      <4> QED
        BY <2>2, <3>2, <4>1, PrefixFacts
    <3>4. v[n] >= 0
      BY <2>1, <2>3, <3>1, NeverFell
    <3> QED
      BY <2>1, <3>1, <3>2, <3>3, <3>4
  <2>5. ASSUME OnlyDigits(text), Weigh(text) < Half
        PROVE  r.err = "none"
    <3>1. n = Len(text)
      BY <2>1, <2>5
    <3>2. \A i \in 0 .. n : v[i] = Weigh(Prefix(text, i))
      <4> TAKE i \in 0 .. n
      <4> DEFINE w == Weigh(Prefix(text, i))
      <4>1. w \in Nat /\ w <= Weigh(text) /\ Weigh(text) \in Nat
        BY <3>1, WeighPrefix, PrefixWeighsLess, PrefixFacts
      <4> HIDE DEF w
      <4>2. w \in 0 .. Half - 1
        BY <2>5, <4>1, HalfAssumption
      <4>3. Signed(w) = w
        BY <4>2, FitsUnchanged
      <4> QED
        BY <2>2, <4>3 DEF w
    <3>3. ~Overflows(v, n)
      <4> SUFFICES ASSUME NEW i \in 1 .. n PROVE ~(v[i] < v[i - 1])
        BY DEF Overflows
      <4> DEFINE x == Weigh(Prefix(text, i - 1))
                 d == Digit(text[i])
      <4>1. i - 1 \in 0 .. n - 1 /\ i - 1 \in 0 .. n /\ i \in 0 .. n /\ (i - 1) + 1 = i
        BY <2>1
      <4>2. x \in Nat /\ d \in Nat /\ Weigh(Prefix(text, i)) = 10 * x + d
        BY <3>1, <4>1, WeighPrefix
      <4>3. v[i] = 10 * x + d /\ v[i - 1] = x
        BY <3>2, <4>1, <4>2
      <4> HIDE DEF x, d
      <4> QED
        BY <4>2, <4>3
    <3>4. ~(n < Len(text))
      BY <2>1, <3>1
    <3> QED
      BY <2>2, <3>3, <3>4
  <2> QED
    BY <2>4, <2>5 DEF UintParsed, r
<1> QED
  BY <1>1, <1>2

------------------------------------------------------------------------------
(* ParseDecimal. *)

(* The digits of a text on the two sides of its first dot. *)
SidesOf(t) == Whole(t) \o Fraction(t)

(* Where the two sides end. *)
LEMMA SidesFacts ==
  ASSUME NEW t \in Seq(Byte)
  PROVE  LET n == Len(Whole(t))
             m == Len(Fraction(t))
         IN  /\ n \in 0 .. Len(t) /\ m \in Nat
             /\ Whole(t) \in Seq(Byte) /\ Fraction(t) \in Seq(Byte)
             /\ \A i \in 1 .. n : Whole(t)[i] = t[i] /\ t[i] # Dot
             /\ \A i \in 1 .. m : Fraction(t)[i] = t[n + 1 + i]
             /\ \/ n = Len(t) /\ m = 0
                \/ n < Len(t) /\ m = Len(t) - n - 1 /\ t[n + 1] = Dot
<1> DEFINE S == {i \in DOMAIN t : t[i] = Dot} \cup {Len(t) + 1}
           e == Min(S)
           n == Len(Whole(t))
           m == Len(Fraction(t))
<1>1. Len(t) \in Nat /\ DOMAIN t = 1 .. Len(t) /\ \A i \in 1 .. Len(t) : t[i] \in Byte
  OBVIOUS
<1> HIDE DEF Byte
<1>2. e \in S /\ \A i \in S : e <= i
  <2>1. S \in SUBSET Nat /\ S # {}
    BY <1>1
  <2> HIDE DEF S
  <2> QED
    BY <2>1, MinFacts
<1>3. e \in 1 .. Len(t) + 1
  BY <1>1, <1>2
<1>4. \A i \in 1 .. e - 1 : t[i] # Dot
  <2> TAKE i \in 1 .. e - 1
  <2>1. i \in DOMAIN t /\ ~(e <= i)
    BY <1>1, <1>3
  <2> QED
    BY <1>2, <2>1
<1>5. e = Len(t) + 1 \/ (e <= Len(t) /\ t[e] = Dot)
  BY <1>1, <1>2
<1>6. Whole(t) = SubSeq(t, 1, e - 1)
  BY DEF Whole
<1> HIDE DEF S, e
<1>7. n = e - 1 /\ Whole(t) \in Seq(Byte) /\ \A i \in 1 .. n : Whole(t)[i] = t[i]
  <2> DEFINE w == SubSeq(t, 1, e - 1)
  <2>1. w \in Seq(Byte) /\ Len(w) = e - 1 /\ \A i \in 1 .. e - 1 : w[i] = t[i]
    BY <1>1, <1>3
  <2> QED
    BY <1>6, <2>1
<1>8. Fraction(t) = SubSeq(t, n + 2, Len(t))
  BY DEF Fraction
<1> HIDE DEF n
<1>9. /\ Fraction(t) \in Seq(Byte) /\ m = IF n = Len(t) THEN 0 ELSE Len(t) - n - 1
      /\ \A i \in 1 .. m : Fraction(t)[i] = t[n + 1 + i]
  <2>1. n \in Nat /\ n <= Len(t) /\ Len(t) \in Nat
    BY <1>1, <1>3, <1>7
  <2>2. CASE n = Len(t)
    <3>1. n + 2 \in Int /\ Len(t) \in Int /\ Len(t) < n + 2
      BY <2>1, <2>2
    <3>2. Fraction(t) = <<>>
      BY <1>8, <3>1, SubSeqEmpty
    <3> QED
      BY <2>2, <3>2
  <2>3. CASE n # Len(t)
    <3>1. n + 2 \in 1 .. Len(t) + 1 /\ n + 2 \in Int /\ Len(t) \in Int
      BY <2>1, <2>3
    <3>2. \A i \in n + 2 .. Len(t) : t[i] \in Byte
      BY <1>1, <2>1
    <3>3. /\ Fraction(t) \in Seq(Byte)
          /\ m = IF n + 2 <= Len(t) THEN Len(t) - (n + 2) + 1 ELSE 0
          /\ \A i \in 1 .. Len(t) - (n + 2) + 1 : Fraction(t)[i] = t[n + 2 + i - 1]
      BY <1>8, <3>1, <3>2, SubSeqProperties
    <3>4. m = Len(t) - n - 1 /\ m = Len(t) - (n + 2) + 1
      BY <2>1, <2>3, <3>3
    <3>5. \A i \in 1 .. m : n + 2 + i - 1 = n + 1 + i
      BY <1>1, <2>1, <3>4
    <3> QED
      BY <2>3, <3>3, <3>4, <3>5
  <2> QED
    BY <2>2, <2>3
<1>10. n \in 0 .. Len(t) /\ m \in Nat
  BY <1>3, <1>7, <1>9
<1>11. (n = Len(t) /\ m = 0) \/ (n < Len(t) /\ m = Len(t) - n - 1 /\ t[n + 1] = Dot)
  BY <1>3, <1>5, <1>7, <1>9, <1>1
<1> QED
  BY <1>4, <1>7, <1>9, <1>10, <1>11 DEF n, m

(* What the digits of both sides are in the text: one place to the left    *)
(* behind the dot.                                                         *)
LEMMA SidesPlaces ==
  ASSUME NEW t \in Seq(Byte)
  PROVE  LET n == Len(Whole(t))
             m == Len(Fraction(t))
             u == SidesOf(t)
         IN  /\ u \in Seq(Byte) /\ Len(u) = n + m
             /\ \A i \in 1 .. n : u[i] = t[i]
             /\ \A i \in 1 .. m : u[n + i] = t[n + 1 + i]
<1> DEFINE w == Whole(t)
           f == Fraction(t)
           n == Len(w)
           m == Len(f)
           u == SidesOf(t)
<1>1. /\ n \in Nat /\ m \in Nat /\ w \in Seq(Byte) /\ f \in Seq(Byte)
      /\ \A i \in 1 .. n : w[i] = t[i]
      /\ \A i \in 1 .. m : f[i] = t[n + 1 + i]
  BY SidesFacts
<1>2. u = w \o f
  BY DEF SidesOf
<1> HIDE DEF w, f, u
<1>3. /\ u \in Seq(Byte) /\ Len(u) = n + m
      /\ \A i \in 1 .. n + m : u[i] = IF i <= n THEN w[i] ELSE f[i - n]
  BY <1>1, <1>2, ConcatProperties
<1> HIDE DEF n, m
<1>4. \A i \in 1 .. n : i \in 1 .. n + m /\ i <= n
  BY <1>1
<1>5. \A i \in 1 .. m : n + i \in 1 .. n + m /\ ~(n + i <= n) /\ (n + i) - n = i
  BY <1>1
<1>6. \A i \in 1 .. n : u[i] = t[i]
  BY <1>1, <1>3, <1>4
<1>7. \A i \in 1 .. m : u[n + i] = t[n + 1 + i]
  BY <1>1, <1>3, <1>5
<1> QED
  BY <1>3, <1>6, <1>7 DEF n, m, w, f, u

(* A digit is no dot. *)
LEMMA DotIsNoDigit == ~IsDigit(Dot)
<1> DEFINE x == Dot - Zero
           r == x % 256
<1>1. x \in Int /\ x = -2 /\ 256 \in Nat \ {0}
  BY DEF Dot, Zero
<1> HIDE DEF x
<1>2. x % 256 \in 0 .. 256 - 1 /\ \E q \in Int : x = 256 * q + (x % 256)
  BY <1>1, Remainder, Zenon
<1> HIDE DEF r
<1>3. r = 254
  <2>1. r \in 0 .. 255 /\ \E q \in Int : x = 256 * q + r
    BY <1>2 DEF r
  <2> QED
    BY <1>1, <2>1
<1> QED
  BY <1>3 DEF IsDigit, Digit, r, x

(* The coefficient as ParseDecimal counts it, from one byte to the next. *)
LEMMA ParseDecimalSteps ==
  ASSUME NEW t \in Seq(Byte), t # <<>>, \A i \in DOMAIN t : t[i] = Dot \/ IsDigit(t[i])
  PROVE  \E v \in [0 .. Len(t) -> Int] :
           /\ v[0] = 0
           /\ \A i \in 1 .. Len(t) : v[i] = IF t[i] = Dot THEN v[i - 1]
                                            ELSE Unsigned(10 * v[i - 1] + Digit(t[i]))
           /\ ParseDecimal(t) = [coef |-> v[Len(t)],
                                 exp |-> Exponent(t, {i \in DOMAIN t : t[i] = Dot}),
                                 err |-> "none"]
<1> DEFINE n == Len(t)
           Counted(i, x) == IF t[i] = Dot THEN x ELSE Unsigned(10 * x + Digit(t[i]))
           Equation(f) == f = [i \in 0 .. n |->
                                 IF i = 0 THEN 0
                                 ELSE IF t[i] = Dot THEN f[i - 1]
                                 ELSE Unsigned(10 * f[i - 1] + Digit(t[i]))]
           v == CHOOSE f : Equation(f)
           step == [i \in 1 .. n |-> [x \in Int |-> Counted(i, x)]]
<1>1. n \in Nat /\ DOMAIN t = 1 .. n
  OBVIOUS
<1>2. \A i \in 1 .. n, x \in Int : Counted(i, x) \in Int
  <2> TAKE i \in 1 .. n, x \in Int
  <2>1. t[i] \in Byte
    OBVIOUS
  <2>2. Digit(t[i]) \in Nat
    BY <2>1, DigitNat
  <2>3. \A y \in Int : Unsigned(y) \in Int
    BY HalfAssumption DEF Unsigned
  <2>4. 10 * x + Digit(t[i]) \in Int
    BY <2>2
  <2> QED
    BY <2>3, <2>4
<1>3. PICK f \in [0 .. n -> Int] : RecursUpTo(f, n, 0, step)
  <2>1. step \in [1 .. n -> [Int -> Int]] /\ 0 \in Int
    <3> HIDE DEF Counted, n
    <3> QED
      BY <1>2
  <2> HIDE DEF n, step
  <2> QED
    BY <1>1, <2>1, RecursionUpTo, Zenon
<1>4. Equation(f)
  <2>1. \A i \in 0 .. n : f[i] = IF i = 0 THEN 0 ELSE Counted(i, f[i - 1])
    <3> TAKE i \in 0 .. n
    <3>1. f[i] = IF i = 0 THEN 0 ELSE step[i][f[i - 1]]
      BY <1>3 DEF RecursUpTo
    <3>2. CASE i # 0
      <4>1. i \in 1 .. n /\ i - 1 \in 0 .. n
        BY <1>1, <3>2
      <4>2. f[i - 1] \in Int
        BY <4>1
      <4> HIDE DEF Counted
      <4>3. step[i][f[i - 1]] = Counted(i, f[i - 1])
        BY <4>1, <4>2
      <4> QED
        BY <3>1, <3>2, <4>3
    <3> QED
      BY <3>1, <3>2
  <2>2. f = [i \in 0 .. n |-> f[i]]
    OBVIOUS
  <2> HIDE DEF n
  <2> QED
    BY <2>1, <2>2
<1>5. Equation(v)
  <2> HIDE DEF Equation
  <2> QED
    BY <1>4, Zenon
<1>6. ParseDecimal(t) = [coef |-> v[n],
                         exp |-> Exponent(t, {i \in DOMAIN t : t[i] = Dot}),
                         err |-> "none"]
  <2>1. {i \in DOMAIN t : t[i] # Dot /\ ~IsDigit(t[i])} = {}
    OBVIOUS
  <2> QED
    BY <2>1 DEF ParseDecimal
<1> HIDE DEF v
<1>7. \A i \in 0 .. n : v[i] = IF i = 0 THEN 0 ELSE Counted(i, v[i - 1])
  BY <1>5
<1>8. v[0] = 0 /\ \A i \in 1 .. n : v[i] = Counted(i, v[i - 1])
  <2>1. 0 \in 0 .. n /\ \A i \in 1 .. n : i \in 0 .. n /\ i # 0
    BY <1>1
  <2> HIDE DEF n, Counted
  <2> QED
    BY <1>7, <2>1
<1>9. v \in [0 .. n -> Int]
  <2> DEFINE P == {k \in Nat : k <= n => v[k] \in Int}
  <2>1. 0 \in P
    BY <1>8
  <2>2. ASSUME NEW k \in Nat, k \in P
        PROVE  k + 1 \in P
    <3> SUFFICES ASSUME k + 1 <= n PROVE v[k + 1] \in Int
      OBVIOUS
    <3>1. k + 1 \in 1 .. n /\ (k + 1) - 1 = k /\ k <= n
      BY <1>1
    <3> HIDE DEF Counted
    <3> QED
      BY <1>2, <1>8, <2>2, <3>1
  <2>3. \A k \in Nat : k \in P
    <3> HIDE DEF P
    <3> QED
      BY <2>1, <2>2, NatSetInduction
  <2>4. v = [i \in 0 .. n |-> v[i]]
    BY <1>5
  <2>5. \A i \in 0 .. n : v[i] \in Int
    BY <1>1, <2>3
  <2> HIDE DEF n
  <2> QED
    BY <2>4, <2>5
<1> HIDE DEF n
<1>10. \E w \in [0 .. n -> Int] :
         /\ w[0] = 0
         /\ \A i \in 1 .. n : w[i] = IF t[i] = Dot THEN w[i - 1]
                                     ELSE Unsigned(10 * w[i - 1] + Digit(t[i]))
         /\ ParseDecimal(t) = [coef |-> w[n],
                               exp |-> Exponent(t, {i \in DOMAIN t : t[i] = Dot}),
                               err |-> "none"]
  BY <1>6, <1>8, <1>9
<1> QED
  BY <1>10 DEF n

(* A text of digits around a dot, either side of which may be empty. *)
Decimal(t) == \A i \in DOMAIN SidesOf(t) : IsDigit(SidesOf(t)[i])

(* Its bytes are digits but for the dot, if there is one. *)
LEMMA DecimalBytes ==
  ASSUME NEW t \in Seq(Byte), Decimal(t)
  PROVE  LET n == Len(Whole(t))
         IN  /\ \A i \in 1 .. Len(t) : i = n + 1 \/ (IsDigit(t[i]) /\ t[i] # Dot)
             /\ {i \in DOMAIN t : t[i] = Dot} = IF n = Len(t) THEN {} ELSE {n + 1}
<1> DEFINE n == Len(Whole(t))
           m == Len(Fraction(t))
           u == SidesOf(t)
<1>1. /\ n \in Nat /\ m \in Nat /\ Len(t) \in Nat /\ n <= Len(t)
      /\ (n = Len(t) /\ m = 0) \/ (n < Len(t) /\ m = Len(t) - n - 1 /\ t[n + 1] = Dot)
  BY SidesFacts
<1>2. /\ Len(u) = n + m /\ u \in Seq(Byte)
      /\ \A i \in 1 .. n : u[i] = t[i]
      /\ \A i \in 1 .. m : u[n + i] = t[n + 1 + i]
  BY SidesPlaces
<1>3. \A i \in 1 .. n + m : IsDigit(u[i])
  <2>1. DOMAIN u = 1 .. n + m
    BY <1>2
  <2> HIDE DEF n, m
  <2> QED
    BY <2>1 DEF Decimal
<1> HIDE DEF n, m, u
<1>4. ASSUME NEW i \in 1 .. Len(t), i # n + 1
      PROVE  IsDigit(t[i])
  <2>1. CASE i <= n
    <3>1. i \in 1 .. n /\ i \in 1 .. n + m
      BY <1>1, <2>1
    <3> QED
      BY <1>2, <1>3, <3>1
  <2>2. CASE i > n + 1
    <3> DEFINE j == i - n - 1
    <3>1. j \in 1 .. m /\ n + j \in 1 .. n + m /\ n + 1 + j = i
      BY <1>1, <2>2
    <3> HIDE DEF j
    <3> QED
      BY <1>2, <1>3, <3>1
  <2> QED
    BY <1>1, <1>4, <2>1, <2>2
<1>5. \A i \in 1 .. Len(t) : i = n + 1 \/ (IsDigit(t[i]) /\ t[i] # Dot)
  BY <1>4, DotIsNoDigit
<1>6. DOMAIN t = 1 .. Len(t)
  OBVIOUS
<1>7. {i \in DOMAIN t : t[i] = Dot} = IF n = Len(t) THEN {} ELSE {n + 1}
  <2>1. CASE n = Len(t)
    <3>1. \A i \in 1 .. Len(t) : i # n + 1
      BY <1>1, <2>1
    <3> QED
      BY <1>5, <1>6, <2>1, <3>1
  <2>2. CASE n # Len(t)
    <3>1. n + 1 \in 1 .. Len(t) /\ t[n + 1] = Dot
      BY <1>1, <2>2
    <3> QED
      BY <1>5, <1>6, <2>2, <3>1
  <2> QED
    BY <2>1, <2>2
<1> QED
  BY <1>5, <1>7 DEF n

(* ParseDecimal of such a text: the weight of its digits, and as exponent  *)
(* the number of them behind the dot.                                      *)
LEMMA DecimalValue ==
  ASSUME NEW t \in Seq(Byte), t # <<>>, Decimal(t)
  PROVE  ParseDecimal(t) = [coef |-> Unsigned(Weigh(SidesOf(t))),
                            exp |-> -Len(Fraction(t)),
                            err |-> "none"]
<1> DEFINE N == Len(t)
           n == Len(Whole(t))
           m == Len(Fraction(t))
           u == SidesOf(t)
           dots == {i \in DOMAIN t : t[i] = Dot}
           W(i) == Weigh(Prefix(u, i))
<1>1. /\ n \in Nat /\ m \in Nat /\ N \in Nat /\ n <= N
      /\ (n = N /\ m = 0) \/ (n < N /\ m = N - n - 1 /\ t[n + 1] = Dot)
  BY SidesFacts
<1>2. /\ Len(u) = n + m /\ u \in Seq(Byte)
      /\ \A i \in 1 .. n : u[i] = t[i]
      /\ \A i \in 1 .. m : u[n + i] = t[n + 1 + i]
  BY SidesPlaces
<1>3. /\ \A i \in 1 .. N : i = n + 1 \/ (IsDigit(t[i]) /\ t[i] # Dot)
      /\ dots = IF n = N THEN {} ELSE {n + 1}
  BY DecimalBytes
<1>4. \A i \in DOMAIN t : t[i] = Dot \/ IsDigit(t[i])
  <2>1. DOMAIN t = 1 .. N /\ (n = N => n + 1 \notin 1 .. N)
    BY <1>1
  <2> QED
    BY <1>1, <1>3, <2>1
<1>5. PICK v \in [0 .. N -> Int] :
        /\ v[0] = 0
        /\ \A i \in 1 .. N : v[i] = IF t[i] = Dot THEN v[i - 1]
                                    ELSE Unsigned(10 * v[i - 1] + Digit(t[i]))
        /\ ParseDecimal(t) = [coef |-> v[N], exp |-> Exponent(t, dots), err |-> "none"]
  BY <1>4, ParseDecimalSteps
<1> HIDE DEF N, n, m, u, dots
<1>6. Exponent(t, dots) = -m
  <2>1. CASE n = N
    BY <1>1, <1>3, <2>1 DEF Exponent
  <2>2. CASE n # N
    <3>1. {n + 1} \in SUBSET Int /\ IsFiniteSet({n + 1}) /\ {n + 1} # {}
      <4>1. IsFiniteSet({n + 1})
        BY FS_Singleton
      <4> QED
        BY <1>1, <4>1
    <3>2. Max({n + 1}) = n + 1
      BY <3>1, MaxFacts
    <3>3. Exponent(t, dots) = (n + 1) - N
      BY <1>3, <2>2, <3>1, <3>2 DEF Exponent, N
    <3> QED
      BY <1>1, <2>2, <3>3
  <2> QED
    BY <2>1, <2>2
<1>7. /\ W(0) = 0
      /\ \A i \in 0 .. n + m : W(i) \in Nat
      /\ \A i \in 0 .. n + m - 1 :
           Digit(u[i + 1]) \in Nat /\ W(i + 1) = 10 * W(i) + Digit(u[i + 1])
  <2>1. u \in Seq(Byte) /\ Len(u) = n + m
    BY <1>2
  <2>2. /\ W(0) = 0
        /\ \A i \in 0 .. Len(u) : W(i) \in Nat
        /\ \A i \in 0 .. Len(u) - 1 :
             Digit(u[i + 1]) \in Nat /\ W(i + 1) = 10 * W(i) + Digit(u[i + 1])
    BY <2>1, WeighPrefix
  <2> HIDE DEF W
  <2> QED
    BY <1>1, <2>1, <2>2
<1>8. W(n + m) = Weigh(u)
  BY <1>2, PrefixFacts
<1> HIDE DEF W
<1> DEFINE P(i) == IF i <= n THEN i ELSE i - 1
           Good == {k \in Nat : k <= N => v[k] = Unsigned(W(P(k)))}
<1>9. \A k \in Nat : k \in Good
  <2>1. 0 \in Good
    <3>1. P(0) = 0 /\ 0 \in 0 .. Half - 1
      BY <1>1, HalfAssumption
    <3>2. Unsigned(0) = 0
      BY <3>1, FitsUnchanged
    <3> QED
      BY <1>5, <1>7, <3>1, <3>2
  <2>2. ASSUME NEW k \in Nat, k \in Good
        PROVE  k + 1 \in Good
    <3> SUFFICES ASSUME k + 1 <= N PROVE v[k + 1] = Unsigned(W(P(k + 1)))
      OBVIOUS
    <3>1. k + 1 \in 1 .. N /\ (k + 1) - 1 = k /\ k <= N
      BY <1>1
    <3>2. v[k] = Unsigned(W(P(k)))
      BY <2>2, <3>1
    <3>3. CASE k + 1 = n + 1
      <4>1. P(k) = n /\ P(k + 1) = n /\ n # N
        BY <1>1, <3>1, <3>3
      <4>2. t[k + 1] = Dot
        BY <1>1, <3>3, <4>1
      <4>3. v[k + 1] = v[k]
        BY <1>5, <3>1, <4>2
      <4> QED
        BY <3>2, <4>1, <4>3
    <3>4. CASE k + 1 # n + 1
      <4> DEFINE p == P(k)
      <4>1. p \in 0 .. n + m - 1 /\ p \in 0 .. n + m /\ P(k + 1) = p + 1 /\ u[p + 1] = t[k + 1]
        <5>1. CASE k + 1 <= n
          <6>1. k + 1 \in 1 .. n /\ p = k /\ P(k + 1) = k + 1
            BY <1>1, <3>1, <5>1
          <6> QED
            BY <1>1, <1>2, <6>1
        <5>2. CASE k > n
          <6> DEFINE j == k - n
          <6>1. p = k - 1 /\ P(k + 1) = k /\ n < N
            BY <1>1, <3>1, <5>2
          <6>2. j \in 1 .. m /\ n + j = k /\ n + 1 + j = k + 1
            BY <1>1, <3>1, <5>2
          <6>3. u[k] = t[k + 1]
            <7> HIDE DEF j
            <7> QED
              BY <1>2, <6>2
          <6>4. p \in 0 .. n + m - 1 /\ p \in 0 .. n + m /\ p + 1 = k
            BY <1>1, <6>1, <6>2
          <6> QED
            BY <6>1, <6>3, <6>4
        <5> QED
          BY <1>1, <3>4, <5>1, <5>2
      <4>2. t[k + 1] # Dot
        BY <1>3, <3>1, <3>4
      <4>3. v[k + 1] = Unsigned(10 * v[k] + Digit(t[k + 1]))
        BY <1>5, <3>1, <4>2
      <4> DEFINE x == W(p)
                 d == Digit(t[k + 1])
      <4>4. x \in Int /\ d \in Int /\ W(p + 1) = 10 * x + d
        BY <1>7, <4>1
      <4> HIDE DEF p, P, d, x
      <4>5. Unsigned(10 * Unsigned(x) + d) = Unsigned(10 * x + d)
        BY <4>4, Wraps
      <4> QED
        BY <3>2, <4>1, <4>3, <4>4, <4>5 DEF p, d, x
    <3> QED
      BY <3>3, <3>4
  <2> HIDE DEF Good
  <2> QED
    BY <2>1, <2>2, NatSetInduction
<1>10. P(N) = n + m
  BY <1>1
<1>11. v[N] = Unsigned(Weigh(u))
  <2>1. N \in Good
    BY <1>1, <1>9
  <2> HIDE DEF P
  <2>2. v[N] = Unsigned(W(P(N)))
    BY <1>1, <2>1
  <2> QED
    BY <1>8, <1>10, <2>2
<1> QED
  BY <1>5, <1>6, <1>11 DEF N, n, m, u

(* What is accepted as a decimal is one in that sense. *)
LEMMA DecimalOfSides ==
  ASSUME NEW t \in Seq(Byte),
         OnlyDigits(Whole(t)), Fraction(t) = <<>> \/ OnlyDigits(Fraction(t))
  PROVE  t # <<>> /\ Decimal(t)
<1> DEFINE w == Whole(t)
           f == Fraction(t)
           u == SidesOf(t)
<1>1. w \in Seq(Byte) /\ f \in Seq(Byte) /\ Len(w) \in 0 .. Len(t)
  BY SidesFacts
<1>2. u = w \o f
  BY DEF SidesOf
<1>3. w # <<>> /\ \A i \in DOMAIN w : IsDigit(w[i])
  BY DEF OnlyDigits
<1>4. \A i \in DOMAIN f : IsDigit(f[i])
  <2> HIDE DEF f
  <2>1. CASE f = <<>>
    <3>1. DOMAIN f = {}
      BY <2>1
    <3> QED
      BY <3>1
  <2>2. CASE OnlyDigits(f)
    BY <2>2 DEF OnlyDigits
  <2> QED
    BY <2>1, <2>2 DEF f
<1> HIDE DEF w, f, u
<1>5. t # <<>>
  <2>1. Len(w) # 0
    BY <1>1, <1>3
  <2> QED
    BY <1>1, <2>1
<1>6. \A i \in DOMAIN u : IsDigit(u[i])
  <2>1. /\ DOMAIN u = 1 .. Len(w) + Len(f)
        /\ \A i \in 1 .. Len(w) + Len(f) : u[i] = IF i <= Len(w) THEN w[i] ELSE f[i - Len(w)]
    BY <1>1, <1>2, ConcatProperties
  <2>2. DOMAIN w = 1 .. Len(w) /\ DOMAIN f = 1 .. Len(f) /\ Len(w) \in Nat /\ Len(f) \in Nat
    BY <1>1
  <2>3. ASSUME NEW i \in 1 .. Len(w) + Len(f)
        PROVE  IsDigit(u[i])
    <3>1. CASE i <= Len(w)
      <4>1. i \in DOMAIN w
        BY <2>2, <3>1
      <4> QED
        BY <1>3, <2>1, <3>1, <4>1
    <3>2. CASE ~(i <= Len(w))
      <4>1. i - Len(w) \in DOMAIN f
        BY <2>2, <3>2
      <4> QED
        BY <1>4, <2>1, <3>2, <4>1
    <3> QED
      BY <3>1, <3>2
  <2> QED
    BY <2>1, <2>3
<1> QED
  BY <1>5, <1>6 DEF Decimal, u

(* What ParseDecimal returns for a price that fits. *)
LEMMA PriceOfText ==
  ASSUME text \in Seq(Byte)
  PROVE  PriceParsed
<1> DEFINE w == Weigh(SidesOf(text))
<1> SUFFICES ASSUME OnlyDigits(Whole(text)),
                    Fraction(text) = <<>> \/ OnlyDigits(Fraction(text)),
                    Fits(text)
             PROVE  LET r == ParseDecimal(text)
                    IN  /\ r.err = "none"
                        /\ r.coef = Weigh(Whole(text) \o Fraction(text))
                        /\ r.exp = -Len(Fraction(text))
  BY DEF PriceParsed
<1>1. text # <<>> /\ Decimal(text)
  BY DecimalOfSides
<1>2. w \in Nat
  <2>1. SidesOf(text) \in Seq(Byte)
    BY SidesPlaces
  <2>2. 0 \in Byte
    BY DEF Byte
  <2> QED
    BY <2>1, <2>2, WeighAppend
<1>3. Unsigned(w) = w
  <2>1. w < Half
    BY DEF Fits, SidesOf
  <2> HIDE DEF w
  <2>2. w \in 0 .. Half - 1
    BY <1>2, <2>1, HalfAssumption
  <2> QED
    BY <2>2, FitsUnchanged
<1>4. ParseDecimal(text) = [coef |-> w, exp |-> -Len(Fraction(text)), err |-> "none"]
  BY <1>1, <1>3, DecimalValue
<1> QED
  BY <1>4 DEF SidesOf

------------------------------------------------------------------------------
(* AppendUint. *)

(* A number is ten times what is left of its last digit, and that digit. *)
LEMMA LastDigit ==
  ASSUME NEW n \in Nat
  PROVE  /\ n \div 10 \in Nat /\ n % 10 \in 0 .. 9 /\ n = 10 * (n \div 10) + (n % 10)
         /\ n >= 10 => n \div 10 < n /\ n \div 10 >= 1
<1>1. n \div 10 \in Nat /\ n % 10 \in 0 .. 9 /\ n = 10 * (n \div 10) + (n % 10)
  OBVIOUS
<1> QED
  BY <1>1

(* There is one way only. *)
LEMMA LastDigitUnique ==
  ASSUME NEW x \in Nat, NEW d \in 0 .. 9
  PROVE  (10 * x + d) \div 10 = x /\ (10 * x + d) % 10 = d
<1> DEFINE n == 10 * x + d
<1>1. n \in Nat
  OBVIOUS
<1> HIDE DEF n
<1>2. n \div 10 \in Nat /\ n % 10 \in 0 .. 9 /\ n = 10 * (n \div 10) + (n % 10)
  BY <1>1, LastDigit
<1>3. n = 10 * x + d
  BY DEF n
<1>4. n \div 10 = x /\ n % 10 = d
  BY <1>2, <1>3
<1> QED
  BY <1>4 DEF n

(* The digits of a number, from those of what is left of its last digit. *)
DigitsByTens(f) ==
  f = [m \in Nat |-> IF m < 10 THEN <<Zero + m>>
                     ELSE Append(f[m \div 10], Zero + (m % 10))]

(* There is such a function: the text of a number is settled after as many *)
(* rounds as the number has digits.                                        *)
LEMMA DigitsByTensExist == \E f \in [Nat -> Seq(Nat)] : DigitsByTens(f)
<1> DEFINE T == [Nat -> Seq(Nat)]
           More(g, m) == IF m < 10 THEN <<Zero + m>> ELSE Append(g[m \div 10], Zero + (m % 10))
           F == [k \in Nat |-> [g \in T |-> [m \in Nat |-> More(g, m)]]]
           none == [m \in Nat |-> <<>>]
<1>1. \A g \in T, m \in Nat : More(g, m) \in Seq(Nat)
  <2> TAKE g \in T, m \in Nat
  <2>1. m \div 10 \in Nat /\ m % 10 \in Nat
    BY LastDigit
  <2>2. g[m \div 10] \in Seq(Nat) /\ Zero + (m % 10) \in Nat /\ Zero + m \in Nat
    BY <2>1 DEF Zero
  <2> QED
    BY <2>2
<1>2. none \in T
  <2>1. <<>> \in Seq(Nat)
    OBVIOUS
  <2> QED
    BY <2>1
<1>3. F \in [Nat -> [T -> T]]
  <2>1. \A g \in T : [m \in Nat |-> More(g, m)] \in T
    <3> HIDE DEF More
    <3> QED
      BY <1>1
  <2> HIDE DEF T, More
  <2> QED
    BY <2>1
<1>4. PICK G \in [Nat -> T] : Iterates(G, none, F)
  <2> HIDE DEF F, T, none
  <2> QED
    BY <1>2, <1>3, Iteration, Zenon
<1>5. \A k \in Nat, m \in Nat : G[k + 1][m] = More(G[k], m)
  <2> TAKE k \in Nat, m \in Nat
  <2>1. G[k] \in T
    OBVIOUS
  <2> HIDE DEF T, More
  <2>2. F[k][G[k]] = [l \in Nat |-> More(G[k], l)]
    BY <2>1
  <2>3. G[k + 1] = F[k][G[k]]
    BY <1>4 DEF Iterates
  <2> QED
    BY <2>2, <2>3
<1> DEFINE Settled == {k \in Nat : \A m \in Nat : m < k => G[k + 1][m] = G[k][m]}
<1>6. \A k \in Nat : k \in Settled
  <2>1. 0 \in Settled
    OBVIOUS
  <2>2. ASSUME NEW k \in Nat, k \in Settled
        PROVE  k + 1 \in Settled
    <3> SUFFICES ASSUME NEW m \in Nat, m < k + 1
                 PROVE  G[(k + 1) + 1][m] = G[k + 1][m]
      OBVIOUS
    <3>1. k + 1 \in Nat
      OBVIOUS
    <3>2. G[(k + 1) + 1][m] = More(G[k + 1], m) /\ G[k + 1][m] = More(G[k], m)
      BY <1>5, <3>1
    <3>3. CASE m >= 10
      <4>1. m \div 10 \in Nat /\ m \div 10 < k
        BY <3>3, LastDigit
      <4>2. G[k + 1][m \div 10] = G[k][m \div 10]
        BY <2>2, <4>1
      <4> QED
        BY <3>2, <4>2
    <3> QED
      BY <3>2, <3>3
  <2> HIDE DEF Settled
  <2> QED
    BY <2>1, <2>2, NatSetInduction
<1> DEFINE Stays(m) == {j \in Nat : G[m + 1 + j][m] = G[m + 1][m]}
<1>7. \A m \in Nat, j \in Nat : j \in Stays(m)
  <2> TAKE m \in Nat
  <2>1. 0 \in Stays(m)
    <3>1. m + 1 + 0 = m + 1
      OBVIOUS
    <3> QED
      BY <3>1
  <2>2. ASSUME NEW j \in Nat, j \in Stays(m)
        PROVE  j + 1 \in Stays(m)
    <3>1. m + 1 + j \in Nat /\ m < m + 1 + j /\ m + 1 + (j + 1) = (m + 1 + j) + 1
      OBVIOUS
    <3>2. G[(m + 1 + j) + 1][m] = G[m + 1 + j][m]
      <4> DEFINE k == m + 1 + j
      <4>1. k \in Nat /\ m < k
        BY <3>1
      <4> HIDE DEF k
      <4>2. G[k + 1][m] = G[k][m]
        BY <1>6, <4>1
      <4> QED
        BY <4>2 DEF k
    <3> QED
      BY <2>2, <3>1, <3>2
  <2> DEFINE A == Stays(m)
  <2> HIDE DEF Stays
  <2>3. 0 \in A /\ \A j \in Nat : j \in A => j + 1 \in A
    BY <2>1, <2>2
  <2> HIDE DEF A
  <2>4. \A j \in Nat : j \in A
    BY <2>3, NatSetInduction
  <2> QED
    BY <2>4 DEF A
<1> DEFINE f == [m \in Nat |-> G[m + 1][m]]
<1>8. f \in [Nat -> Seq(Nat)]
  <2>1. \A m \in Nat : G[m + 1] \in T
    OBVIOUS
  <2>2. \A m \in Nat : G[m + 1][m] \in Seq(Nat)
    BY <2>1
  <2> QED
    BY <2>2
<1>9. \A m \in Nat : f[m] = More(f, m)
  <2> TAKE m \in Nat
  <2>1. f[m] = More(G[m], m)
    BY <1>5
  <2>2. CASE m >= 10
    <3> DEFINE q == m \div 10
               j == m - q - 1
    <3>1. q \in Nat /\ q < m
      BY <2>2, LastDigit
    <3> HIDE DEF q
    <3>2. j \in Nat /\ q + 1 + j = m
      BY <3>1
    <3> HIDE DEF j
    <3>3. G[q + 1 + j][q] = G[q + 1][q]
      BY <1>7, <3>1, <3>2
    <3>4. G[m][q] = f[q]
      BY <3>1, <3>2, <3>3
    <3> HIDE DEF f
    <3> QED
      BY <2>1, <3>4 DEF q
  <2>3. CASE m < 10
    <3> HIDE DEF f
    <3> QED
      BY <2>1, <2>3
  <2> QED
    BY <2>2, <2>3
<1>10. DigitsByTens(f)
  <2>1. f = [m \in Nat |-> f[m]]
    OBVIOUS
  <2> HIDE DEF f
  <2> QED
    BY <1>9, <2>1 DEF DigitsByTens
<1> QED
  BY <1>8, <1>10

(* What AppendUint writes. *)
LEMMA AppendUintFacts ==
  /\ \A n \in 0 .. 9 : AppendUint(n) = <<Zero + n>>
  /\ \A n \in Nat : n >= 10 =>
       AppendUint(n) = Append(AppendUint(n \div 10), Zero + (n % 10))
<1> DEFINE f == CHOOSE g : DigitsByTens(g)
<1>1. DigitsByTens(f)
  BY DigitsByTensExist, Zenon
<1>2. \A n \in Nat : AppendUint(n) = f[n]
  BY Zenon DEF AppendUint, DigitsByTens
<1> HIDE DEF f
<1>3. \A n \in Nat : f[n] = IF n < 10 THEN <<Zero + n>>
                            ELSE Append(f[n \div 10], Zero + (n % 10))
  BY <1>1 DEF DigitsByTens
<1>4. ASSUME NEW n \in Nat, n >= 10
      PROVE  AppendUint(n) = Append(AppendUint(n \div 10), Zero + (n % 10))
  <2>1. n \div 10 \in Nat
    BY LastDigit
  <2>2. f[n] = Append(f[n \div 10], Zero + (n % 10))
    <3>1. ~(n < 10)
      BY <1>4
    <3> QED
      BY <1>3, <3>1, Zenon
  <2> QED
    BY <1>2, <2>1, <2>2
<1>5. ASSUME NEW n \in 0 .. 9
      PROVE  AppendUint(n) = <<Zero + n>>
  <2>1. n \in Nat /\ n < 10
    OBVIOUS
  <2> QED
    BY <1>2, <1>3, <2>1, Zenon
<1> QED
  BY <1>4, <1>5

------------------------------------------------------------------------------
(* Digits and their weight: what is printed of what was parsed. *)

(* A digit is the byte of its value. *)
LEMMA DigitByte ==
  ASSUME NEW b \in Byte, IsDigit(b)
  PROVE  Digit(b) \in 0 .. 9 /\ b = Zero + Digit(b)
<1> DEFINE x == b - Zero
           r == x % 256
<1>1. x \in -48 .. 207 /\ x \in Int /\ 256 \in Nat \ {0}
  BY DEF Zero, Byte
<1>2. b = Zero + x
  BY DEF Zero, Byte
<1> HIDE DEF x
<1>3. x % 256 \in 0 .. 256 - 1 /\ \E q \in Int : x = 256 * q + (x % 256)
  BY <1>1, Remainder, Zenon
<1>4. r <= 9
  BY DEF IsDigit, Digit, r, x
<1>5. r \in 0 .. 9 /\ x = r
  <2>1. r \in 0 .. 255 /\ \E q \in Int : x = 256 * q + r
    BY <1>3
  <2> HIDE DEF r
  <2> QED
    BY <1>1, <1>4, <2>1
<1> QED
  BY <1>2, <1>5 DEF Digit, r, x

(* Digits that do not begin with a zero are printed as they were. *)
LEMMA UintPrinted ==
  ASSUME NEW t \in Seq(Byte), Plain(t)
  PROVE  AppendUint(Weigh(t)) = t
<1> DEFINE n == Len(t)
           W(i) == Weigh(Prefix(t, i))
           Good == {k \in Nat : k + 1 <= n =>
                      /\ AppendUint(W(k + 1)) = Prefix(t, k + 1)
                      /\ n > 1 => W(k + 1) >= 1}
<1>1. /\ n \in Nat /\ n >= 1 /\ \A i \in 1 .. n : t[i] \in Byte /\ IsDigit(t[i])
      /\ n = 1 \/ t[1] # Zero
  BY DEF Plain, OnlyDigits
<1>2. /\ W(0) = 0
      /\ \A i \in 0 .. n : W(i) \in Nat
      /\ \A i \in 0 .. n - 1 : W(i + 1) = 10 * W(i) + Digit(t[i + 1])
  BY WeighPrefix
<1>3. /\ Prefix(t, 0) = <<>> /\ Prefix(t, n) = t
      /\ \A i \in 0 .. n - 1 : Prefix(t, i + 1) = Append(Prefix(t, i), t[i + 1])
  BY PrefixFacts
<1> HIDE DEF W, n
<1>4. \A k \in Nat : k \in Good
  <2>1. 0 \in Good
    <3> DEFINE d == Digit(t[1])
    <3>1. d \in 0 .. 9 /\ t[1] = Zero + d
      <4>1. t[1] \in Byte /\ IsDigit(t[1])
        BY <1>1
      <4> QED
        BY <4>1, DigitByte
    <3>2. W(1) = d /\ Prefix(t, 1) = <<t[1]>>
      <4>1. 0 \in 0 .. n - 1
        BY <1>1
      <4>2. W(0 + 1) = 10 * W(0) + Digit(t[0 + 1])
        BY <1>2, <4>1
      <4>3. Prefix(t, 0 + 1) = Append(<<>>, t[0 + 1])
        BY <1>3, <4>1
      <4>4. Append(<<>>, t[1]) = <<t[1]>>
        OBVIOUS
      <4> QED
        BY <1>2, <3>1, <4>2, <4>3, <4>4
    <3>3. n > 1 => d >= 1
      BY <1>1, <3>1 DEF Zero
    <3> HIDE DEF d
    <3>4. AppendUint(d) = <<Zero + d>>
      BY <3>1, AppendUintFacts, Zenon
    <3> QED
      BY <3>1, <3>2, <3>3, <3>4
  <2>2. ASSUME NEW k \in Nat, k \in Good
        PROVE  k + 1 \in Good
    <3> SUFFICES ASSUME (k + 1) + 1 <= n
                 PROVE  /\ AppendUint(W((k + 1) + 1)) = Prefix(t, (k + 1) + 1)
                        /\ W((k + 1) + 1) >= 1
      BY <1>1
    <3> DEFINE i == k + 1
               x == W(i)
               d == Digit(t[i + 1])
    <3>1. i \in 0 .. n - 1 /\ i + 1 \in 1 .. n /\ i \in 0 .. n /\ n > 1
      BY <1>1
    <3>2. AppendUint(x) = Prefix(t, i) /\ x \in Nat /\ x >= 1
      BY <1>1, <1>2, <2>2, <3>1
    <3>3. d \in 0 .. 9 /\ t[i + 1] = Zero + d
      BY <1>1, <3>1, DigitByte
    <3>4. W(i + 1) = 10 * x + d /\ Prefix(t, i + 1) = Append(Prefix(t, i), t[i + 1])
      BY <1>2, <1>3, <3>1
    <3> HIDE DEF i, x, d
    <3>5. (10 * x + d) \div 10 = x /\ (10 * x + d) % 10 = d
      BY <3>2, <3>3, LastDigitUnique
    <3>6. 10 * x + d \in Nat /\ 10 * x + d >= 10
      BY <3>2, <3>3
    <3>7. AppendUint(10 * x + d)
            = Append(AppendUint((10 * x + d) \div 10), Zero + ((10 * x + d) % 10))
      BY <3>6, AppendUintFacts, Zenon
    <3>8. AppendUint(10 * x + d) = Append(Prefix(t, i), t[i + 1])
      BY <3>2, <3>3, <3>5, <3>7
    <3>9. AppendUint(W(i + 1)) = Prefix(t, i + 1) /\ W(i + 1) >= 1
      BY <3>4, <3>6, <3>8
    <3> QED
      BY <3>9 DEF i
  <2> HIDE DEF Good
  <2> QED
    BY <2>1, <2>2, NatSetInduction
<1>5. AppendUint(W(n)) = Prefix(t, n)
  <2>1. n - 1 \in Good /\ (n - 1) + 1 = n
    BY <1>1, <1>4
  <2> QED
    BY <2>1
<1> QED
  BY <1>3, <1>5 DEF W

(* No more digits are printed than were parsed. *)
LEMMA UintPrintedLength ==
  ASSUME NEW t \in Seq(Byte), OnlyDigits(t)
  PROVE  AppendUint(Weigh(t)) \in Seq(Nat) /\ Len(AppendUint(Weigh(t))) <= Len(t)
<1> DEFINE n == Len(t)
           W(i) == Weigh(Prefix(t, i))
           Short(i) == AppendUint(W(i)) \in Seq(Nat) /\ Len(AppendUint(W(i))) <= i
           Good == {k \in Nat : k + 1 <= n => Short(k + 1)}
<1>1. n \in Nat /\ n >= 1 /\ \A i \in 1 .. n : t[i] \in Byte /\ IsDigit(t[i])
  BY DEF OnlyDigits
<1>2. /\ W(0) = 0
      /\ \A i \in 0 .. n : W(i) \in Nat
      /\ \A i \in 0 .. n - 1 : W(i + 1) = 10 * W(i) + Digit(t[i + 1])
  BY WeighPrefix
<1>3. Prefix(t, n) = t
  BY PrefixFacts
<1> HIDE DEF W, n
<1>4. \A d \in 0 .. 9 : AppendUint(d) \in Seq(Nat) /\ Len(AppendUint(d)) = 1
  <2> TAKE d \in 0 .. 9
  <2>1. AppendUint(d) = <<Zero + d>>
    BY AppendUintFacts, Zenon
  <2>2. Zero + d \in Nat
    BY DEF Zero
  <2> QED
    BY <2>1, <2>2
<1>5. ASSUME NEW i \in 0 .. n - 1, W(i) = 0 \/ Short(i)
      PROVE  Short(i + 1)
  <2> DEFINE x == W(i)
             d == Digit(t[i + 1])
  <2>1. x \in Nat /\ i + 1 \in 1 .. n
    BY <1>1, <1>2
  <2>2. d \in 0 .. 9
    BY <1>1, <2>1, DigitByte
  <2>3. W(i + 1) = 10 * x + d
    BY <1>2
  <2>4. x = 0 \/ Short(i)
    BY <1>5
  <2> HIDE DEF x, d
  <2>5. CASE x = 0
    <3>1. W(i + 1) = d
      BY <2>2, <2>3, <2>5
    <3>2. AppendUint(d) \in Seq(Nat) /\ Len(AppendUint(d)) = 1
      BY <1>4, <2>2
    <3>3. AppendUint(W(i + 1)) \in Seq(Nat) /\ Len(AppendUint(W(i + 1))) = 1
      BY <3>1, <3>2
    <3>4. 1 <= i + 1
      OBVIOUS
    <3> QED
      BY <3>3, <3>4
  <2>6. CASE x # 0
    <3>1. (10 * x + d) \div 10 = x /\ (10 * x + d) % 10 = d
      BY <2>1, <2>2, LastDigitUnique
    <3>2. 10 * x + d \in Nat /\ 10 * x + d >= 10
      BY <2>1, <2>2, <2>6
    <3>3. AppendUint(10 * x + d)
            = Append(AppendUint((10 * x + d) \div 10), Zero + ((10 * x + d) % 10))
      BY <3>2, AppendUintFacts, Zenon
    <3>4. AppendUint(W(i + 1)) = Append(AppendUint(x), Zero + d)
      BY <2>3, <3>1, <3>3
    <3>5. AppendUint(x) \in Seq(Nat) /\ Len(AppendUint(x)) <= i /\ Zero + d \in Nat
      BY <2>2, <2>4, <2>6 DEF x, Zero
    <3> QED
      BY <2>1, <3>4, <3>5
  <2> QED
    BY <2>5, <2>6
<1>6. \A k \in Nat : k \in Good
  <2>1. 0 \in Good
    <3>1. 0 \in 0 .. n - 1 /\ 0 + 1 = 1
      BY <1>1
    <3> HIDE DEF Short
    <3>2. Short(0 + 1)
      BY <1>2, <1>5, <3>1
    <3> QED
      BY <3>2
  <2>2. ASSUME NEW k \in Nat, k \in Good
        PROVE  k + 1 \in Good
    <3> SUFFICES ASSUME (k + 1) + 1 <= n PROVE Short((k + 1) + 1)
      OBVIOUS
    <3>1. k + 1 \in 0 .. n - 1 /\ k + 1 <= n
      BY <1>1
    <3> HIDE DEF Short
    <3>2. Short(k + 1)
      BY <2>2, <3>1
    <3> QED
      BY <1>5, <3>1, <3>2
  <2> HIDE DEF Good
  <2> QED
    BY <2>1, <2>2, NatSetInduction
<1>7. Short(n)
  <2>1. n - 1 \in Nat /\ (n - 1) + 1 = n /\ n <= n
    BY <1>1
  <2> HIDE DEF Short
  <2> QED
    BY <1>6, <2>1
<1> QED
  BY <1>3, <1>7 DEF W, n

(* The text of a price has its digits around the dot, or is they. *)
LEMMA AroundTheDot ==
  ASSUME NEW t \in Seq(Byte), t # <<>>
  PROVE  LET n == Len(Whole(t))
             u == SidesOf(t)
         IN  IF n = Len(t) THEN u = t
             ELSE t = SubSeq(u, 1, n) \o <<Dot>> \o SubSeq(u, n + 1, Len(u))
<1> DEFINE n == Len(Whole(t))
           m == Len(Fraction(t))
           u == SidesOf(t)
           a == SubSeq(u, 1, n)
           b == SubSeq(u, n + 1, Len(u))
           s == a \o <<Dot>> \o b
<1>1. /\ n \in Nat /\ m \in Nat /\ Len(t) \in Nat /\ n <= Len(t)
      /\ (n = Len(t) /\ m = 0) \/ (n < Len(t) /\ m = Len(t) - n - 1 /\ t[n + 1] = Dot)
  BY SidesFacts
<1>2. /\ Len(u) = n + m /\ u \in Seq(Byte)
      /\ \A i \in 1 .. n : u[i] = t[i]
      /\ \A i \in 1 .. m : u[n + i] = t[n + 1 + i]
  BY SidesPlaces
<1>3. \A i \in 1 .. n + m : u[i] \in Byte
  <2>1. \A i \in 1 .. Len(u) : u[i] \in Byte
    BY <1>2
  <2> HIDE DEF u, n, m
  <2> QED
    BY <1>2, <2>1
<1> HIDE DEF n, m, u
<1>4. CASE n = Len(t)
  <2>1. Len(u) = Len(t) /\ \A i \in 1 .. Len(t) : u[i] = t[i]
    BY <1>1, <1>2, <1>4
  <2>2. u = t
    BY <1>2, <2>1, SeqEqual
  <2> QED
    BY <1>4, <2>2 DEF n, u
<1>5. CASE n # Len(t)
  <2>1. m = Len(t) - n - 1 /\ t[n + 1] = Dot
    BY <1>1, <1>5
  <2>2. a \in Seq(Byte) /\ Len(a) = n /\ \A i \in 1 .. n : a[i] = t[i]
    <3>1. \A i \in 1 .. n : u[i] \in Byte
      BY <1>1, <1>3
    <3>2. /\ a \in Seq(Byte) /\ Len(a) = IF 1 <= n THEN n - 1 + 1 ELSE 0
          /\ \A i \in 1 .. n - 1 + 1 : a[i] = u[1 + i - 1]
      BY <1>1, <3>1, SubSeqProperties
    <3> HIDE DEF a
    <3>3. n - 1 + 1 = n /\ \A i \in 1 .. n : 1 + i - 1 = i
      BY <1>1
    <3> QED
      BY <1>1, <1>2, <3>2, <3>3
  <2>3. b \in Seq(Byte) /\ Len(b) = m /\ \A i \in 1 .. m : b[i] = t[n + 1 + i]
    <3>1. n + 1 \in Int /\ Len(u) \in Int /\ \A i \in n + 1 .. Len(u) : u[i] \in Byte
      BY <1>1, <1>2, <1>3
    <3>2. /\ b \in Seq(Byte) /\ Len(b) = IF n + 1 <= Len(u) THEN Len(u) - (n + 1) + 1 ELSE 0
          /\ \A i \in 1 .. Len(u) - (n + 1) + 1 : b[i] = u[(n + 1) + i - 1]
      BY <3>1, SubSeqProperties
    <3> HIDE DEF b
    <3>3. Len(u) - (n + 1) + 1 = m /\ \A i \in 1 .. m : (n + 1) + i - 1 = n + i
      BY <1>1, <1>2
    <3>4. Len(b) = m
      BY <1>1, <1>2, <3>2
    <3> QED
      BY <1>2, <3>2, <3>3, <3>4
  <2> HIDE DEF a, b
  <2>4. <<Dot>> \in Seq(Byte) /\ Len(<<Dot>>) = 1 /\ <<Dot>>[1] = Dot
    BY DEF Dot, Byte
  <2> DEFINE c == <<Dot>>
             ac == a \o c
  <2>5. /\ ac \in Seq(Byte) /\ Len(ac) = n + 1
        /\ \A i \in 1 .. n + 1 : ac[i] = t[i]
    <3> HIDE DEF c
    <3>1. /\ ac \in Seq(Byte) /\ Len(ac) = Len(a) + Len(c)
          /\ \A i \in 1 .. Len(a) + Len(c) : ac[i] = IF i <= Len(a) THEN a[i] ELSE c[i - Len(a)]
      BY <2>2, <2>4, ConcatProperties DEF c
    <3> HIDE DEF ac
    <3>2. Len(c) = 1 /\ c[1] = Dot
      BY <2>4 DEF c
    <3>3. \A i \in 1 .. n + 1 : ac[i] = IF i <= n THEN a[i] ELSE c[i - n]
      BY <1>1, <2>2, <3>1, <3>2
    <3>4. ASSUME NEW i \in 1 .. n + 1
          PROVE  ac[i] = t[i]
      <4>1. CASE i <= n
        BY <1>1, <2>2, <3>3, <4>1
      <4>2. CASE ~(i <= n)
        <5>1. i = n + 1 /\ i - n = 1
          BY <1>1, <4>2
        <5> QED
          BY <2>1, <3>2, <3>3, <4>2, <5>1
      <4> QED
        BY <4>1, <4>2
    <3> QED
      BY <1>1, <2>2, <3>1, <3>2, <3>4
  <2>6. s = ac \o b
    OBVIOUS
  <2> HIDE DEF ac, c, s
  <2>7. /\ s \in Seq(Byte) /\ Len(s) = Len(ac) + Len(b)
        /\ \A i \in 1 .. Len(ac) + Len(b) : s[i] = IF i <= Len(ac) THEN ac[i] ELSE b[i - Len(ac)]
    BY <2>3, <2>5, <2>6, ConcatProperties
  <2>8. Len(s) = Len(t) /\ \A i \in 1 .. Len(t) : s[i] = IF i <= n + 1 THEN ac[i] ELSE b[i - (n + 1)]
    <3>1. Len(ac) = n + 1 /\ Len(ac) + Len(b) = Len(t)
      BY <1>1, <2>1, <2>3, <2>5
    <3> QED
      BY <2>7, <3>1
  <2>9. ASSUME NEW i \in 1 .. Len(t)
        PROVE  s[i] = t[i]
    <3>1. CASE i <= n + 1
      BY <1>1, <2>5, <2>8, <3>1
    <3>2. CASE ~(i <= n + 1)
      <4> DEFINE j == i - (n + 1)
      <4>1. j \in 1 .. m /\ n + 1 + j = i
        BY <1>1, <2>1, <3>2
      <4>2. s[i] = b[j]
        BY <2>8, <3>2
      <4> HIDE DEF j
      <4> QED
        BY <2>3, <4>1, <4>2
    <3> QED
      BY <3>1, <3>2
  <2>10. s = t
    BY <2>7, <2>8, <2>9, SeqEqual
  <2> QED
    BY <1>5, <2>10 DEF s, a, b, n, u
<1> QED
  BY <1>4, <1>5

(* A whole price: the text is followed by a dot and two zeros. *)
LEMMA WholePrinted ==
  ASSUME NEW t \in Seq(Byte), \A i \in DOMAIN t : IsDigit(t[i])
  PROVE  LET sent == t \o <<Dot, Zero, Zero>>
         IN  Whole(sent) = t /\ Fraction(sent) = <<Zero, Zero>>
<1> DEFINE tail == <<Dot, Zero, Zero>>
           s == t \o tail
           N == Len(t)
           n == Len(Whole(s))
           m == Len(Fraction(s))
<1>1. tail \in Seq(Byte) /\ Len(tail) = 3 /\ tail[1] = Dot /\ tail[2] = Zero /\ tail[3] = Zero
  BY DEF Dot, Zero, Byte
<1>2. N \in Nat /\ \A i \in 1 .. N : IsDigit(t[i])
  OBVIOUS
<1> HIDE DEF tail
<1>3. /\ s \in Seq(Byte) /\ Len(s) = N + 3
      /\ \A i \in 1 .. N + 3 : s[i] = IF i <= N THEN t[i] ELSE tail[i - N]
  <2>1. /\ s \in Seq(Byte) /\ Len(s) = Len(t) + Len(tail)
        /\ \A i \in 1 .. Len(t) + Len(tail) :
             s[i] = IF i <= Len(t) THEN t[i] ELSE tail[i - Len(t)]
    BY <1>1, ConcatProperties
  <2> HIDE DEF s
  <2>2. Len(t) = N /\ Len(tail) = 3
    BY <1>1
  <2> HIDE DEF N
  <2> QED
    BY <2>1, <2>2
<1> HIDE DEF s, N
<1>4. /\ \A i \in 1 .. N : s[i] = t[i] /\ s[i] # Dot
      /\ s[N + 1] = Dot /\ s[N + 2] = Zero /\ s[N + 3] = Zero
  <2>1. \A i \in 1 .. N : s[i] = t[i]
    BY <1>2, <1>3
  <2>2. \A i \in 1 .. N : s[i] # Dot
    BY <1>2, <2>1, DotIsNoDigit
  <2>3. /\ N + 1 \in 1 .. N + 3 /\ ~(N + 1 <= N) /\ (N + 1) - N = 1
        /\ N + 2 \in 1 .. N + 3 /\ ~(N + 2 <= N) /\ (N + 2) - N = 2
        /\ N + 3 \in 1 .. N + 3 /\ ~(N + 3 <= N) /\ (N + 3) - N = 3
    BY <1>2
  <2>4. s[N + 1] = Dot
    BY <1>1, <1>3, <2>3
  <2>5. s[N + 2] = Zero
    BY <1>1, <1>3, <2>3
  <2>6. s[N + 3] = Zero
    BY <1>1, <1>3, <2>3
  <2> QED
    BY <2>1, <2>2, <2>4, <2>5, <2>6
<1>5. /\ n \in 0 .. Len(s) /\ m \in Nat
      /\ Whole(s) \in Seq(Byte) /\ Fraction(s) \in Seq(Byte)
      /\ \A i \in 1 .. n : Whole(s)[i] = s[i] /\ s[i] # Dot
      /\ \A i \in 1 .. m : Fraction(s)[i] = s[n + 1 + i]
      /\ \/ n = Len(s) /\ m = 0
         \/ n < Len(s) /\ m = Len(s) - n - 1 /\ s[n + 1] = Dot
  BY <1>3, SidesFacts
<1>6. n = N /\ m = 2
  <2> HIDE DEF n, m
  <2>1. ~(n >= N + 1)
    <3>1. n >= N + 1 => N + 1 \in 1 .. n
      BY <1>2, <1>5
    <3> QED
      BY <1>4, <1>5, <3>1
  <2>2. ~(n < N)
    <3>1. n < N => n + 1 \in 1 .. N /\ n # Len(s)
      BY <1>2, <1>3, <1>5
    <3> QED
      BY <1>4, <1>5, <3>1
  <2>3. n \in Nat
    BY <1>3, <1>5
  <2>4. n = N
    BY <1>2, <2>1, <2>2, <2>3
  <2> QED
    BY <1>2, <1>3, <1>5, <2>4
<1>7. Whole(s) = t
  <2>1. \A i \in 1 .. N : Whole(s)[i] = t[i]
    BY <1>4, <1>5, <1>6
  <2>2. Len(Whole(s)) = Len(t) /\ Len(t) = N
    BY <1>6 DEF N
  <2> QED
    BY <1>5, <2>1, <2>2, SeqEqual
<1>8. Fraction(s) = <<Zero, Zero>>
  <2> DEFINE z == <<Zero, Zero>>
  <2>1. z \in Seq(Byte) /\ Len(z) = 2 /\ z[1] = Zero /\ z[2] = Zero
    BY DEF Zero, Byte
  <2> HIDE DEF z
  <2>2. Fraction(s)[1] = Zero /\ Fraction(s)[2] = Zero
    <3>1. 1 \in 1 .. m /\ 2 \in 1 .. m /\ n + 1 + 1 = N + 2 /\ n + 1 + 2 = N + 3
      BY <1>2, <1>6
    <3> HIDE DEF m, n
    <3> QED
      BY <1>4, <1>5, <3>1
  <2>3. \A i \in 1 .. 2 : i = 1 \/ i = 2
    OBVIOUS
  <2>4. \A i \in 1 .. Len(z) : Fraction(s)[i] = z[i]
    BY <2>1, <2>2, <2>3
  <2>5. Fraction(s) = z
    BY <1>5, <1>6, <2>1, <2>4, SeqEqual
  <2> QED
    BY <2>5 DEF z
<1> QED
  BY <1>7, <1>8 DEF s, tail

(* What is printed of a price that fits, once it was parsed. *)
LEMMA PriceOfDigits ==
  ASSUME NEW t \in Seq(Byte), IsPrice(t), Fits(t)
  PROVE  LET r == ParseDecimal(t)
             sent == PriceText(r.coef, r.exp)
         IN  IF Fraction(t) = <<>>
               THEN Whole(sent) = t /\ Fraction(sent) = <<Zero, Zero>>
               ELSE IF Len(Whole(t)) >= 2
                 THEN sent = t
                 ELSE sent = AppendUint(r.coef)
<1> DEFINE w == Whole(t)
           f == Fraction(t)
           n == Len(w)
           m == Len(f)
           u == SidesOf(t)
           r == ParseDecimal(t)
           sent == PriceText(r.coef, r.exp)
           A == AppendUint(Weigh(u))
<1>1. OnlyDigits(w) /\ (n = 1 \/ w[1] # Zero) /\ (Len(t) = n \/ OnlyDigits(f))
  BY DEF IsPrice, Plain
<1>2. /\ n \in Nat /\ m \in Nat /\ Len(t) \in Nat /\ n <= Len(t)
      /\ w \in Seq(Byte) /\ f \in Seq(Byte)
      /\ (n = Len(t) /\ m = 0) \/ (n < Len(t) /\ m = Len(t) - n - 1 /\ t[n + 1] = Dot)
      /\ \A i \in 1 .. n : w[i] = t[i]
  BY SidesFacts
<1>3. /\ Len(u) = n + m /\ u \in Seq(Byte)
      /\ \A i \in 1 .. n : u[i] = t[i]
  BY SidesPlaces
<1>4. f = <<>> \/ OnlyDigits(f)
  <2>1. Len(t) = n => m = 0
    BY <1>2
  <2>2. m = 0 => f = <<>>
    <3> HIDE DEF f
    <3> QED
      BY <1>2
  <2> QED
    BY <1>1, <2>1, <2>2
<1>5. t # <<>> /\ Decimal(t)
  BY <1>1, <1>4, DecimalOfSides
<1>6. r = [coef |-> Weigh(u), exp |-> -m, err |-> "none"] /\ Weigh(u) \in Nat
  <2> DEFINE v == Weigh(u)
  <2>1. v \in Nat
    <3>1. 0 \in Byte
      BY DEF Byte
    <3> HIDE DEF u
    <3> QED
      BY <1>3, <3>1, WeighAppend
  <2>2. v < Half
    BY DEF Fits, SidesOf
  <2> HIDE DEF v
  <2>3. v \in 0 .. Half - 1
    BY <2>1, <2>2, HalfAssumption
  <2>4. Unsigned(v) = v
    BY <2>3, FitsUnchanged
  <2>5. r = [coef |-> Unsigned(v), exp |-> -m, err |-> "none"]
    BY <1>5, DecimalValue DEF v
  <2> QED
    BY <2>1, <2>4, <2>5 DEF v
<1>7. n >= 1
  <2> HIDE DEF w
  <2> QED
    BY <1>1, <1>2 DEF OnlyDigits
<1>8. OnlyDigits(u)
  <2>1. Len(u) # 0
    BY <1>2, <1>3, <1>7
  <2> HIDE DEF u
  <2>2. u # <<>>
    BY <2>1
  <2> QED
    BY <1>5, <2>2 DEF OnlyDigits, Decimal, u
<1>9. r.coef = Weigh(u) /\ r.exp = -m
  BY <1>6
<1>10. sent = AppendDecimal(Weigh(u), -m) \o (IF -m = 0 THEN <<Dot, Zero, Zero>> ELSE <<>>)
  BY <1>9 DEF PriceText
<1>11. AppendDecimal(Weigh(u), -m)
         = IF DotFits(Len(A), -m)
             THEN SubSeq(A, 1, Len(A) + -m) \o <<Dot>> \o SubSeq(A, Len(A) + -m + 1, Len(A))
           ELSE IF -m > 0 THEN Append(A, Zero)
           ELSE A
  BY DEF AppendDecimal
<1>12. ~(-m > 0) /\ (-m = 0 <=> m = 0)
  BY <1>2
<1>13. m = 0 <=> f = <<>>
  <2> HIDE DEF f
  <2> QED
    BY <1>2
<1>14. IF n = Len(t) THEN u = t
       ELSE t = SubSeq(u, 1, n) \o <<Dot>> \o SubSeq(u, n + 1, Len(u))
  BY <1>5, AroundTheDot
<1>15. n >= 2 => Plain(u)
  <2>1. n >= 2 => 1 \in 1 .. n
    BY <1>2
  <2>2. n >= 2 => u[1] # Zero
    BY <1>1, <1>2, <1>3, <2>1
  <2> QED
    BY <1>8, <2>2 DEF Plain
<1> HIDE DEF sent, r, w, f, n, m, u
<1>16. ASSUME Plain(u)
       PROVE  A = u
  BY <1>3, <1>16, UintPrinted
<1>17. A \in Seq(Nat) /\ Len(A) <= n + m
  BY <1>3, <1>8, UintPrintedLength
<1> HIDE DEF A
<1>18. CASE m = 0
  <2>1. n = Len(t) /\ u = t
    <3>1. n = Len(t)
      <4>1. n < Len(t) => f # <<>>
        <5>1. ~OnlyDigits(<<>>)
          BY DEF OnlyDigits
        <5> QED
          BY <1>1, <1>2, <5>1
      <4> QED
        BY <1>2, <1>13, <1>18, <4>1
    <3> QED
      BY <1>14, <3>1
  <2>2. Plain(u)
    <3>1. Len(u) = n /\ u[1] = w[1]
      <4>1. 1 \in 1 .. n
        BY <1>2, <1>7
      <4> QED
        BY <1>2, <1>3, <1>18, <4>1
    <3> QED
      BY <1>1, <1>8, <3>1 DEF Plain
  <2>3. A = t
    BY <1>16, <2>1, <2>2
  <2>4. ~DotFits(Len(A), -m)
    BY <1>18 DEF DotFits
  <2>5. sent = t \o <<Dot, Zero, Zero>>
    BY <1>10, <1>11, <1>12, <1>18, <2>3, <2>4, Zenon
  <2>6. \A i \in DOMAIN t : IsDigit(t[i])
    BY <1>8, <2>1 DEF OnlyDigits
  <2>7. Whole(sent) = t /\ Fraction(sent) = <<Zero, Zero>>
    BY <2>5, <2>6, WholePrinted
  <2> QED
    BY <1>13, <1>18, <2>7 DEF f, sent, r
<1>19. ASSUME NEW s \in Seq(Nat), m # 0, AppendDecimal(Weigh(u), -m) = s
       PROVE  sent = s
  <2>1. s \o <<>> = s
    BY ConcatEmptySeq
  <2>2. -m # 0
    BY <1>12, <1>19
  <2> QED
    BY <1>10, <1>19, <2>1, <2>2
<1>20. CASE m # 0 /\ n >= 2
  <2>1. A = u
    BY <1>15, <1>16, <1>20
  <2>2. DotFits(Len(A), -m)
    <3>1. Len(A) = n + m
      BY <1>3, <2>1
    <3> QED
      BY <1>2, <1>20, <3>1 DEF DotFits
  <2>3. Len(A) + -m = n
    <3>1. Len(A) = n + m
      BY <1>3, <2>1
    <3> QED
      BY <1>2, <3>1
  <2>4. AppendDecimal(Weigh(u), -m) = SubSeq(u, 1, n) \o <<Dot>> \o SubSeq(u, n + 1, Len(u))
    BY <1>11, <2>1, <2>2, <2>3, Zenon
  <2>5. AppendDecimal(Weigh(u), -m) = t
    <3>1. n # Len(t)
      BY <1>2, <1>20
    <3> QED
      BY <1>14, <2>4, <3>1, Zenon
  <2>6. t \in Seq(Nat)
    <3>1. \A b \in Byte : b \in Nat
      BY DEF Byte
    <3>2. \A i \in 1 .. Len(t) : t[i] \in Nat
      BY <3>1
    <3> QED
      BY <3>2
  <2>7. sent = t
    BY <1>19, <1>20, <2>5, <2>6
  <2> QED
    BY <1>13, <1>20, <2>7 DEF f, n, w, sent, r
<1>21. CASE m # 0 /\ ~(n >= 2)
  <2>1. ~DotFits(Len(A), -m)
    BY <1>2, <1>17, <1>21 DEF DotFits
  <2>2. AppendDecimal(Weigh(u), -m) = A
    BY <1>11, <1>12, <2>1, Zenon
  <2>3. sent = A
    BY <1>17, <1>19, <1>21, <2>2
  <2>4. sent = AppendUint(r.coef)
    BY <1>9, <2>3 DEF A
  <2> QED
    BY <1>13, <1>21, <2>4 DEF f, n, w, sent, r
<1> QED
  BY <1>18, <1>20, <1>21

------------------------------------------------------------------------------
(* The texts are texts of bytes. *)
THEOREM TextIsBytes == Spec => [](text \in Seq(Byte))
<1> DEFINE Bytes == text \in Seq(Byte)
<1>1. Init => Bytes
  BY DEF Init
<1>2. Bytes /\ [Next]_text => Bytes'
  <2> SUFFICES ASSUME Bytes, [Next]_text PROVE Bytes'
    OBVIOUS
  <2>1. Alphabet \subseteq Byte
    BY AlphabetAssumption DEF Byte
  <2>2. CASE Next
    <3>1. PICK byte \in Alphabet : text' = Append(text, byte)
      BY <2>2 DEF Next
    <3>2. byte \in Byte
      BY <2>1
    <3> HIDE DEF Byte
    <3> QED
      BY <3>1, <3>2
  <2> QED
    BY <2>2
<1> QED
  BY <1>1, <1>2, PTL DEF Spec

(* ParseUint returns an error or, of digits, the number they stand for, as *)
(* far as the integers reach; what fits them is no error.                  *)
THEOREM UintsAreParsed == Spec => []UintParsed
<1>1. text \in Seq(Byte) => UintParsed
  BY UintOfText
<1> QED
  BY <1>1, TextIsBytes, PTL

(* ParseDecimal returns the value of every price that fits.  *)
THEOREM PricesAreParsed == Spec => []PriceParsed
<1>1. text \in Seq(Byte) => PriceParsed
  BY PriceOfText
<1> QED
  BY <1>1, TextIsBytes, PTL

(* The price subscriber gets the price that was parsed: digit for digit    *)
(* from ten on, with two decimals more when it is whole, and without its   *)
(* dot below ten.                                                          *)
THEOREM PricesArePrinted == Spec => []PricePrinted
<1>1. ASSUME text \in Seq(Byte)
      PROVE  PricePrinted
  <2> SUFFICES ASSUME IsPrice(text), Fits(text)
               PROVE  LET r == ParseDecimal(text)
                          sent == PriceText(r.coef, r.exp)
                      IN  IF Fraction(text) = <<>>
                            THEN Whole(sent) = text /\ Fraction(sent) = <<Zero, Zero>>
                            ELSE IF Len(Whole(text)) >= 2
                              THEN sent = text
                              ELSE sent = AppendUint(r.coef)
    BY DEF PricePrinted
  <2> QED
    BY <1>1, PriceOfDigits
<1> QED
  BY <1>1, TextIsBytes, PTL
=============================================================================
