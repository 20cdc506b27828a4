----------------------------- MODULE NatLemmas ------------------------------
(* Facts about natural numbers that the proofs of several components use.  *)
EXTENDS Integers, WellFoundedInduction, TLAPS

(* Multiplication by a natural number keeps the order. *)
LEMMA TimesMonotone ==
  ASSUME NEW a \in Int, NEW b \in Int, NEW c \in Nat, a <= b
  PROVE  a * c <= b * c
<1>1. (b - a) * c >= 0
  BY SMT
<1>2. QED
  BY <1>1, SMT

(* Multiplication by a positive number keeps the strict order. *)
LEMMA TimesStrict ==
  ASSUME NEW a \in Int, NEW b \in Int, NEW c \in Nat \ {0}, a < b
  PROVE  a * c + c <= b * c
<1>1. (a + 1) * c <= b * c
  BY TimesMonotone
<1>2. (a + 1) * c = a * c + c
  OBVIOUS
<1>3. QED
  BY <1>1, <1>2

(* Rows of c cells follow each other. *)
LEMMA RowsFit ==
  ASSUME NEW r \in Nat, NEW s \in Nat, NEW c \in Nat, r < s
  PROVE  r * c \in Nat /\ r * c + c <= s * c /\ s * c = c * s /\ s * c \in Nat
<1>1. (r + 1) * c <= s * c
  BY TimesMonotone
<1>2. (r + 1) * c = r * c + c /\ s * c = c * s /\ r * c \in Nat /\ s * c \in Nat
  OBVIOUS
<1>3. QED
  BY <1>1, <1>2

(* The quotient and the remainder of a division. *)
LEMMA DivideBounds ==
  ASSUME NEW a \in Nat, NEW c \in Nat \ {0}
  PROVE  a \div c \in Nat /\ (a \div c) * c <= a /\ a < (a \div c) * c + c
BY SMT

(* A number is its quotient times the divisor plus its remainder.         *)
LEMMA RemainderIs ==
  ASSUME NEW a \in Nat, NEW c \in Nat \ {0}
  PROVE  a % c \in 0 .. c - 1 /\ a = (a \div c) * c + (a % c)
OBVIOUS

(* A quotient and a remainder determine the number, and it determines      *)
(* them.                                                                   *)
LEMMA QuotientRemainder ==
  ASSUME NEW c \in Nat \ {0}, NEW r \in Int, NEW k \in 0 .. c - 1
  PROVE  (r * c + k) \div c = r /\ (r * c + k) % c = k
<1> DEFINE p == r * c + k
           q == p \div c
<1>1. r * c \in Int
  OBVIOUS
<1>2. p \in Int /\ q \in Int /\ q * c <= p /\ p < q * c + c /\ p = q * c + (p % c)
  BY <1>1, SMT
<1> HIDE DEF q
<1>3. q = r
  <2>1. CASE q < r
    BY <1>1, <1>2, <2>1, TimesStrict
  <2>2. CASE r < q
    BY <1>1, <1>2, <2>2, TimesStrict
  <2>3. QED
    BY <1>2, <2>1, <2>2
<1>4. p % c = k
  BY <1>1, <1>2, <1>3
<1>5. QED
  BY <1>3, <1>4 DEF q

(* The frame number is recovered from the byte offset of a frame. *)
LEMMA DivideOffset ==
  ASSUME NEW k \in Nat, NEW c \in Nat \ {0}
  PROVE  (k * c) \div c = k
<1> DEFINE q == (k * c) \div c
<1>1. k * c \in Nat
  OBVIOUS
<1>2. q \in Int /\ q * c <= k * c /\ k * c < q * c + c
  BY <1>1, SMT
<1>3. CASE q < k
  BY <1>2, <1>3, TimesStrict
<1>4. CASE k < q
  BY <1>2, <1>4, TimesStrict
<1>5. QED
  BY <1>2, <1>3, <1>4

(* Two divisions are one. *)
LEMMA DivideTwice ==
  ASSUME NEW s \in Nat, NEW p \in Nat \ {0}, NEW c \in Nat \ {0}
  PROVE  (s \div p) \div c = s \div (c * p)
<1>1. PICK a \in Nat : a = s \div p /\ a * p <= s /\ s < a * p + p
  BY DivideBounds
<1>2. PICK b \in Nat : b = a \div c /\ b * c <= a /\ a < b * c + c
  BY DivideBounds
<1>3. PICK d \in Nat \ {0} : d = c * p
  OBVIOUS
<1>4. PICK j \in 0 .. c - 1 : a = b * c + j
  <2>1. b * c \in Nat
    OBVIOUS
  <2>2. a - b * c \in 0 .. c - 1
    BY <1>2, <2>1
  <2>3. QED
    BY <2>1, <2>2
<1>5. a * p \in Nat /\ j * p \in Nat /\ b * d \in Nat
  OBVIOUS
<1>6. a * p = b * d + j * p
  <2>1. (b * c + j) * p = b * (c * p) + j * p
    BY SMTT(30)
  <2>2. QED
    BY <1>3, <1>4, <2>1
<1>7. j * p + p <= d
  <2>1. (j + 1) * p <= c * p
    BY TimesMonotone
  <2>2. (j + 1) * p = j * p + p
    BY SMT
  <2>3. QED
    BY <1>3, <2>1, <2>2
<1>8. PICK k \in 0 .. d - 1 : s = b * d + k
  <2>1. s - b * d \in 0 .. d - 1
    BY <1>1, <1>5, <1>6, <1>7
  <2>2. QED
    BY <1>5, <2>1
<1>9. s \div d = b
  BY <1>8, QuotientRemainder
<1>10. QED
  BY <1>1, <1>2, <1>3, <1>9

(* A nonempty set of natural numbers has a least element. *)
LEMMA LeastNatural ==
  ASSUME NEW S \in SUBSET Nat, S # {}
  PROVE  \E x \in S : \A y \in S : x <= y
<1> DEFINE Less == {p \in Nat \X Nat : p[1] < p[2]}
<1>1. IsWellFoundedOn(Less, Nat)
  BY NatLessThanWellFounded, Zenon DEF OpToRel
<1>2. \E x \in S : \A y \in S : <<y, x>> \notin Less
  BY <1>1, WFMin, Zenon
<1>3. \A x, y \in Nat : <<y, x>> \notin Less => x <= y
  OBVIOUS
<1> HIDE DEF Less
<1>4. QED
  BY <1>2, <1>3

(* Induction: a set of natural numbers with 0 and every successor.         *)
LEMMA Induction ==
  ASSUME NEW S, 0 \in S, \A n \in Nat : n \in S => n + 1 \in S
  PROVE  \A n \in Nat : n \in S
<1> DEFINE Bad == {n \in Nat : n \notin S}
<1> SUFFICES ASSUME Bad # {} PROVE FALSE
  OBVIOUS
<1>1. PICK n \in Bad : \A m \in Bad : n <= m
  BY LeastNatural
<1>2. n # 0 /\ n \in Nat
  BY <1>1
<1>3. n - 1 \in Nat /\ n - 1 \notin Bad
  BY <1>1, <1>2
<1>4. (n - 1) + 1 \in S
  BY <1>3
<1>5. QED
  BY <1>1, <1>2, <1>4

(* A function defined by recursion over the natural numbers ...            *)
Unrolls(f, V, base, step) ==
  f \in [Nat -> V] /\ f[0] = base /\ \A n \in Nat : f[n + 1] = step[<<n, f[n]>>]

(* ... exists.                                                             *)
LEMMA Recursion ==
  ASSUME NEW V, NEW base \in V, NEW step \in [Nat \X V -> V]
  PROVE  \E f : Unrolls(f, V, base, step)
<1> DEFINE Upto(n, f) ==
             /\ f \in [0 .. n -> V] /\ f[0] = base
             /\ \A k \in 0 .. n - 1 : f[k + 1] = step[<<k, f[k]>>]
           S == {n \in Nat : \E f : Upto(n, f)}
           Part(n) == CHOOSE f : Upto(n, f)
           Same == {k \in Nat : \A m, n \in Nat : \A f, g :
                      k <= m /\ k <= n /\ Upto(m, f) /\ Upto(n, g) => f[k] = g[k]}
<1>1. 0 \in S
  <2>1. Upto(0, [k \in 0 .. 0 |-> base])
    OBVIOUS
  <2>2. QED
    BY <2>1
<1>2. ASSUME NEW n \in Nat, n \in S
      PROVE  n + 1 \in S
  <2>1. PICK f : Upto(n, f)
    BY <1>2
  <2> DEFINE g == [k \in 0 .. n + 1 |-> IF k <= n THEN f[k] ELSE step[<<n, f[n]>>]]
  <2>2. f[n] \in V /\ step[<<n, f[n]>>] \in V
    BY <2>1
  <2>3. g \in [0 .. n + 1 -> V] /\ g[0] = base
    BY <2>1, <2>2
  <2>4. ASSUME NEW k \in 0 .. (n + 1) - 1
        PROVE  g[k + 1] = step[<<k, g[k]>>]
    <3>1. CASE k = n
      BY <3>1
    <3>2. CASE k # n
      <4>1. k \in 0 .. n - 1 /\ g[k + 1] = f[k + 1] /\ g[k] = f[k]
        BY <3>2
      <4>2. QED
        BY <2>1, <4>1
    <3>3. QED
      BY <3>1, <3>2
  <2> HIDE DEF g
  <2>5. Upto(n + 1, g)
    BY <2>3, <2>4
  <2> HIDE DEF Upto
  <2>6. QED
    BY <2>5
<1>3. \A n \in Nat : Upto(n, Part(n))
  <2> HIDE DEF Upto
  <2>1. \A n \in Nat : n \in S
    <3> HIDE DEF S
    <3>1. QED
      BY <1>1, <1>2, Induction
  <2>2. QED
    BY <2>1
<1>4. \A n \in Nat : \A f : Upto(n, f) =>
        /\ f \in [0 .. n -> V] /\ f[0] = base
        /\ \A k \in 0 .. n - 1 : f[k + 1] = step[<<k, f[k]>>]
  OBVIOUS
<1> HIDE DEF Upto, Part
<1>5. \A k \in Nat : k \in Same
  <2>1. 0 \in Same
    BY <1>4
  <2>2. ASSUME NEW k \in Nat, k \in Same
        PROVE  k + 1 \in Same
    <3> SUFFICES ASSUME NEW m \in Nat, NEW n \in Nat, NEW f, NEW g, k + 1 <= m, k + 1 <= n,
                        Upto(m, f), Upto(n, g)
                 PROVE  f[k + 1] = g[k + 1]
      OBVIOUS
    <3>1. k <= m /\ k <= n /\ k \in 0 .. m - 1 /\ k \in 0 .. n - 1
      OBVIOUS
    <3>2. f[k] = g[k]
      BY <2>2, <3>1
    <3>3. f[k + 1] = step[<<k, f[k]>>] /\ g[k + 1] = step[<<k, g[k]>>]
      BY <1>4, <3>1
    <3>4. QED
      BY <3>2, <3>3
  <2> HIDE DEF Same
  <2>3. QED
    BY <2>1, <2>2, Induction
<1> DEFINE f == [n \in Nat |-> Part(n)[n]]
<1>6. f \in [Nat -> V] /\ f[0] = base
  <2>1. \A n \in Nat : Part(n) \in [0 .. n -> V] /\ n \in 0 .. n /\ Part(n)[0] = base
    BY <1>3, <1>4
  <2>2. QED
    BY <2>1
<1>7. ASSUME NEW n \in Nat
      PROVE  f[n + 1] = step[<<n, f[n]>>]
  <2>1. Upto(n, Part(n)) /\ Upto(n + 1, Part(n + 1)) /\ n + 1 \in Nat /\ n \in 0 .. (n + 1) - 1
    BY <1>3
  <2>2. Part(n + 1)[n + 1] = step[<<n, Part(n + 1)[n]>>]
    BY <1>4, <2>1
  <2>3. n \in Same /\ n <= n /\ n <= n + 1
    BY <1>5
  <2>4. Part(n + 1)[n] = Part(n)[n]
    BY <2>1, <2>3
  <2>5. f[n + 1] = Part(n + 1)[n + 1] /\ f[n] = Part(n)[n]
    BY <2>1
  <2>6. QED
    BY <2>2, <2>4, <2>5
<1> HIDE DEF f
<1>8. QED
  BY <1>6, <1>7 DEF Unrolls

(* The same over an interval.                                              *)
UnrollsFrom(f, a, b, V, base, step) ==
  /\ f \in [a .. b -> V]
  /\ \A n \in a .. b : f[n] = IF n = a THEN base ELSE step[<<n, f[n - 1]>>]

(* Such a function exists, too.                                            *)
LEMMA RecursionFrom ==
  ASSUME NEW a \in Nat, NEW b \in Nat, NEW V, NEW base \in V, NEW step \in [Nat \X V -> V]
  PROVE  \E f : UnrollsFrom(f, a, b, V, base, step)
<1>1. PICK later \in [Nat \X V -> V] :
        \A n \in Nat, v \in V : later[<<n, v>>] = step[<<n + a + 1, v>>]
  <2>1. [p \in Nat \X V |-> step[<<p[1] + a + 1, p[2]>>]] \in [Nat \X V -> V]
    OBVIOUS
  <2>2. QED
    BY <2>1
<1>2. \E g : Unrolls(g, V, base, later)
  BY Recursion
<1>3. PICK g \in [Nat -> V] : g[0] = base /\ \A n \in Nat : g[n + 1] = later[<<n, g[n]>>]
  BY <1>2 DEF Unrolls
<1> DEFINE f == [n \in a .. b |-> g[n - a]]
<1>4. ASSUME NEW n \in a .. b
      PROVE  f[n] = IF n = a THEN base ELSE step[<<n, f[n - 1]>>]
  <2>1. CASE n = a
    BY <1>3, <2>1
  <2>2. CASE n # a
    <3> DEFINE k == n - a - 1
    <3>1. k \in Nat /\ n - a = k + 1 /\ k + a + 1 = n /\ n - 1 \in a .. b /\ (n - 1) - a = k
      BY <2>2
    <3>2. f[n] = g[k + 1] /\ f[n - 1] = g[k]
      BY <3>1
    <3> HIDE DEF k
    <3>3. g[k + 1] = step[<<k + a + 1, g[k]>>]
      BY <1>1, <1>3, <3>1
    <3> HIDE DEF f
    <3>4. QED
      BY <2>2, <3>1, <3>2, <3>3
  <2>3. QED
    BY <2>1, <2>2
<1>5. f \in [a .. b -> V]
  OBVIOUS
<1> HIDE DEF f
<1>6. QED
  BY <1>4, <1>5 DEF UnrollsFrom

(* A function whose values grow from each number to the next.              *)
LEMMA Increasing ==
  ASSUME NEW N \in Nat, NEW f, \A n \in 1 .. N : f[n] \in Nat,
         \A n \in 1 .. N - 1 : f[n] < f[n + 1]
  PROVE  \A m, n \in 1 .. N : m < n => f[m] < f[n]
<1> DEFINE S == {d \in Nat : \A m \in 1 .. N : m + d + 1 <= N => f[m] < f[m + d + 1]}
<1>1. 0 \in S
  OBVIOUS
<1>2. ASSUME NEW d \in Nat, d \in S
      PROVE  d + 1 \in S
  <2> SUFFICES ASSUME NEW m \in 1 .. N, m + (d + 1) + 1 <= N
               PROVE  f[m] < f[m + (d + 1) + 1]
    OBVIOUS
  <2> DEFINE k == m + d + 1
  <2>1. k \in 1 .. N - 1 /\ k \in 1 .. N /\ k + 1 \in 1 .. N /\ m + (d + 1) + 1 = k + 1
    OBVIOUS
  <2>2. f[m] < f[k]
    BY <1>2, <2>1
  <2> HIDE DEF k
  <2>4. f[k] < f[k + 1] /\ f[m] \in Nat /\ f[k] \in Nat /\ f[k + 1] \in Nat
    BY <2>1
  <2>3. QED
    BY <2>1, <2>2, <2>4
<1>3. \A d \in Nat : d \in S
  <2> HIDE DEF S
  <2>1. QED
    BY <1>1, <1>2, Induction
<1>4. ASSUME NEW m \in 1 .. N, NEW n \in 1 .. N, m < n
      PROVE  f[m] < f[n]
  <2> DEFINE d == n - m - 1
  <2>1. d \in Nat /\ m + d + 1 = n
    BY <1>4
  <2>2. d \in S
    BY <1>3, <2>1
  <2> HIDE DEF d
  <2>3. QED
    BY <2>1, <2>2
<1>5. QED
  BY <1>4

=============================================================================
