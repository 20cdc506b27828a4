----------------------------- MODULE Log_proofs ------------------------------
(***************************************************************************)
(* Proofs about the output of LOG, for every sequence of calls, every      *)
(* exception between two steps and every pace of the transmitter, and      *)
(* about its numbers, for words of every width.                            *)
(***************************************************************************)
EXTENDS Log, NatLemmas, SequenceTheorems, TLAPS

(* The bases of the conversions. *)
Bases == {10, 16}

(* The numbers that are not more than n. *)
Upto(n) == {m \in Int : m <= n}

LastDigit(n, base) == Digit(Remainder(n, base))

(* The loop over the digits for the numbers in S. *)
DigitLoop(f, base, S) ==
  f = [n \in S |-> <<LastDigit(n, base)>>
                     \o (IF Quotient(n, base) > 0 THEN f[Quotient(n, base)] ELSE <<>>)]

-----------------------------------------------------------------------------
(* The conversions give characters and no return.                          *)

(* The quotient of a number is nearer to zero. *)
LEMMA QuotientSmaller ==
  ASSUME NEW n \in Int, NEW base \in Bases
  PROVE  /\ Quotient(n, base) \in Int
         /\ Quotient(n, base) > 0 => 0 < n /\ Quotient(n, base) < n
         /\ n >= 0 => Remainder(n, base) \in 0 .. base - 1
         /\ base = 10 => Remainder(n, base) \in -9 .. 9
<1>1. CASE base = 10
  BY <1>1 DEF Quotient, Remainder, Bases
<1>2. CASE base = 16
  BY <1>2 DEF Quotient, Remainder, Bases
<1>3. QED
  BY <1>1, <1>2 DEF Bases

(* The characters of remainders. *)
LEMMA DigitChar ==
  ASSUME NEW r \in -9 .. 15
  PROVE  Digit(r) \in Chars
BY TextAssumption

(* The loop ends: for the numbers up to a bound. *)
LEMMA LoopUpto ==
  ASSUME NEW base \in Bases, NEW bound \in Nat
  PROVE  \E f : DigitLoop(f, base, Upto(bound))
<1> DEFINE S == {n \in Nat : \E f : DigitLoop(f, base, Upto(n))}
<1>1. 0 \in S
  <2> DEFINE f == [n \in Upto(0) |-> <<LastDigit(n, base)>> \o <<>>]
  <2>1. \A n \in Upto(0) : ~ (Quotient(n, base) > 0)
    BY QuotientSmaller DEF Upto
  <2>2. DigitLoop(f, base, Upto(0))
    BY <2>1 DEF DigitLoop
  <2>3. QED
    BY <2>2
<1>2. ASSUME NEW n \in Nat, n \in S
      PROVE  n + 1 \in S
  <2>1. PICK f : DigitLoop(f, base, Upto(n))
    BY <1>2
  <2> DEFINE g == [m \in Upto(n + 1) |->
                     IF m <= n THEN f[m]
                     ELSE <<LastDigit(m, base)>>
                            \o (IF Quotient(m, base) > 0 THEN f[Quotient(m, base)] ELSE <<>>)]
  <2>2. ASSUME NEW m \in Upto(n + 1)
        PROVE  g[m] = <<LastDigit(m, base)>>
                        \o (IF Quotient(m, base) > 0 THEN g[Quotient(m, base)] ELSE <<>>)
    <3>1. /\ m \in Int /\ m <= n + 1 /\ Quotient(m, base) \in Int
          /\ Quotient(m, base) > 0 => Quotient(m, base) <= n
      BY QuotientSmaller DEF Upto
    <3>2. Quotient(m, base) > 0 => g[Quotient(m, base)] = f[Quotient(m, base)]
      BY <3>1 DEF Upto
    <3>3. CASE m <= n
      <4>1. f[m] = <<LastDigit(m, base)>>
                     \o (IF Quotient(m, base) > 0 THEN f[Quotient(m, base)] ELSE <<>>)
        BY <2>1, <3>1, <3>3 DEF DigitLoop, Upto
      <4>2. QED
        BY <3>1, <3>2, <3>3, <4>1
    <3>4. CASE ~ (m <= n)
      BY <3>1, <3>2, <3>4
    <3>5. QED
      BY <3>3, <3>4
  <2> HIDE DEF g
  <2>3. g = [m \in Upto(n + 1) |-> g[m]]
    BY DEF g
  <2>4. DigitLoop(g, base, Upto(n + 1))
    BY <2>2, <2>3, Zenon DEF DigitLoop
  <2>5. QED
    BY <2>4
<1>3. \A n \in Nat : n \in S
  <2> HIDE DEF S
  <2>1. QED
    BY <1>1, <1>2, Induction
<1>4. QED
  BY <1>3

(* The loop gives the same digits whatever the bound. *)
LEMMA LoopsAgree ==
  ASSUME NEW base \in Bases, NEW m \in Nat, NEW n \in Nat, m <= n, NEW f, NEW g,
         DigitLoop(f, base, Upto(m)), DigitLoop(g, base, Upto(n))
  PROVE  \A k \in Upto(m) : f[k] = g[k]
<1> SUFFICES ASSUME {k \in Nat : k <= m /\ f[k] # g[k]} # {} \/ \E k \in Upto(0) : f[k] # g[k]
             PROVE  FALSE
  BY DEF Upto
<1> DEFINE Bad == {k \in Nat : k <= m /\ f[k] # g[k]}
<1>1. ASSUME NEW k \in Upto(m)
      PROVE  /\ f[k] = <<LastDigit(k, base)>>
                         \o (IF Quotient(k, base) > 0 THEN f[Quotient(k, base)] ELSE <<>>)
             /\ g[k] = <<LastDigit(k, base)>>
                         \o (IF Quotient(k, base) > 0 THEN g[Quotient(k, base)] ELSE <<>>)
  <2>1. k \in Upto(m) /\ k \in Upto(n)
    BY DEF Upto
  <2>2. f[k] = <<LastDigit(k, base)>>
                 \o (IF Quotient(k, base) > 0 THEN f[Quotient(k, base)] ELSE <<>>)
    BY <2>1, Zenon DEF DigitLoop
  <2>3. g[k] = <<LastDigit(k, base)>>
                 \o (IF Quotient(k, base) > 0 THEN g[Quotient(k, base)] ELSE <<>>)
    BY <2>1, Zenon DEF DigitLoop
  <2>4. QED
    BY <2>2, <2>3
<1>2. ASSUME NEW k \in Upto(0)
      PROVE  f[k] = g[k]
  <2>1. ~ (Quotient(k, base) > 0) /\ k \in Upto(m)
    BY QuotientSmaller DEF Upto
  <2>2. QED
    BY <1>1, <2>1
<1>3. PICK k \in Bad : \A j \in Bad : k <= j
  BY <1>2, LeastNatural
<1>4. k \in Upto(m) /\ k \in Nat
  BY <1>3 DEF Upto
<1>5. CASE Quotient(k, base) > 0
  <2>1. Quotient(k, base) \in Nat /\ Quotient(k, base) < k
    BY <1>4, <1>5, QuotientSmaller
  <2>2. Quotient(k, base) \notin Bad /\ Quotient(k, base) <= m
    BY <1>3, <1>4, <2>1 DEF Upto
  <2>3. f[Quotient(k, base)] = g[Quotient(k, base)]
    BY <2>1, <2>2
  <2>4. QED
    BY <1>1, <1>3, <1>4, <2>3
<1>6. CASE ~ (Quotient(k, base) > 0)
  BY <1>1, <1>3, <1>4, <1>6
<1>7. QED
  BY <1>5, <1>6

(* The loop ends for every number. *)
LEMMA LoopEnds ==
  ASSUME NEW base \in Bases
  PROVE  \E f : DigitLoop(f, base, Int)
<1> DEFINE Bound(n) == IF n >= 0 THEN n ELSE 0
           Loop(n) == CHOOSE g : DigitLoop(g, base, Upto(n))
           f == [n \in Int |-> Loop(Bound(n))[n]]
<1>1. ASSUME NEW n \in Nat
      PROVE  DigitLoop(Loop(n), base, Upto(n))
  BY LoopUpto
<1> HIDE DEF Loop
<1>2. ASSUME NEW n \in Int
      PROVE  f[n] = <<LastDigit(n, base)>>
                      \o (IF Quotient(n, base) > 0 THEN f[Quotient(n, base)] ELSE <<>>)
  <2> DEFINE q == Quotient(n, base)
             b == Bound(n)
  <2>1. b \in Nat /\ n \in Upto(b) /\ f[n] = Loop(b)[n]
    BY DEF Upto
  <2>2. f[n] = <<LastDigit(n, base)>> \o (IF q > 0 THEN Loop(b)[q] ELSE <<>>)
    BY <1>1, <2>1 DEF DigitLoop
  <2>3. q > 0 => f[q] = Loop(b)[q]
    <3>1. SUFFICES ASSUME q > 0 PROVE f[q] = Loop(b)[q]
      OBVIOUS
    <3>2. q \in Nat /\ q <= b /\ q \in Upto(q) /\ f[q] = Loop(q)[q]
      BY <3>1, QuotientSmaller DEF Upto
    <3>3. DigitLoop(Loop(q), base, Upto(q)) /\ DigitLoop(Loop(b), base, Upto(b))
      BY <1>1, <2>1, <3>2
    <3>4. QED
      BY <2>1, <3>2, <3>3, LoopsAgree
  <2>4. QED
    BY <2>2, <2>3
<1> HIDE DEF f
<1>3. f = [n \in Int |-> f[n]]
  BY DEF f
<1>4. DigitLoop(f, base, Int)
  BY <1>2, <1>3, Zenon DEF DigitLoop
<1>5. QED
  BY <1>4

(* The digits of a number: the last one, behind the digits of what is left *)
(* of it.                                                                  *)
LEMMA DigitsOf ==
  ASSUME NEW n \in Int, NEW base \in Bases
  PROVE  Digits(n, base) = <<LastDigit(n, base)>>
           \o (IF Quotient(n, base) > 0 THEN Digits(Quotient(n, base), base) ELSE <<>>)
<1> DEFINE loop == CHOOSE f : DigitLoop(f, base, Int)
<1>1. DigitLoop(loop, base, Int)
  BY LoopEnds
<1>2. \A k : Digits(k, base) = loop[k]
  BY Zenon DEF Digits, DigitLoop, LastDigit
<1> HIDE DEF loop
<1>3. loop[n] = <<LastDigit(n, base)>>
        \o (IF Quotient(n, base) > 0 THEN loop[Quotient(n, base)] ELSE <<>>)
  BY <1>1 DEF DigitLoop
<1>4. QED
  BY <1>2, <1>3, SMTT(30)

(* A number is printed in characters of the kernel's texts. *)
LEMMA DigitsText ==
  ASSUME NEW base \in Bases, NEW n \in Int, base = 10 \/ n >= 0
  PROVE  Digits(n, base) \in Seq(Chars)
<1>1. ASSUME NEW k \in Int, base = 10 \/ k >= 0
      PROVE  LastDigit(k, base) \in Chars
  <2>1. Remainder(k, base) \in -9 .. 15
    BY <1>1, QuotientSmaller DEF Bases
  <2>2. QED
    BY <2>1, DigitChar DEF LastDigit
<1>2. ASSUME NEW k \in Int, base = 10 \/ k >= 0, ~ (Quotient(k, base) > 0)
      PROVE  Digits(k, base) \in Seq(Chars)
  <2>1. LastDigit(k, base) \in Chars
    BY <1>1, <1>2
  <2>2. Digits(k, base) = <<LastDigit(k, base)>> \o <<>>
    BY <1>2, DigitsOf
  <2>3. QED
    BY <2>1, <2>2
<1> DEFINE Bad == {k \in Nat : Digits(k, base) \notin Seq(Chars)}
<1>3. Bad = {}
  <2> SUFFICES ASSUME Bad # {} PROVE FALSE
    OBVIOUS
  <2>1. PICK k \in Bad : \A j \in Bad : k <= j
    BY LeastNatural
  <2>2. Quotient(k, base) > 0 /\ k \in Nat
    BY <1>2, <2>1
  <2>3. Quotient(k, base) \in Nat /\ Quotient(k, base) < k
    BY <2>2, QuotientSmaller
  <2>4. Digits(Quotient(k, base), base) \in Seq(Chars)
    BY <2>1, <2>2, <2>3
  <2>5. LastDigit(k, base) \in Chars
    BY <1>1, <2>2
  <2>6. Digits(k, base) = <<LastDigit(k, base)>> \o Digits(Quotient(k, base), base)
    BY <2>2, DigitsOf
  <2>7. \A c \in Chars, d \in Seq(Chars) : <<c>> \o d \in Seq(Chars)
    OBVIOUS
  <2>8. Digits(k, base) \in Seq(Chars)
    BY <2>4, <2>5, <2>6, <2>7
  <2>9. QED
    BY <2>1, <2>8
<1>4. CASE n >= 0
  BY <1>3, <1>4
<1>5. CASE n < 0
  <2>1. ~ (Quotient(n, base) > 0)
    BY <1>5, QuotientSmaller
  <2>2. QED
    BY <1>2, <1>5, <2>1
<1>6. QED
  BY <1>4, <1>5

-----------------------------------------------------------------------------
(* Machine words.                                                          *)

(* A power is the one before it times the base. *)
LEMMA PowerRecursion ==
  ASSUME NEW b \in Nat
  PROVE  Power(b, 0) = 1 /\ \A n \in Nat : Power(b, n + 1) = b * Power(b, n)
<1> DEFINE times == [p \in Nat \X Nat |-> b * p[2]]
           Is(f) == f = [n \in Nat |-> IF n = 0 THEN 1 ELSE b * f[n - 1]]
           to == CHOOSE f : Is(f)
<1>1. times \in [Nat \X Nat -> Nat] /\ \A n, v \in Nat : times[<<n, v>>] = b * v
  OBVIOUS
<1> HIDE DEF times
<1>2. \E f : Unrolls(f, Nat, 1, times)
  BY <1>1, Recursion
<1>3. PICK f \in [Nat -> Nat] : f[0] = 1 /\ \A n \in Nat : f[n + 1] = times[<<n, f[n]>>]
  BY <1>2 DEF Unrolls
<1>4. ASSUME NEW n \in Nat
      PROVE  f[n] = IF n = 0 THEN 1 ELSE b * f[n - 1]
  <2>1. CASE n = 0
    BY <1>3, <2>1
  <2>2. CASE n # 0
    <3>1. n - 1 \in Nat /\ (n - 1) + 1 = n /\ f[n - 1] \in Nat
      BY <2>2
    <3>2. QED
      BY <1>1, <1>3, <2>2, <3>1
  <2>3. QED
    BY <2>1, <2>2
<1>5. f = [n \in Nat |-> f[n]]
  OBVIOUS
<1>6. Is(f)
  BY <1>4, <1>5
<1>7. Is(to)
  <2> HIDE DEF Is
  <2>1. QED
    BY <1>6
<1>8. \A n : Power(b, n) = to[n]
  BY Zenon DEF Power
<1> HIDE DEF to
<1>9. \A n \in Nat : to[n] = IF n = 0 THEN 1 ELSE b * to[n - 1]
  BY <1>7
<1>10. ASSUME NEW n \in Nat
       PROVE  to[n + 1] = b * to[n]
  <2>1. n + 1 \in Nat /\ n + 1 # 0 /\ (n + 1) - 1 = n
    OBVIOUS
  <2>2. QED
    BY <1>9, <2>1
<1>11. QED
  BY <1>8, <1>9, <1>10

(* A power of a positive number is one, too. *)
LEMMA PowerPositive ==
  ASSUME NEW b \in Nat \ {0}
  PROVE  \A n \in Nat : Power(b, n) \in Nat \ {0}
<1> DEFINE S == {n \in Nat : Power(b, n) \in Nat \ {0}}
<1>1. 0 \in S
  BY PowerRecursion
<1>2. ASSUME NEW n \in Nat, n \in S
      PROVE  n + 1 \in S
  <2>1. PICK p \in Nat \ {0} : p = Power(b, n)
    BY <1>2
  <2>2. Power(b, n + 1) = b * p
    BY <2>1, PowerRecursion
  <2>3. QED
    BY <2>2
<1>3. \A n \in Nat : n \in S
  <2> HIDE DEF S
  <2>1. QED
    BY <1>1, <1>2, Induction
<1>4. QED
  BY <1>3

(* There are words, and their number is even but no multiple of ten. *)
LEMMA WordSize ==
  Modulus \in Nat \ {0} /\ \E half \in Nat \ {0} : Modulus = 2 * half /\ half % 10 # 0
<1> DEFINE S == {n \in Nat : Power(2, n) % 10 \in {1, 2, 4, 6, 8}}
<1>1. \A n \in Nat : Power(2, n) \in Nat \ {0}
  BY PowerPositive
<1>2. 0 \in S
  BY PowerRecursion
<1>3. ASSUME NEW n \in Nat, n \in S
      PROVE  n + 1 \in S
  <2>1. PICK p \in Nat \ {0} : p = Power(2, n)
    BY <1>1
  <2>2. Power(2, n + 1) = 2 * p
    BY <2>1, PowerRecursion
  <2>3. p % 10 \in {1, 2, 4, 6, 8}
    BY <1>3, <2>1
  <2>4. (2 * p) % 10 \in {1, 2, 4, 6, 8}
    BY <2>3
  <2>5. QED
    BY <2>2, <2>4
<1>4. \A n \in Nat : n \in S
  <2> HIDE DEF S
  <2>1. QED
    BY <1>2, <1>3, Induction
<1>5. PICK m \in Nat : BITS = m + 1
  <2>1. BITS - 1 \in Nat /\ BITS = (BITS - 1) + 1
    BY LogAssumption
  <2>2. QED
    BY <2>1
<1>6. PICK half \in Nat \ {0} : half = Power(2, m)
  BY <1>1
<1>7. half % 10 # 0
  BY <1>4, <1>6
<1>8. Modulus = 2 * half
  BY <1>5, <1>6, PowerRecursion DEF Modulus
<1>9. QED
  BY <1>7, <1>8

-----------------------------------------------------------------------------
(* Numbers are printed as one writes them, and read back.                  *)

(* A character at one end of a string that is turned round. *)
LEMMA TurnedRound ==
  ASSUME NEW c \in Chars, NEW s \in Seq(Chars)
  PROVE  /\ Reverse(<<c>> \o s) = Reverse(s) \o <<c>>
         /\ Reverse(s \o <<c>>) = <<c>> \o Reverse(s)
         /\ Reverse(s) \in Seq(Chars) /\ Len(Reverse(s)) = Len(s)
<1>1. PICK n \in Nat : n = Len(s) /\ \A k \in 1 .. n : s[k] \in Chars
  OBVIOUS
<1>2. /\ Reverse(s) \in Seq(Chars) /\ Len(Reverse(s)) = n
      /\ \A k \in 1 .. n : Reverse(s)[k] = s[(n - k) + 1]
  BY <1>1 DEF Reverse
<1> DEFINE front == <<c>> \o s
           back == s \o <<c>>
<1>3. /\ front \in Seq(Chars) /\ Len(front) = n + 1 /\ front[1] = c
      /\ \A k \in 1 .. n : front[k + 1] = s[k]
  BY <1>1
<1>4. /\ back \in Seq(Chars) /\ Len(back) = n + 1 /\ back[n + 1] = c
      /\ \A k \in 1 .. n : back[k] = s[k]
  BY <1>1
<1> HIDE DEF front, back
<1>5. /\ Reverse(front) \in Seq(Chars) /\ Len(Reverse(front)) = n + 1
      /\ \A k \in 1 .. n + 1 : Reverse(front)[k] = front[(n + 1 - k) + 1]
  BY <1>3 DEF Reverse
<1>6. /\ Reverse(back) \in Seq(Chars) /\ Len(Reverse(back)) = n + 1
      /\ \A k \in 1 .. n + 1 : Reverse(back)[k] = back[(n + 1 - k) + 1]
  BY <1>4 DEF Reverse
<1> DEFINE r == Reverse(s)
           left == r \o <<c>>
           right == <<c>> \o r
<1>7. /\ left \in Seq(Chars) /\ Len(left) = n + 1 /\ left[n + 1] = c
      /\ \A k \in 1 .. n : left[k] = r[k]
  <2> HIDE DEF r
  <2>1. QED
    BY <1>2 DEF r
<1>8. /\ right \in Seq(Chars) /\ Len(right) = n + 1 /\ right[1] = c
      /\ \A k \in 1 .. n : right[k + 1] = r[k]
  <2> HIDE DEF r
  <2>1. QED
    BY <1>2 DEF r
<1> HIDE DEF left, right
<1>9. ASSUME NEW k \in 1 .. n + 1
      PROVE  Reverse(front)[k] = left[k]
  <2>1. CASE k = n + 1
    BY <1>3, <1>5, <1>7, <2>1
  <2>2. CASE k # n + 1
    <3>1. k \in 1 .. n /\ (n - k) + 1 \in 1 .. n /\ (n + 1 - k) + 1 = ((n - k) + 1) + 1
      BY <2>2
    <3>2. Reverse(front)[k] = s[(n - k) + 1]
      BY <1>3, <1>5, <3>1
    <3>3. QED
      BY <1>2, <1>7, <3>1, <3>2
  <2>3. QED
    BY <2>1, <2>2
<1>10. ASSUME NEW k \in 1 .. n + 1
       PROVE  Reverse(back)[k] = right[k]
  <2>1. CASE k = 1
    <3>1. (n + 1 - k) + 1 = n + 1
      BY <2>1
    <3>2. QED
      BY <1>4, <1>6, <1>8, <2>1, <3>1
  <2>2. CASE k # 1
    <3>1. PICK j \in 1 .. n : k = j + 1
      <4>1. k - 1 \in 1 .. n /\ k = (k - 1) + 1
        BY <2>2
      <4>2. QED
        BY <4>1
    <3>2. (n + 1 - k) + 1 = (n - j) + 1 /\ (n - j) + 1 \in 1 .. n
      BY <3>1
    <3>3. Reverse(back)[k] = s[(n - j) + 1]
      BY <1>4, <1>6, <3>2
    <3>4. QED
      BY <1>2, <1>8, <3>1, <3>3
  <2>3. QED
    BY <2>1, <2>2
<1>11. \A a, b \in Seq(Chars) :
         Len(a) = n + 1 /\ Len(b) = n + 1 /\ (\A k \in 1 .. n + 1 : a[k] = b[k]) => a = b
  OBVIOUS
<1>12. Reverse(front) = left /\ Reverse(back) = right
  BY <1>5, <1>6, <1>7, <1>8, <1>9, <1>10, <1>11
<1>13. QED
  BY <1>1, <1>2, <1>12 DEF front, back, left, right

(* The length of a numeral. *)
Longs(n, base, l) ==
  l \in 1 .. BITS /\ Power(base, l) > n /\ \A m \in 1 .. l - 1 : ~ (Power(base, m) > n)

(* There is one length at most. *)
LEMMA OneLength ==
  ASSUME NEW n \in Nat, NEW base \in Bases, NEW l, Longs(n, base, l)
  PROVE  /\ l \in 1 .. BITS
         /\ Numeral(n, base) = [k \in 1 .. l |-> Digit((n \div Power(base, l - k)) % base)]
<1> DEFINE Fits(j) == Power(base, j) > n /\ \A m \in 1 .. j - 1 : ~ (Power(base, m) > n)
           len == CHOOSE j \in 1 .. BITS : Fits(j)
<1>1. l \in 1 .. BITS /\ Fits(l)
  BY DEF Longs
<1>2. BITS \in Nat
  BY LogAssumption
<1>3. len \in 1 .. BITS /\ Fits(len)
  BY <1>1
<1>4. \A i, j \in 1 .. BITS : Fits(i) /\ Fits(j) => ~ (i < j)
  BY <1>2
<1>5. Numeral(n, base) = [k \in 1 .. len |-> Digit((n \div Power(base, len - k)) % base)]
  BY Zenon DEF Numeral
<1>6. len = l
  <2> HIDE DEF len, Fits
  <2>1. QED
    BY <1>1, <1>2, <1>3, <1>4
<1>7. QED
  BY <1>1, <1>5, <1>6, Zenon

(* The powers of a base: one more place, the last place, and all places of *)
(* a machine word.                                                         *)
LEMMA Places ==
  ASSUME NEW base \in Bases
  PROVE  /\ \A k \in Nat : Power(base, k) \in Nat \ {0}
         /\ \A k \in Nat : Power(base, k + 1) = base * Power(base, k)
         /\ Power(base, 0) = 1 /\ Power(base, 1) = base
         /\ Power(base, BITS) >= Modulus
<1>1. base \in Nat /\ base \in Nat \ {0} /\ base >= 10
  BY DEF Bases
<1>2. \A k \in Nat : Power(base, k) \in Nat \ {0} /\ Power(2, k) \in Nat \ {0}
  BY <1>1, PowerPositive
<1>3. /\ Power(base, 0) = 1 /\ Power(2, 0) = 1
      /\ \A k \in Nat : Power(base, k + 1) = base * Power(base, k)
      /\ \A k \in Nat : Power(2, k + 1) = 2 * Power(2, k)
  BY <1>1, PowerRecursion
<1>4. Power(base, 1) = base
  <2>1. Power(base, 0 + 1) = base * Power(base, 0)
    BY <1>3
  <2>2. QED
    BY <1>1, <1>3, <2>1
<1> DEFINE S == {k \in Nat : Power(base, k) >= Power(2, k)}
<1>5. 0 \in S
  BY <1>3
<1>6. ASSUME NEW k \in Nat, k \in S
      PROVE  k + 1 \in S
  <2>1. PICK p \in Nat \ {0}, t \in Nat \ {0} : p = Power(base, k) /\ t = Power(2, k)
    BY <1>2
  <2>2. Power(base, k + 1) = base * p /\ Power(2, k + 1) = 2 * t /\ p >= t
    BY <1>3, <1>6, <2>1
  <2>3. base * p >= 2 * t
    BY <2>2 DEF Bases
  <2>4. QED
    BY <2>2, <2>3
<1>7. \A k \in Nat : k \in S
  <2> HIDE DEF S
  <2>1. QED
    BY <1>5, <1>6, Induction
<1>8. Power(base, BITS) >= Modulus
  BY <1>7, LogAssumption DEF Modulus
<1>9. QED
  BY <1>2, <1>3, <1>4, <1>8

(* The quotient of a number and what is left of it. *)
LEMMA OneDigit ==
  ASSUME NEW n \in Nat, NEW base \in Bases
  PROVE  \E q \in Nat, r \in 0 .. base - 1 :
           /\ n = base * q + r /\ q = n \div base /\ r = n % base
           /\ Quotient(n, base) = q /\ LastDigit(n, base) = Digit(r)
           /\ Digit(r) \in Chars
<1> DEFINE q == n \div base
           r == n % base
<1>1. q \in Nat /\ r \in 0 .. base - 1 /\ n = base * q + r
  BY DEF Bases
<1>2. Quotient(n, base) = q
  BY DEF Quotient
<1>3. Remainder(n, base) = r
  <2>1. base \in Nat /\ base * q \in Nat
    BY <1>1 DEF Bases
  <2> HIDE DEF q, r
  <2>2. QED
    BY <1>1, <1>2, <2>1 DEF Remainder
<1>4. LastDigit(n, base) = Digit(r)
  BY <1>3, Zenon DEF LastDigit
<1>5. r \in -9 .. 15
  BY <1>1 DEF Bases
<1>6. Digit(r) \in Chars
  BY <1>5, DigitChar
<1>7. QED
  BY <1>1, <1>2, <1>4, <1>6

(* A number has one place more than what is left of it without its last    *)
(* digit.                                                                  *)
LEMMA OnePlaceMore ==
  ASSUME NEW n \in Nat, n < Modulus, NEW base \in Bases, NEW q \in Nat, NEW r \in 0 .. base - 1,
         n = base * q + r, q > 0, NEW l, Longs(q, base, l)
  PROVE  Longs(n, base, l + 1)
<1>1. l \in 1 .. BITS /\ Power(base, l) > q /\ \A m \in 1 .. l - 1 : ~ (Power(base, m) > q)
  BY DEF Longs
<1>2. BITS \in Nat /\ BITS > 4
  BY LogAssumption
<1>3. \A p \in Nat : base * p > n <=> p > q
  BY DEF Bases
<1>4. ASSUME NEW m \in Nat
      PROVE  Power(base, m + 1) > n <=> Power(base, m) > q
  <2>1. Power(base, m) \in Nat /\ Power(base, m + 1) = base * Power(base, m)
    BY Places
  <2>2. QED
    BY <1>3, <2>1
<1>5. Power(base, l + 1) > n
  BY <1>1, <1>4
<1>6. l < BITS
  <2> SUFFICES ASSUME l = BITS PROVE FALSE
    BY <1>1, <1>2
  <2>1. PICK m \in Nat : BITS = m + 1 /\ m \in 1 .. l - 1
    <3>1. BITS - 1 \in Nat /\ BITS = (BITS - 1) + 1 /\ BITS - 1 \in 1 .. l - 1
      BY <1>2
    <3>2. QED
      BY <3>1
  <2>2. ~ (Power(base, BITS) > n)
    BY <1>1, <1>4, <2>1
  <2>3. Power(base, BITS) \in Nat /\ Power(base, BITS) >= Modulus /\ Modulus \in Nat
    BY <1>2, Places, WordSize
  <2>4. QED
    BY <2>2, <2>3
<1>7. ASSUME NEW m \in 1 .. (l + 1) - 1
      PROVE  ~ (Power(base, m) > n)
  <2>1. CASE m = 1
    <3>1. base * 1 <= n /\ base \in Nat
      BY DEF Bases
    <3>2. QED
      BY <2>1, <3>1, Places
  <2>2. CASE m # 1
    <3>1. PICK j \in Nat : m = j + 1 /\ j \in 1 .. l - 1
      <4>1. m - 1 \in Nat /\ m = (m - 1) + 1 /\ m - 1 \in 1 .. l - 1
        BY <1>1, <2>2
      <4>2. QED
        BY <4>1
    <3>2. QED
      BY <1>1, <1>4, <3>1
  <2>3. QED
    BY <2>1, <2>2
<1>8. l + 1 \in 1 .. BITS
  BY <1>1, <1>2, <1>6
<1>9. QED
  BY <1>5, <1>7, <1>8 DEF Longs

(* A number of one digit has one place. *)
LEMMA OnePlace ==
  ASSUME NEW base \in Bases, NEW r \in 0 .. base - 1
  PROVE  Longs(r, base, 1) /\ Numeral(r, base) = <<Digit(r)>>
<1>1. Power(base, 1) > r
  BY Places, SMTT(30) DEF Bases
<1>2. Longs(r, base, 1)
  BY <1>1, LogAssumption DEF Longs
<1>3. Numeral(r, base) = [k \in 1 .. 1 |-> Digit((r \div Power(base, 1 - k)) % base)]
  <2>1. r \in Nat
    BY DEF Bases
  <2>2. QED
    BY <1>2, <2>1, OneLength, ZenonT(60)
<1>4. (r \div 1) % base = r
  BY DEF Bases
<1>5. Numeral(r, base) = [k \in 1 .. 1 |-> Digit(r)]
  <2>1. \A k \in 1 .. 1 : 1 - k = 0 /\ Power(base, 1 - k) = 1
    BY Places
  <2>2. QED
    BY <1>3, <1>4, <2>1
<1>6. QED
  BY <1>2, <1>5

(* The numeral of a number of l places.                                    *)
LEMMA NumeralText ==
  ASSUME NEW n \in Nat, NEW base \in Bases, NEW l, Longs(n, base, l)
  PROVE  /\ Numeral(n, base) \in Seq(Chars) /\ Len(Numeral(n, base)) = l /\ l \in 1 .. BITS
         /\ \A k \in 1 .. l : Numeral(n, base)[k] = Digit((n \div Power(base, l - k)) % base)
<1>1. /\ l \in 1 .. BITS /\ l \in Nat
      /\ Numeral(n, base) = [k \in 1 .. l |-> Digit((n \div Power(base, l - k)) % base)]
  BY OneLength, LogAssumption
<1>2. ASSUME NEW k \in 1 .. l
      PROVE  Digit((n \div Power(base, l - k)) % base) \in Chars
  <2>1. l - k \in Nat
    BY <1>1
  <2>2. PICK p \in Nat \ {0} : p = Power(base, l - k)
    BY <2>1, Places
  <2>3. PICK a \in Nat : a = n \div p
    BY DivideBounds
  <2>4. a % base \in -9 .. 15
    BY <2>3 DEF Bases
  <2>5. QED
    BY <2>2, <2>3, <2>4, DigitChar
<1> DEFINE d == [k \in 1 .. l |-> Digit((n \div Power(base, l - k)) % base)]
<1>3. d \in [1 .. l -> Chars] /\ \A k \in 1 .. l : d[k] = Digit((n \div Power(base, l - k)) % base)
  BY <1>2
<1> HIDE DEF d
<1>4. d \in Seq(Chars) /\ Len(d) = l
  BY <1>1, <1>3
<1>5. Numeral(n, base) = d
  BY <1>1, ZenonT(60) DEF d
<1>6. QED
  BY <1>1, <1>3, <1>4, <1>5

(* The numeral of a number is the one of what is left of it without its    *)
(* last digit, and that digit.                                             *)
LEMMA NumeralGrows ==
  ASSUME NEW n \in Nat, n < Modulus, NEW base \in Bases, NEW q \in Nat, NEW r \in 0 .. base - 1,
         n = base * q + r, q = n \div base, r = n % base, q > 0, NEW l, Longs(q, base, l)
  PROVE  Numeral(n, base) = Numeral(q, base) \o <<Digit(r)>>
<1>1. Longs(n, base, l + 1)
  BY OnePlaceMore
<1>2. /\ Numeral(q, base) \in Seq(Chars) /\ Len(Numeral(q, base)) = l /\ l \in Nat
      /\ \A k \in 1 .. l : Numeral(q, base)[k] = Digit((q \div Power(base, l - k)) % base)
  BY NumeralText, LogAssumption
<1>3. /\ Numeral(n, base) \in Seq(Chars) /\ Len(Numeral(n, base)) = l + 1
      /\ \A k \in 1 .. l + 1 :
           Numeral(n, base)[k] = Digit((n \div Power(base, (l + 1) - k)) % base)
  BY <1>1, NumeralText
<1>4. Digit(r) \in Chars
  <2>1. r \in -9 .. 15
    BY DEF Bases
  <2>2. QED
    BY <2>1, DigitChar
<1>5. ASSUME NEW k \in 1 .. l
      PROVE  Numeral(n, base)[k] = Numeral(q, base)[k]
  <2>1. l - k \in Nat /\ (l + 1) - k = (l - k) + 1 /\ k \in 1 .. l + 1
    BY <1>2
  <2>2. PICK p \in Nat \ {0} : p = Power(base, l - k)
    BY <2>1, Places
  <2>3. Power(base, (l + 1) - k) = base * p
    BY <2>1, <2>2, Places
  <2>4. base \in Nat \ {0} /\ base * p = p * base
    BY DEF Bases
  <2>5. (n \div base) \div p = n \div (p * base)
    BY <2>4, DivideTwice
  <2>6. n \div Power(base, (l + 1) - k) = q \div p
    BY <2>3, <2>4, <2>5
  <2>7. Numeral(n, base)[k] = Digit((n \div Power(base, (l + 1) - k)) % base)
    BY <1>3, <2>1
  <2>8. Numeral(q, base)[k] = Digit((q \div p) % base)
    BY <1>2, <2>2
  <2>9. QED
    BY <2>6, <2>7, <2>8
<1>6. Numeral(n, base)[l + 1] = Digit(r)
  <2>1. l + 1 \in 1 .. l + 1 /\ (l + 1) - (l + 1) = 0
    BY <1>2
  <2>2. Numeral(n, base)[l + 1] = Digit((n \div Power(base, 0)) % base)
    BY <1>3, <2>1
  <2>3. Power(base, 0) = 1 /\ n \div 1 = n
    BY Places
  <2>4. QED
    BY <2>2, <2>3
<1>7. \A a, b \in Seq(Chars) : \A c \in Chars :
        /\ Len(b) = l /\ Len(a) = l + 1 /\ a[l + 1] = c
        /\ \A k \in 1 .. l : a[k] = b[k]
        => a = b \o <<c>>
  BY <1>2
<1>8. QED
  BY <1>2, <1>3, <1>4, <1>5, <1>6, <1>7

(* Every word has a numeral. *)
LEMMA HasLength ==
  ASSUME NEW base \in Bases, NEW n \in Nat, n < Modulus
  PROVE  \E l : Longs(n, base, l)
<1> DEFINE Bad == {m \in Nat : m < Modulus /\ ~ \E l : Longs(m, base, l)}
<1> SUFFICES ASSUME Bad # {} PROVE FALSE
  OBVIOUS
<1>1. PICK m \in Bad : \A j \in Bad : m <= j
  BY LeastNatural
<1>2. m \in Nat /\ m < Modulus /\ ~ \E l : Longs(m, base, l)
  BY <1>1
<1>3. PICK q \in Nat, r \in 0 .. base - 1 : m = base * q + r
  BY <1>2, OneDigit
<1>4. q > 0
  <2>1. CASE q = 0
    <3>1. m = r
      BY <1>3, <2>1 DEF Bases
    <3>2. QED
      BY <1>2, <3>1, OnePlace
  <2>2. QED
    BY <2>1
<1>5. q < m /\ q < Modulus
  <2>1. q < m
    BY <1>3, <1>4 DEF Bases
  <2>2. QED
    BY <1>2, <2>1, WordSize
<1>6. PICK l : Longs(q, base, l)
  BY <1>1, <1>2, <1>5
<1>7. Longs(m, base, l + 1)
  BY <1>2, <1>3, <1>4, <1>6, OnePlaceMore, SMTT(30)
<1>8. QED
  BY <1>2, <1>7

(* The last digit of a number and the rest of it, and the numerals of both *)
(* numbers.                                                                *)
Splits(n, base, q, r) ==
  /\ n = base * q + r /\ Digit(r) \in Chars
  /\ Quotient(n, base) = q /\ LastDigit(n, base) = Digit(r)
  /\ q = 0 => n = r /\ Numeral(n, base) = <<Digit(r)>>
  /\ q > 0 => /\ q < n /\ q < Modulus
              /\ Numeral(n, base) = Numeral(q, base) \o <<Digit(r)>>

(* A number is either a digit, or has one behind a smaller number.         *)
LEMMA NumeralOf ==
  ASSUME NEW base \in Bases, NEW n \in Nat, n < Modulus
  PROVE  /\ Numeral(n, base) \in Seq(Chars)
         /\ \E q \in Nat, r \in 0 .. base - 1 : Splits(n, base, q, r)
<1>1. Numeral(n, base) \in Seq(Chars)
  BY HasLength, NumeralText
<1>2. PICK q \in Nat, r \in 0 .. base - 1 :
        /\ n = base * q + r /\ q = n \div base /\ r = n % base
        /\ Quotient(n, base) = q /\ LastDigit(n, base) = Digit(r)
        /\ Digit(r) \in Chars
  BY OneDigit
<1>3. q = 0 => n = r /\ Numeral(n, base) = <<Digit(r)>>
  <2> SUFFICES ASSUME q = 0 PROVE n = r /\ Numeral(n, base) = <<Digit(r)>>
    OBVIOUS
  <2>1. n = r
    BY <1>2, SMTT(30) DEF Bases
  <2>2. QED
    BY <2>1, OnePlace
<1>4. q > 0 => /\ q < n /\ q < Modulus
               /\ Numeral(n, base) = Numeral(q, base) \o <<Digit(r)>>
  <2> SUFFICES ASSUME q > 0
               PROVE  /\ q < n /\ q < Modulus
                      /\ Numeral(n, base) = Numeral(q, base) \o <<Digit(r)>>
    OBVIOUS
  <2>1. q < n
    BY <1>2 DEF Bases
  <2>2. q < Modulus
    BY <2>1, WordSize
  <2>3. PICK l : Longs(q, base, l)
    BY <2>2, HasLength
  <2>4. QED
    BY <1>2, <2>1, <2>2, <2>3, NumeralGrows
<1>5. QED
  BY <1>1, <1>2, <1>3, <1>4 DEF Splits

(* The loop gives the digits of a numeral from the last one on.            *)
LEMMA DigitsAreNumeral ==
  ASSUME NEW base \in Bases, NEW n \in Nat, n < Modulus
  PROVE  Reverse(Digits(n, base)) = Numeral(n, base) /\ Digits(n, base) \in Seq(Chars)
<1>1. ASSUME NEW m \in Nat
      PROVE  Digits(m, base) \in Seq(Chars)
  BY DigitsText
<1> DEFINE Bad == {m \in Nat : m < Modulus /\ Reverse(Digits(m, base)) # Numeral(m, base)}
<1> SUFFICES ASSUME Bad # {} PROVE FALSE
  BY <1>1
<1>2. PICK m \in Bad : \A j \in Bad : m <= j
  BY LeastNatural
<1>3. m \in Nat /\ m < Modulus
  BY <1>2
<1>4. PICK q \in Nat, r \in 0 .. base - 1 :
        /\ Digit(r) \in Chars /\ Quotient(m, base) = q /\ LastDigit(m, base) = Digit(r)
        /\ q = 0 => Numeral(m, base) = <<Digit(r)>>
        /\ q > 0 => /\ q < m /\ q < Modulus
                    /\ Numeral(m, base) = Numeral(q, base) \o <<Digit(r)>>
  BY <1>3, NumeralOf, ZenonT(60) DEF Splits
<1>5. Digits(m, base) = <<LastDigit(m, base)>>
        \o (IF Quotient(m, base) > 0 THEN Digits(Quotient(m, base), base) ELSE <<>>)
  BY <1>3, DigitsOf
<1>6. CASE q = 0
  <2>1. Digits(m, base) = <<Digit(r)>> \o <<>>
    BY <1>4, <1>5, <1>6
  <2>2. <<>> \in Seq(Chars) /\ Reverse(<<>>) = <<>>
    BY DEF Reverse
  <2>3. Reverse(Digits(m, base)) = <<>> \o <<Digit(r)>>
    BY <1>4, <2>1, <2>2, TurnedRound
  <2>4. Reverse(Digits(m, base)) = <<Digit(r)>>
    BY <1>4, <2>3
  <2>5. QED
    BY <1>2, <1>4, <1>6, <2>4
<1>7. CASE q > 0
  <2>1. Digits(m, base) = <<Digit(r)>> \o Digits(q, base)
    BY <1>4, <1>5, <1>7
  <2>2. Reverse(Digits(m, base)) = Reverse(Digits(q, base)) \o <<Digit(r)>>
    BY <1>1, <1>4, <2>1, TurnedRound
  <2>3. Reverse(Digits(q, base)) = Numeral(q, base)
    BY <1>2, <1>3, <1>4, <1>7
  <2>4. QED
    BY <1>2, <1>4, <1>7, <2>2, <2>3
<1>8. QED
  BY <1>6, <1>7

(* What str_to_uint makes of a number and the next character ...           *)
Taken(v, char) == (v * 10 + DigitOf(char)) % Modulus

(* ... for the first characters of s.                                      *)
Reads(f, s, n) == f = [k \in 0 .. n |-> IF k = 0 THEN 0 ELSE Taken(f[k - 1], s[k])]

(* They can be read one by one. *)
LEMMA ReadsUpto ==
  ASSUME NEW s, NEW bound \in Nat
  PROVE  \E f : Reads(f, s, bound)
<1> DEFINE S == {n \in Nat : \E f : Reads(f, s, n)}
<1>1. 0 \in S
  <2> DEFINE f == [k \in 0 .. 0 |-> 0]
  <2>1. Reads(f, s, 0)
    BY DEF Reads
  <2>2. QED
    BY <2>1
<1>2. ASSUME NEW n \in Nat, n \in S
      PROVE  n + 1 \in S
  <2>1. PICK f : Reads(f, s, n)
    BY <1>2
  <2> DEFINE g == [k \in 0 .. n + 1 |-> IF k <= n THEN f[k] ELSE Taken(f[k - 1], s[k])]
  <2>2. ASSUME NEW k \in 0 .. n + 1
        PROVE  g[k] = IF k = 0 THEN 0 ELSE Taken(g[k - 1], s[k])
    <3>1. CASE k = 0
      BY <2>1, <3>1 DEF Reads
    <3>2. CASE k # 0
      <4>1. k - 1 \in 0 .. n /\ g[k - 1] = f[k - 1]
        BY <3>2
      <4>2. k <= n => f[k] = Taken(f[k - 1], s[k])
        <5>1. k <= n => k \in 0 .. n
          OBVIOUS
        <5>2. QED
          BY <2>1, <3>2, <5>1, Zenon DEF Reads
      <4>3. QED
        BY <3>2, <4>1, <4>2
    <3>3. QED
      BY <3>1, <3>2
  <2> HIDE DEF g
  <2>3. g = [k \in 0 .. n + 1 |-> g[k]]
    BY DEF g
  <2>4. Reads(g, s, n + 1)
    BY <2>2, <2>3, Zenon DEF Reads
  <2>5. QED
    BY <2>4
<1>3. \A n \in Nat : n \in S
  <2> HIDE DEF S
  <2>1. QED
    BY <1>1, <1>2, Induction
<1>4. QED
  BY <1>3

(* The characters of decimal digits, and no others, are read.              *)
Decimals == {Digit(r) : r \in 0 .. 9}

(* The characters of the ten digits.                                       *)
LEMMA DecimalDigits ==
  /\ Digit(0) = "0" /\ Digit(1) = "1" /\ Digit(2) = "2" /\ Digit(3) = "3" /\ Digit(4) = "4"
  /\ Digit(5) = "5" /\ Digit(6) = "6" /\ Digit(7) = "7" /\ Digit(8) = "8" /\ Digit(9) = "9"
<1>1. Digit(0) = "0" /\ Digit(1) = "1" /\ Digit(2) = "2" /\ Digit(3) = "3" /\ Digit(4) = "4"
  BY DEF Digit
<1>2. Digit(5) = "5" /\ Digit(6) = "6" /\ Digit(7) = "7" /\ Digit(8) = "8" /\ Digit(9) = "9"
  BY DEF Digit
<1>3. QED
  BY <1>1, <1>2

(* A digit is read as what it stands for.                                  *)
LEMMA DigitIs ==
  ASSUME NEW r \in 0 .. 9
  PROVE  DigitOf(Digit(r)) = r
<1>1. \A i, j \in 0 .. 9 : Digit(i) = Digit(j) => i = j
  BY DecimalDigits
<1>2. DigitOf(Digit(r)) \in 0 .. 9 /\ Digit(DigitOf(Digit(r))) = Digit(r)
  BY DEF DigitOf
<1>3. QED
  BY <1>1, <1>2

(* A line feed and a letter are no decimal digits.                         *)
LEMMA NoDecimals ==
  LF \notin Decimals /\ "A" \notin Decimals
BY DecimalDigits DEF Decimals, LF

(* What is read of the characters of a numeral.                            *)
LEMMA NumeralRead ==
  ASSUME NEW s, NEW bound \in Nat, NEW f, Reads(f, s, bound), NEW w \in Nat, w < Modulus,
         Len(Numeral(w, 10)) <= bound,
         \A k \in 1 .. Len(Numeral(w, 10)) : s[k] = Numeral(w, 10)[k]
  PROVE  f[Len(Numeral(w, 10))] = w
<1> DEFINE Stands(v) == /\ Len(Numeral(v, 10)) <= bound
                        /\ \A k \in 1 .. Len(Numeral(v, 10)) : s[k] = Numeral(v, 10)[k]
           Bad == {v \in Nat : v < Modulus /\ Stands(v) /\ f[Len(Numeral(v, 10))] # v}
<1> SUFFICES ASSUME Bad # {} PROVE FALSE
  OBVIOUS
<1>1. PICK v \in Bad : \A j \in Bad : v <= j
  BY LeastNatural
<1>2. v \in Nat /\ v < Modulus /\ Stands(v) /\ f[Len(Numeral(v, 10))] # v
  BY <1>1
<1>3. PICK q \in Nat, r \in 0 .. 9 : Splits(v, 10, q, r)
  <2>1. 10 \in Bases
    BY DEF Bases
  <2>2. PICK q \in Nat, r \in 0 .. 10 - 1 : Splits(v, 10, q, r)
    BY <1>2, <2>1, NumeralOf, Zenon
  <2>3. r \in 0 .. 9
    OBVIOUS
  <2>4. QED
    BY <2>2, <2>3, Zenon
<1>4. ASSUME NEW k \in 1 .. bound
      PROVE  f[k] = Taken(f[k - 1], s[k])
  <2>1. k \in 0 .. bound /\ k # 0
    OBVIOUS
  <2>2. QED
    BY <2>1, Zenon DEF Reads
<1>5. f[0] = 0
  <2>1. 0 \in 0 .. bound
    OBVIOUS
  <2>2. QED
    BY <2>1, Zenon DEF Reads
<1>6. ASSUME NEW l \in Nat, Len(Numeral(v, 10)) = l + 1, Numeral(v, 10)[l + 1] = Digit(r),
             f[l] = q
      PROVE  FALSE
  <2>1. l + 1 \in 1 .. bound /\ (l + 1) - 1 = l /\ l + 1 \in 1 .. Len(Numeral(v, 10))
    BY <1>2, <1>6, SMTT(30)
  <2>2. s[l + 1] = Digit(r)
    BY <1>2, <1>6, <2>1
  <2>3. f[l + 1] = Taken(q, Digit(r))
    BY <1>4, <1>6, <2>1, <2>2
  <2>4. Taken(q, Digit(r)) = v % Modulus
    <3>1. Taken(q, Digit(r)) = (q * 10 + r) % Modulus
      BY DigitIs, Zenon DEF Taken
    <3>2. q * 10 + r = v
      BY <1>3 DEF Splits
    <3>3. QED
      BY <3>1, <3>2
  <2>5. v % Modulus = v
    <3>1. PICK m \in Nat \ {0} : m = Modulus
      BY WordSize
    <3>2. v \in 0 .. m - 1 /\ 0 * m + v = v
      BY <1>2, <3>1
    <3>3. (0 * m + v) % m = v
      <4>1. 0 \in Int
        OBVIOUS
      <4>2. QED
        BY <3>2, <4>1, QuotientRemainder, Zenon
    <3>4. QED
      BY <3>1, <3>2, <3>3
  <2>6. QED
    BY <1>2, <1>6, <2>3, <2>4, <2>5
<1> HIDE DEF Stands
<1>7. CASE q = 0
  <2>1. Len(Numeral(v, 10)) = 0 + 1 /\ Numeral(v, 10)[0 + 1] = Digit(r)
    BY <1>3, <1>7 DEF Splits
  <2>2. QED
    BY <1>5, <1>6, <1>7, <2>1
<1>8. CASE q > 0
  <2>1. Numeral(q, 10) \in Seq(Chars)
    BY <1>3, <1>8, NumeralOf DEF Bases, Splits
  <2>2. PICK l \in Nat : l = Len(Numeral(q, 10))
    BY <2>1
  <2>3. /\ Len(Numeral(v, 10)) = l + 1 /\ Numeral(v, 10)[l + 1] = Digit(r)
        /\ \A k \in 1 .. l : Numeral(v, 10)[k] = Numeral(q, 10)[k]
    BY <1>3, <1>8, <2>1, <2>2 DEF Splits
  <2>4. Stands(q)
    BY <1>2, <2>2, <2>3, SMTT(30) DEF Stands
  <2>5. f[l] = q
    <3>1. q \notin Bad
      BY <1>1, <1>2, <1>3, <1>8 DEF Splits
    <3>2. QED
      BY <1>3, <1>8, <2>2, <2>4, <3>1 DEF Splits
  <2>6. QED
    BY <1>6, <2>3, <2>5
<1>9. QED
  BY <1>7, <1>8

(* All characters of a decimal numeral are digits.                         *)
LEMMA NumeralDecimal ==
  ASSUME NEW w \in Nat, w < Modulus
  PROVE  /\ Numeral(w, 10) \in Seq(Chars)
         /\ \A k \in 1 .. Len(Numeral(w, 10)) : Numeral(w, 10)[k] \in Decimals
<1>1. 10 \in Bases
  BY DEF Bases
<1>2. PICK l : Longs(w, 10, l)
  BY <1>1, HasLength
<1>3. /\ Numeral(w, 10) \in Seq(Chars) /\ Len(Numeral(w, 10)) = l /\ l \in 1 .. BITS
      /\ \A k \in 1 .. l : Numeral(w, 10)[k] = Digit((w \div Power(10, l - k)) % 10)
  BY <1>1, <1>2, NumeralText
<1>4. ASSUME NEW k \in 1 .. l
      PROVE  (w \div Power(10, l - k)) % 10 \in 0 .. 9
  <2>1. l - k \in Nat
    BY <1>3, LogAssumption
  <2>2. PICK p \in Nat \ {0} : p = Power(10, l - k)
    BY <1>1, <2>1, Places
  <2>3. PICK a \in Nat : a = w \div p
    BY DivideBounds
  <2>4. QED
    BY <2>2, <2>3
<1>5. QED
  BY <1>3, <1>4 DEF Decimals

(* str_to_uint reads a numeral up to a character that is no digit.         *)
LEMMA ReadBack ==
  ASSUME NEW w \in Nat, w < Modulus, NEW rest \in Seq(Chars \union {LF, "A", "0"}),
         rest = <<>> \/ rest[1] \notin Decimals
  PROVE  str_to_uint(Numeral(w, 10) \o rest) = w
<1> DEFINE s == Numeral(w, 10) \o rest
           f == CHOOSE h : Reads(h, s, Len(s))
           Ends(l) == /\ \A k \in 1 .. l : s[k] \in Decimals
                      /\ l = Len(s) \/ s[l + 1] \notin Decimals
           len == CHOOSE l \in 0 .. Len(s) : Ends(l)
<1>1. PICK n \in Nat : n = Len(Numeral(w, 10))
  BY NumeralDecimal
<1>2. /\ Len(s) \in Nat /\ n <= Len(s) /\ (n = Len(s) \/ s[n + 1] \notin Decimals)
      /\ \A k \in 1 .. n : s[k] = Numeral(w, 10)[k] /\ s[k] \in Decimals
  <2> DEFINE Alphabet == Chars \union {LF, "A", "0"}
  <2>1. Numeral(w, 10) \in Seq(Alphabet) /\ rest \in Seq(Alphabet)
    BY NumeralDecimal
  <2>2. /\ Len(s) = n + Len(rest) /\ Len(rest) \in Nat
        /\ \A k \in 1 .. n : s[k] = Numeral(w, 10)[k]
        /\ rest # <<>> => s[n + 1] = rest[1] /\ Len(rest) > 0
    BY <1>1, <2>1
  <2>3. rest = <<>> => Len(rest) = 0
    OBVIOUS
  <2> HIDE DEF s
  <2>4. QED
    BY <1>1, <2>2, <2>3, NumeralDecimal
<1>3. str_to_uint(s) = f[len]
  BY Zenon DEF str_to_uint, Reads, Taken, Decimals
<1> HIDE DEF s
<1>4. Reads(f, s, Len(s))
  BY <1>2, ReadsUpto
<1>5. n \in 0 .. Len(s) /\ Ends(n)
  BY <1>2
<1>6. len \in 0 .. Len(s) /\ Ends(len)
  <2> HIDE DEF Ends
  <2>1. QED
    BY <1>5
<1>7. \A i, j \in 0 .. Len(s) : Ends(i) /\ Ends(j) => ~ (i < j)
  BY <1>2
<1>8. len = n
  <2> HIDE DEF len, Ends
  <2>1. QED
    BY <1>2, <1>5, <1>6, <1>7
<1> HIDE DEF f, len
<1>9. f[n] = w
  BY <1>1, <1>2, <1>4, NumeralRead
<1>10. QED
  BY <1>3, <1>8, <1>9 DEF s

(* What an int32_t makes of a word, and what i *= -1 makes of that.         *)
LEMMA SignedIs ==
  ASSUME NEW w \in Word
  PROVE  /\ w \in Nat /\ w < Modulus
         /\ 2 * w < Modulus => Signed(w) = w /\ Signed(w) >= 0
         /\ 2 * w >= Modulus => Signed(w) = w - Modulus /\ Signed(w) < 0
         /\ 2 * w > Modulus => /\ Negated(Signed(w)) = Modulus - w
                               /\ Modulus - w \in Nat /\ Modulus - w < Modulus
         /\ 2 * w = Modulus => Negated(Signed(w)) = w - Modulus
<1>1. PICK m \in Nat \ {0} : m = Modulus
  BY WordSize
<1>2. w \in 0 .. m - 1
  BY <1>1 DEF Word
<1>3. \A v \in Nat : Signed(v) = IF 2 * v >= m THEN v - m ELSE v
  BY <1>1 DEF Signed
<1>4. 2 * w >= m => Negated(Signed(w)) = Signed(m - w)
  <2> SUFFICES ASSUME 2 * w >= m PROVE Negated(Signed(w)) = Signed(m - w)
    OBVIOUS
  <2>1. Signed(w) = w - m /\ 0 - (w - m) = m - w
    BY <1>2, <1>3
  <2>2. m - w \in 0 .. m - 1 /\ 0 * m + (m - w) = m - w
    BY <1>2
  <2>3. (0 * m + (m - w)) % m = m - w
    BY <2>2, QuotientRemainder
  <2>4. Negated(Signed(w)) = Signed((0 - (w - m)) % m)
    BY <1>1, <2>1 DEF Negated
  <2>5. QED
    BY <2>1, <2>2, <2>3, <2>4
<1>5. 2 * w > m => Signed(m - w) = m - w
  BY <1>2, <1>3
<1>6. 2 * w = m => Signed(m - w) = w - m
  <2>1. 2 * w = m => m - w = w
    BY <1>2
  <2>2. QED
    BY <1>2, <1>3, <2>1
<1>7. /\ 2 * w < m => Signed(w) = w /\ Signed(w) >= 0
      /\ 2 * w >= m => Signed(w) = w - m /\ Signed(w) < 0
      /\ 2 * w > m => m - w \in Nat /\ m - w < m
  BY <1>2, <1>3
<1>8. QED
  BY <1>1, <1>2, <1>4, <1>5, <1>6, <1>7

(* The sign is a character of the kernel's texts.                          *)
LEMMA SignIsChar ==
  "-" \in Chars
<1>1. Digit(-3) = "-"
  BY DEF Digit
<1>2. QED
  BY <1>1, DigitChar

(* int_to_str prints a sign and the numeral of the positive counterpart.   *)
LEMMA NegativePrinted ==
  ASSUME NEW w \in Word, 2 * w > Modulus
  PROVE  int_to_str(w, 10) = <<"-">> \o Numeral(Modulus - w, 10)
<1>1. /\ Signed(w) < 0 /\ Negated(Signed(w)) = Modulus - w
      /\ Modulus - w \in Nat /\ Modulus - w < Modulus
  BY SignedIs, WordSize
<1>2. PICK n \in Nat : n = Modulus - w /\ n < Modulus
  BY <1>1
<1>3. int_to_str(w, 10) = Reverse(Digits(n, 10) \o <<"-">>)
  BY <1>1, <1>2 DEF int_to_str, reverse_str
<1>4. Reverse(Digits(n, 10)) = Numeral(n, 10) /\ Digits(n, 10) \in Seq(Chars)
  BY <1>2, DigitsAreNumeral DEF Bases
<1>5. Reverse(Digits(n, 10) \o <<"-">>) = <<"-">> \o Reverse(Digits(n, 10))
  BY <1>4, TurnedRound, SignIsChar
<1>6. QED
  BY <1>2, <1>3, <1>4, <1>5

(* For the smallest number it prints a sign and what is no digit, since    *)
(* the remainder is negative and the loop ends at once.                    *)
LEMMA SmallestPrinted ==
  ASSUME NEW w \in Word, 2 * w = Modulus
  PROVE  \E char \in {Digit(r) : r \in -9 .. -1} : int_to_str(w, 10) = <<"-", char>>
<1>1. PICK half \in Nat \ {0} : Modulus = 2 * half /\ half % 10 # 0
  BY WordSize
<1>2. w = half /\ Signed(w) < 0 /\ Negated(Signed(w)) = 0 - half
  BY <1>1, SignedIs
<1> DEFINE n == 0 - half
           r == Remainder(n, 10)
<1>3. Quotient(n, 10) = -(half \div 10) /\ ~ (Quotient(n, 10) > 0)
  BY DEF Quotient
<1>4. r \in -9 .. -1
  <2>1. half \div 10 \in Nat /\ half % 10 \in 1 .. 9 /\ half = 10 * (half \div 10) + (half % 10)
    BY <1>1
  <2>2. r = n - 10 * (-(half \div 10))
    BY <1>3 DEF Remainder
  <2>3. QED
    BY <2>1, <2>2
<1>5. Digit(r) \in Chars
  <2>1. r \in -9 .. 15
    BY <1>4
  <2>2. QED
    BY <2>1, DigitChar
<1>6. Digits(n, 10) = <<Digit(r)>> \o <<>>
  <2>1. Digits(n, 10) = <<LastDigit(n, 10)>>
          \o (IF Quotient(n, 10) > 0 THEN Digits(Quotient(n, 10), 10) ELSE <<>>)
    <3>1. n \in Int /\ 10 \in Bases
      BY DEF Bases
    <3>2. QED
      BY <3>1, DigitsOf
  <2>2. QED
    BY <1>3, <2>1, Zenon DEF LastDigit
<1> HIDE DEF n, r
<1>7. int_to_str(w, 10) = Reverse(Digits(n, 10) \o <<"-">>)
  BY <1>2, Zenon DEF int_to_str, reverse_str, n
<1>8. Digits(n, 10) = <<Digit(r)>> /\ <<Digit(r)>> \in Seq(Chars)
  BY <1>5, <1>6
<1>9. Reverse(<<Digit(r)>> \o <<"-">>) = <<"-">> \o Reverse(<<Digit(r)>>)
  BY <1>8, TurnedRound, SignIsChar
<1>10. Reverse(<<Digit(r)>>) = <<Digit(r)>>
  BY DEF Reverse
<1>11. int_to_str(w, 10) = <<"-", Digit(r)>>
  <2>1. int_to_str(w, 10) = <<"-">> \o <<Digit(r)>>
    BY <1>7, <1>8, <1>9, <1>10, Zenon
  <2>2. ASSUME NEW a \in Chars, NEW b \in Chars
        PROVE  <<a>> \o <<b>> = <<a, b>>
    <3> DEFINE s == <<a>> \o <<b>>
               t == <<a, b>>
    <3>1. s \in Seq(Chars) /\ Len(s) = 2 /\ s[1] = a /\ s[2] = b
      OBVIOUS
    <3>2. t \in Seq(Chars) /\ Len(t) = 2 /\ t[1] = a /\ t[2] = b
      OBVIOUS
    <3> HIDE DEF s, t
    <3>3. \A k \in 1 .. 2 : s[k] = t[k]
      BY <3>1, <3>2
    <3>4. s = t
      BY <3>1, <3>2, <3>3
    <3>5. QED
      BY <3>4 DEF s, t
  <2>3. QED
    BY <1>5, <2>1, <2>2, SignIsChar
<1>12. QED
  BY <1>4, <1>11

(* What the conversions take: strings, characters, words. *)
Takes(letter, arg) ==
  /\ letter = "s" => arg \in Seq(Chars)
  /\ letter = "c" => arg \in Chars
  /\ letter \notin {"s", "c"} => arg \in Word

(* A conversion gives characters, and no return. *)
LEMMA ConvertedText ==
  ASSUME NEW letter \in Conversions, NEW arg, Takes(letter, arg)
  PROVE  Converted(letter, arg) \in Seq(Chars)
<1>1. CASE letter = "s"
  BY <1>1 DEF Converted, Takes
<1>2. CASE letter = "c"
  BY <1>2 DEF Converted, Takes
<1>3. ASSUME letter \notin {"s", "c"}
      PROVE  /\ arg \in Nat /\ Signed(arg) \in Int /\ Negated(Signed(arg)) \in Int
  <2>1. Modulus \in Nat \ {0}
    BY WordSize
  <2>2. arg \in Nat
    BY <1>3, <2>1 DEF Takes, Word
  <2>3. \A w \in Int : Signed(w) \in Int
    BY <2>1 DEF Signed
  <2>4. (0 - Signed(arg)) % Modulus \in Int
    BY <2>1, <2>2, <2>3
  <2>5. QED
    BY <2>2, <2>3, <2>4 DEF Negated
<1>4. ASSUME NEW s \in Seq(Chars)
      PROVE  reverse_str(s) \in Seq(Chars)
  BY DEF reverse_str, Reverse
<1>5. "-" \in Chars
  BY SignIsChar
<1>6. ASSUME letter \notin {"s", "c"}, letter \in {"i", "d"}
      PROVE  int_to_str(arg, 10) \in Seq(Chars)
  <2>1. /\ Digits(Negated(Signed(arg)), 10) \in Seq(Chars)
        /\ Digits(Signed(arg), 10) \in Seq(Chars)
    BY <1>3, <1>6, DigitsText DEF Bases
  <2>2. Digits(Negated(Signed(arg)), 10) \o <<"-">> \in Seq(Chars)
    BY <1>5, <2>1
  <2>3. QED
    BY <1>4, <2>1, <2>2 DEF int_to_str
<1>7. ASSUME letter \notin {"s", "c"}, NEW base \in Bases
      PROVE  uint_to_str(arg, base) \in Seq(Chars)
  BY <1>3, <1>4, <1>7, DigitsText DEF uint_to_str
<1>8. CASE letter \in {"i", "d"}
  <2>1. Converted(letter, arg) = int_to_str(arg, 10)
    BY <1>8 DEF Converted
  <2>2. QED
    BY <1>6, <1>8, <2>1
<1>9. CASE letter \in {"u", "p", "X", "x"}
  <2>1. Converted(letter, arg) \in {uint_to_str(arg, 10), uint_to_str(arg, 16)}
    BY <1>9 DEF Converted
  <2>2. QED
    BY <1>7, <1>9, <2>1 DEF Bases
<1>10. QED
  BY <1>1, <1>2, <1>8, <1>9 DEF Conversions

-----------------------------------------------------------------------------
(* Texts without returns.                                                  *)

Output == Chars \union {CR}

(* The characters other than returns among the first ones of s. *)
Keeps(f, s, n) ==
  f = [k \in 0 .. n |->
         IF k = 0 THEN <<>>
         ELSE IF s[k] = CR THEN f[k - 1] ELSE Append(f[k - 1], s[k])]

(* They can be counted up. *)
LEMMA KeepsUpto ==
  ASSUME NEW s, NEW bound \in Nat
  PROVE  \E f : Keeps(f, s, bound)
<1> DEFINE S == {n \in Nat : \E f : Keeps(f, s, n)}
<1>1. 0 \in S
  <2> DEFINE f == [k \in 0 .. 0 |-> <<>>]
  <2>1. Keeps(f, s, 0)
    BY DEF Keeps
  <2>2. QED
    BY <2>1
<1>2. ASSUME NEW n \in Nat, n \in S
      PROVE  n + 1 \in S
  <2>1. PICK f : Keeps(f, s, n)
    BY <1>2
  <2> DEFINE g == [k \in 0 .. n + 1 |->
                     IF k <= n THEN f[k]
                     ELSE IF s[k] = CR THEN f[k - 1] ELSE Append(f[k - 1], s[k])]
  <2>2. ASSUME NEW k \in 0 .. n + 1
        PROVE  g[k] = IF k = 0 THEN <<>>
                      ELSE IF s[k] = CR THEN g[k - 1] ELSE Append(g[k - 1], s[k])
    <3>1. CASE k = 0
      BY <2>1, <3>1 DEF Keeps
    <3>2. CASE k # 0
      <4>1. k - 1 \in 0 .. n /\ g[k - 1] = f[k - 1]
        BY <3>2
      <4>2. k <= n => f[k] = IF s[k] = CR THEN f[k - 1] ELSE Append(f[k - 1], s[k])
        <5>1. k <= n => k \in 0 .. n
          OBVIOUS
        <5>2. QED
          BY <2>1, <3>2, <5>1, Zenon DEF Keeps
      <4>3. QED
        BY <3>2, <4>1, <4>2
    <3>3. QED
      BY <3>1, <3>2
  <2> HIDE DEF g
  <2>3. g = [k \in 0 .. n + 1 |-> g[k]]
    BY DEF g
  <2>4. Keeps(g, s, n + 1)
    BY <2>2, <2>3, Zenon DEF Keeps
  <2>5. QED
    BY <2>4
<1>3. \A n \in Nat : n \in S
  <2> HIDE DEF S
  <2>1. QED
    BY <1>1, <1>2, Induction
<1>4. QED
  BY <1>3

(* What is kept of the first characters does not depend on the others. *)
LEMMA KeepsAgree ==
  ASSUME NEW s, NEW t, NEW m \in Nat, NEW n \in Nat, m <= n, \A k \in 1 .. m : s[k] = t[k],
         NEW f, NEW g, Keeps(f, s, m), Keeps(g, t, n)
  PROVE  \A k \in 0 .. m : f[k] = g[k]
<1> DEFINE S == {k \in Nat : k <= m => f[k] = g[k]}
<1>1. 0 \in S
  <2>1. 0 \in 0 .. m /\ 0 \in 0 .. n
    OBVIOUS
  <2>2. f[0] = <<>> /\ g[0] = <<>>
    BY <2>1, Zenon DEF Keeps
  <2>3. QED
    BY <2>2
<1>2. ASSUME NEW k \in Nat, k \in S
      PROVE  k + 1 \in S
  <2> SUFFICES ASSUME k + 1 <= m PROVE f[k + 1] = g[k + 1]
    OBVIOUS
  <2>1. /\ k + 1 \in 0 .. m /\ k + 1 \in 0 .. n /\ k + 1 # 0 /\ (k + 1) - 1 = k
        /\ f[k] = g[k] /\ s[k + 1] = t[k + 1]
    BY <1>2
  <2>2. /\ f[k + 1] = IF s[k + 1] = CR THEN f[(k + 1) - 1] ELSE Append(f[(k + 1) - 1], s[k + 1])
        /\ g[k + 1] = IF t[k + 1] = CR THEN g[(k + 1) - 1] ELSE Append(g[(k + 1) - 1], t[k + 1])
    BY <2>1, Zenon DEF Keeps
  <2>3. QED
    BY <2>1, <2>2
<1>3. \A k \in Nat : k \in S
  <2> HIDE DEF S
  <2>1. QED
    BY <1>1, <1>2, Induction
<1>4. QED
  BY <1>3

(* The last character is kept unless it is a return. *)
LEMMA LastKept ==
  ASSUME NEW s \in Seq(Output), NEW char \in Output
  PROVE  WithoutReturns(Append(s, char)) =
           IF char = CR THEN WithoutReturns(s) ELSE Append(WithoutReturns(s), char)
<1> DEFINE t == Append(s, char)
           n == Len(s)
           f == CHOOSE h : Keeps(h, s, n)
           g == CHOOSE h : Keeps(h, t, n + 1)
<1>1. n \in Nat /\ Len(t) = n + 1 /\ t[n + 1] = char /\ \A k \in 1 .. n : s[k] = t[k]
  OBVIOUS
<1>2. Keeps(f, s, n) /\ Keeps(g, t, n + 1)
  <2>1. n + 1 \in Nat
    BY <1>1
  <2> HIDE DEF t, n
  <2>2. (\E h : Keeps(h, s, n)) /\ \E h : Keeps(h, t, n + 1)
    BY <1>1, <2>1, KeepsUpto
  <2>3. QED
    BY <2>2, Zenon
<1>3. WithoutReturns(s) = f[n]
  BY Zenon DEF WithoutReturns, Keeps
<1>4. WithoutReturns(t) = g[n + 1]
  <2>1. WithoutReturns(t) = (CHOOSE h : Keeps(h, t, Len(t)))[Len(t)]
    BY Zenon DEF WithoutReturns, Keeps
  <2> HIDE DEF t
  <2>2. QED
    BY <1>1, <2>1
<1> HIDE DEF f, g, t, n
<1>5. f[n] = g[n]
  BY <1>1, <1>2, KeepsAgree
<1>6. n + 1 \in 0 .. n + 1 /\ n + 1 # 0 /\ (n + 1) - 1 = n
  BY <1>1
<1>7. g[n + 1] = IF t[n + 1] = CR THEN g[(n + 1) - 1] ELSE Append(g[(n + 1) - 1], t[n + 1])
  BY <1>2, <1>6, Zenon DEF Keeps
<1>8. QED
  BY <1>1, <1>3, <1>4, <1>5, <1>6, <1>7 DEF t

(* Nothing is kept of nothing. *)
LEMMA NothingKept == WithoutReturns(<<>>) = <<>>
<1> DEFINE f == CHOOSE h : Keeps(h, <<>>, 0)
<1>1. Keeps(f, <<>>, 0)
  BY KeepsUpto
<1>2. WithoutReturns(<<>>) = (CHOOSE h : Keeps(h, <<>>, Len(<<>>)))[Len(<<>>)]
  BY Zenon DEF WithoutReturns, Keeps
<1>3. Len(<<>>) = 0
  OBVIOUS
<1>4. WithoutReturns(<<>>) = f[0]
  BY <1>2, <1>3
<1> HIDE DEF f
<1>5. QED
  BY <1>1, <1>4 DEF Keeps

-----------------------------------------------------------------------------
(* The text of a call: what __doprnt puts for its format and arguments.    *)

Arg == Seq(Chars) \union Chars \union Word

CallRecord == [fmt : Seq(Chars), args : Seq(Arg), text : Seq(Chars)]

(* One turn of the loop of __doprnt: from x, with the text that is to      *)
(* come, to y.                                                             *)
Turn(x, y) ==
  /\ x.fmt # <<>>
  /\ IF ~ (Head(x.fmt) = "%" /\ Len(x.fmt) > 1)
     THEN /\ x.text = <<Head(x.fmt)>> \o y.text
          /\ y.fmt = Tail(x.fmt) /\ y.args = x.args
     ELSE /\ y.fmt = SubSeq(x.fmt, 3, Len(x.fmt))
          /\ IF x.fmt[2] \in Conversions
             THEN /\ x.args # <<>> /\ Takes(x.fmt[2], Head(x.args))
                  /\ x.text = Converted(x.fmt[2], Head(x.args)) \o y.text
                  /\ y.args = Tail(x.args)
             ELSE x.text = <<x.fmt[2]>> \o y.text /\ y.args = x.args

(* A run of the loop to the end of the format, with an argument of the     *)
(* right kind for every directive.                                         *)
Renders(f, a, t) ==
  \E n \in Nat : \E run \in [0 .. n -> CallRecord] :
     /\ run[0] = [fmt |-> f, args |-> a, text |-> t]
     /\ \A k \in 0 .. n - 1 : Turn(run[k], run[k + 1])
     /\ run[n].fmt = <<>> /\ run[n].text = <<>>

(* A call with the text its format and its arguments give. *)
Known(call) == call \in CallRecord /\ Renders(call.fmt, call.args, call.text)

(* What the theorems assume of the calls: their texts are what one reads   *)
(* in them, and the report of an exception begins a line.                  *)
CallsKnown ==
  /\ \A k \in DOMAIN Calls : Known(Calls[k])
  /\ \A k \in DOMAIN Reports :
       /\ Reports[k] \in Seq(CallRecord)
       /\ \A j \in DOMAIN Reports[k] : Known(Reports[k][j])
       /\ Reports[k] # <<>> => Reports[k][1].fmt # <<>> /\ Head(Reports[k][1].fmt) = LF

(* The end of the format. *)
LEMMA RenderedEnd ==
  ASSUME NEW a, NEW t, Renders(<<>>, a, t)
  PROVE  t = <<>>
<1>0. PICK n \in Nat : \E run \in [0 .. n -> CallRecord] :
        /\ run[0] = [fmt |-> <<>>, args |-> a, text |-> t]
        /\ \A k \in 0 .. n - 1 : Turn(run[k], run[k + 1])
        /\ run[n].fmt = <<>> /\ run[n].text = <<>>
  BY DEF Renders
<1>1. PICK run \in [0 .. n -> CallRecord] :
        /\ run[0] = [fmt |-> <<>>, args |-> a, text |-> t]
        /\ \A k \in 0 .. n - 1 : Turn(run[k], run[k + 1])
        /\ run[n].fmt = <<>> /\ run[n].text = <<>>
  BY <1>0, SMTT(30)
<1>2. n = 0
  <2> SUFFICES ASSUME n # 0 PROVE FALSE
    OBVIOUS
  <2>1. Turn(run[0], run[0 + 1])
    BY <1>1
  <2>2. QED
    BY <1>1, <2>1 DEF Turn
<1>3. QED
  BY <1>1, <1>2

(* A turn, and the rest of the run. *)
LEMMA RenderedTurn ==
  ASSUME NEW f, NEW a, NEW t, f # <<>>, Renders(f, a, t)
  PROVE  \E y \in CallRecord :
            /\ Turn([fmt |-> f, args |-> a, text |-> t], y)
            /\ Renders(y.fmt, y.args, y.text)
<1>0. PICK n \in Nat : \E run \in [0 .. n -> CallRecord] :
        /\ run[0] = [fmt |-> f, args |-> a, text |-> t]
        /\ \A k \in 0 .. n - 1 : Turn(run[k], run[k + 1])
        /\ run[n].fmt = <<>> /\ run[n].text = <<>>
  BY DEF Renders
<1>1. PICK run \in [0 .. n -> CallRecord] :
        /\ run[0] = [fmt |-> f, args |-> a, text |-> t]
        /\ \A k \in 0 .. n - 1 : Turn(run[k], run[k + 1])
        /\ run[n].fmt = <<>> /\ run[n].text = <<>>
  BY <1>0
<1>2. n # 0
  BY <1>1
<1> DEFINE m == n - 1
           rest == [k \in 0 .. m |-> run[k + 1]]
           y == run[1]
<1>3. m \in Nat /\ n = m + 1
  BY <1>2
<1>4. rest \in [0 .. m -> CallRecord] /\ y \in CallRecord
  BY <1>3
<1>5. /\ rest[0] = y
      /\ \A k \in 0 .. m - 1 : Turn(rest[k], rest[k + 1])
      /\ rest[m].fmt = <<>> /\ rest[m].text = <<>>
  <2>1. rest[0] = y
    BY <1>3
  <2>2. ASSUME NEW k \in 0 .. m - 1
        PROVE  Turn(rest[k], rest[k + 1])
    <3>1. k + 1 \in 0 .. n - 1 /\ k \in 0 .. m /\ k + 1 \in 0 .. m
      BY <1>3
    <3>2. Turn(run[k + 1], run[(k + 1) + 1])
      BY <1>1, <3>1
    <3>3. rest[k] = run[k + 1] /\ rest[k + 1] = run[(k + 1) + 1]
      BY <3>1
    <3>4. QED
      BY <3>2, <3>3
  <2>3. rest[m] = run[n]
    BY <1>3
  <2>4. QED
    BY <1>1, <2>1, <2>2, <2>3
<1> HIDE DEF rest
<1>6. y = [fmt |-> y.fmt, args |-> y.args, text |-> y.text]
  BY <1>4 DEF CallRecord
<1>7. Renders(y.fmt, y.args, y.text)
  BY <1>3, <1>4, <1>5, <1>6 DEF Renders
<1>8. Turn(run[0], run[0 + 1])
  BY <1>1, <1>2
<1>9. QED
  BY <1>1, <1>4, <1>7, <1>8

-----------------------------------------------------------------------------
(* The invariant.                                                          *)

(* The characters are where they belong. *)
TypeInv ==
  /\ TypeOK
  /\ fmt \in Seq(Chars) /\ args \in Seq(Arg) /\ string \in Seq(Chars)
  /\ todo \in Seq(CallRecord) /\ \A j \in DOMAIN todo : Known(todo[j])
  /\ holding \in Seq(Output) /\ shift \in Seq(Output) /\ line \in Seq(Output)
  /\ shown \in Seq(Chars)
  /\ meant \in [{SERIAL, TERMINAL} -> Seq(Chars)]

(* Of the processor: what it has begun.                                    *)
ControlInv ==
  /\ pc \in {"idle", "halt"} => fmt = <<>> /\ string = <<>>
  /\ pc = "halt" => exceptions > 0
  /\ exceptions = 0 => todo = <<>>
  /\ pc \in {"wait", "return", "write"} => __log_out = SERIAL
  /\ pc = "return" => Head(string) = LF /\ holding = <<>>
  /\ pc = "write" => IF Head(string) = LF THEN holding \in {<<>>, <<CR>>} ELSE holding = <<>>

(* The last character given to the transmitter is a return. *)
ReturnLast == Sent # <<>> /\ Sent[Len(Sent)] = CR

(* Then the next one is a line feed: of the character com_write is at, or  *)
(* of the report of the exception that came in between.                    *)
ReturnInv ==
  /\ pc = "write" /\ Head(string) = LF => ReturnLast
  /\ ReturnLast =>
       /\ __log_out = SERIAL
       /\ \/ pc = "write" /\ Head(string) = LF
          \/ /\ exceptions > 0
             /\ pc = "idle" /\ todo # <<>> => todo[1].fmt # <<>> /\ Head(todo[1].fmt) = LF
             /\ pc \in {"format", "wait", "return"} =>
                  IF string = <<>> THEN fmt # <<>> /\ Head(fmt) = LF ELSE Head(string) = LF
             /\ pc # "write"
  /\ ReturnsKept

(* An output has all of the texts meant for it but what is left of the     *)
(* call under way.                                                         *)
TextInv ==
  /\ \A out \in {SERIAL, TERMINAL} : Given(out) \in Seq(Chars)
  /\ \A out \in {SERIAL, TERMINAL} \ {__log_out} : meant[out] = Given(out)
  /\ \E t \in Seq(Chars) :
        Renders(fmt, args, t) /\ meant[__log_out] = Given(__log_out) \o (string \o t)

IInv == TypeInv /\ ControlInv /\ TextInv /\ ReturnInv

(* The transmitter takes at least one character; the characters that the   *)
(* code tells apart.                                                       *)
LEMMA Distinct ==
  /\ \A d \in Depths : d \in Nat \ {0}
  /\ LF # CR /\ LF # "%" /\ CR \notin Chars
  /\ SERIAL # TERMINAL
BY LogAssumption, TextAssumption DEF LF, CR, SERIAL, TERMINAL

(* Steps that leave the outputs alone. *)
LEMMA OutputsKept ==
  ASSUME UNCHANGED <<uart, shown>>
  PROVE  /\ UNCHANGED <<depth, holding, shift, line, shown>>
         /\ Sent' = Sent
         /\ \A out \in {SERIAL, TERMINAL} : Given(out)' = Given(out)
         /\ ReturnLast' = ReturnLast
<1>1. UNCHANGED <<depth, holding, shift, line, shown>>
  BY DEF uart
<1>2. Sent' = Sent
  BY <1>1 DEF Sent
<1>3. QED
  BY <1>1, <1>2 DEF Given, ReturnLast

(* The transmitter moves characters without changing their order. *)
LEMMA TransmitKeepsOrder ==
  ASSUME TypeInv, Transmit
  PROVE  /\ Sent' = Sent
         /\ holding' \in Seq(Output) /\ shift' \in Seq(Output) /\ line' \in Seq(Output)
         /\ Len(holding') <= Len(holding) /\ Len(shift') <= 1
         /\ \A c : holding = <<c>> => holding' \in {<<>>, <<c>>}
<1>1. holding \in Seq(Output) /\ shift \in Seq(Output) /\ line \in Seq(Output)
      /\ Len(shift) <= 1
  BY DEF TypeInv, TypeOK
<1>2. CASE Load
  <2>1. /\ shift = <<>> /\ holding # <<>>
        /\ shift' = <<Head(holding)>> /\ holding' = Tail(holding) /\ line' = line
    BY <1>2 DEF Load
  <2>2. line \o <<>> = line /\ holding = <<Head(holding)>> \o Tail(holding)
    BY <1>1, <2>1
  <2>3. (line \o <<Head(holding)>>) \o Tail(holding)
          = line \o (<<Head(holding)>> \o Tail(holding))
    BY <1>1, <2>1
  <2>4. QED
    BY <1>1, <2>1, <2>2, <2>3, SMTT(30) DEF Sent
<1>3. CASE ShiftOut
  <2>1. line' = line \o shift /\ shift' = <<>> /\ holding' = holding
    BY <1>3 DEF ShiftOut
  <2>2. (line \o shift) \o <<>> = line \o shift
    BY <1>1
  <2>3. QED
    BY <1>1, <2>1, <2>2 DEF Sent
<1>4. QED
  BY <1>2, <1>3 DEF Transmit

(* What com_write writes is behind all the rest; a character written to a  *)
(* full transmitter of one character takes the place of the last one.      *)
LEMMA Written ==
  ASSUME TypeInv, NEW char \in Output, outb(char),
         holding = <<>> \/ holding = <<CR>>
  PROVE  /\ UNCHANGED <<depth, shift, line>>
         /\ holding' \in Seq(Output) /\ Len(holding') <= depth
         /\ holding = <<>> => holding' = <<char>>
         /\ \/ Sent' = Append(Sent, char)
            \/ /\ depth = 1
               /\ \E s \in Seq(Output) : Sent = Append(s, CR) /\ Sent' = Append(s, char)
         /\ Sent \in Seq(Output)
<1>1. /\ holding \in Seq(Output) /\ shift \in Seq(Output) /\ line \in Seq(Output)
      /\ depth \in Nat \ {0} /\ Len(holding) <= depth
  BY Distinct DEF TypeInv, TypeOK
<1>2. UNCHANGED <<depth, shift, line>>
  BY DEF outb
<1> DEFINE s == line \o shift
<1>3. s \in Seq(Output) /\ Sent = s \o holding /\ Sent' = s \o holding'
  BY <1>1, <1>2 DEF Sent
<1> HIDE DEF s
<1>4. CASE Len(holding) < depth
  <2>1. holding' = Append(holding, char)
    BY <1>4 DEF outb
  <2>2. s \o Append(holding, char) = Append(s \o holding, char)
    BY <1>1, <1>3, SMTT(30)
  <2>3. Sent' = Append(Sent, char)
    BY <1>3, <2>1, <2>2
  <2>4. holding' \in Seq(Output) /\ Len(holding') <= depth
    BY <1>1, <1>4, <2>1
  <2>5. holding = <<>> => holding' = <<char>>
    BY <2>1
  <2>6. Sent \in Seq(Output)
    BY <1>1, <1>3
  <2>7. QED
    BY <1>2, <2>3, <2>4, <2>5, <2>6
<1>5. CASE ~ (Len(holding) < depth)
  <2>1. depth = 1 /\ holding = <<CR>>
    BY <1>1, <1>5
  <2>2. holding' = <<char>>
    BY <1>5, <2>1 DEF outb, ReplaceAt
  <2>3. s \o <<CR>> = Append(s, CR) /\ s \o <<char>> = Append(s, char)
    BY <1>3
  <2>4. QED
    BY <1>1, <1>2, <1>3, <2>1, <2>2, <2>3, SMTT(30)
<1>6. QED
  BY <1>4, <1>5

(* A turn of the loop of __doprnt. *)
LEMMA DoprntTurn ==
  ASSUME TypeInv, TextInv, __doprnt
  PROVE  /\ fmt' \in Seq(Chars) /\ args' \in Seq(Arg) /\ string' \in Seq(Chars)
         /\ UNCHANGED <<uart, shown, meant, __log_out, todo, pc, counters>>
         /\ \E t \in Seq(Chars) :
              Renders(fmt', args', t) /\ meant[__log_out] = Given(__log_out) \o (string' \o t)
         /\ Head(fmt) = LF => string' = <<LF>>
<1>1. /\ pc = "format" /\ string = <<>> /\ fmt # <<>> /\ fmt \in Seq(Chars)
      /\ UNCHANGED <<uart, shown, meant, __log_out, todo, pc, counters>>
  BY DEF __doprnt, TypeInv
<1>2. PICK t \in Seq(Chars) :
        Renders(fmt, args, t) /\ meant[__log_out] = Given(__log_out) \o (string \o t)
  BY DEF TextInv
<1>3. PICK y \in CallRecord :
        /\ Turn([fmt |-> fmt, args |-> args, text |-> t], y)
        /\ Renders(y.fmt, y.args, y.text)
  BY <1>1, <1>2, RenderedTurn
<1>4. y.fmt \in Seq(Chars) /\ y.args \in Seq(Arg) /\ y.text \in Seq(Chars)
  BY DEF CallRecord
<1>5. string \o t = t
  BY <1>1, <1>2
<1>6. /\ fmt' = y.fmt /\ args' = y.args /\ string' \in Seq(Chars)
      /\ t = string' \o y.text /\ (Head(fmt) = LF => string' = <<LF>>)
  <2>1. CASE ~ (Head(fmt) = "%" /\ Len(fmt) > 1)
    <3>1. fmt' = Tail(fmt) /\ UNCHANGED args /\ string' = <<Head(fmt)>>
      BY <2>1 DEF __doprnt, Directive, Plain
    <3>2. t = <<Head(fmt)>> \o y.text /\ y.fmt = Tail(fmt) /\ y.args = args
      BY <1>3, <2>1 DEF Turn
    <3>3. Head(fmt) \in Chars
      BY <1>1
    <3>4. string' \in Seq(Chars) /\ t = string' \o y.text
      BY <3>1, <3>2, <3>3
    <3>5. Head(fmt) = LF => string' = <<LF>>
      BY <3>1
    <3>6. QED
      BY <3>1, <3>2, <3>4, <3>5
  <2>2. CASE Head(fmt) = "%" /\ Len(fmt) > 1
    <3>1. /\ fmt' = SubSeq(fmt, 3, Len(fmt)) /\ Head(fmt) # LF
          /\ IF fmt[2] \in Conversions
             THEN string' = Converted(fmt[2], Head(args)) /\ args' = Tail(args)
             ELSE string' = <<fmt[2]>> /\ UNCHANGED args
      BY <2>2, Distinct DEF __doprnt, Directive, Plain
    <3>2. /\ y.fmt = SubSeq(fmt, 3, Len(fmt))
          /\ IF fmt[2] \in Conversions
             THEN /\ args # <<>> /\ Takes(fmt[2], Head(args))
                  /\ t = Converted(fmt[2], Head(args)) \o y.text
                  /\ y.args = Tail(args)
             ELSE t = <<fmt[2]>> \o y.text /\ y.args = args
      BY <1>3, <2>2 DEF Turn
    <3>3. fmt[2] \in Chars
      BY <1>1, <2>2
    <3>4. CASE fmt[2] \in Conversions
      BY <3>1, <3>2, <3>4, ConvertedText
    <3>5. CASE fmt[2] \notin Conversions
      <4>1. string' = <<fmt[2]>> /\ UNCHANGED args
        BY <3>1, <3>5
      <4>2. t = <<fmt[2]>> \o y.text /\ y.args = args
        BY <3>2, <3>5
      <4>3. string' \in Seq(Chars)
        BY <3>3, <4>1
      <4>4. QED
        BY <3>1, <3>2, <4>1, <4>2, <4>3
    <3>6. QED
      BY <3>4, <3>5
  <2>3. QED
    BY <2>1, <2>2
<1>7. QED
  BY <1>1, <1>2, <1>3, <1>4, <1>5, <1>6

(* Where no call is under way nothing is left. *)
LEMMA NoCall == Renders(<<>>, <<>>, <<>>) /\ <<>> \in Seq(Chars)
<1> DEFINE run == [k \in 0 .. 0 |-> [fmt |-> <<>>, args |-> <<>>, text |-> <<>>]]
<1>1. run \in [0 .. 0 -> CallRecord] /\ 0 \in Nat
  BY DEF CallRecord
<1>2. /\ run[0] = [fmt |-> <<>>, args |-> <<>>, text |-> <<>>]
      /\ \A k \in 0 .. 0 - 1 : Turn(run[k], run[k + 1])
      /\ run[0].fmt = <<>> /\ run[0].text = <<>>
  OBVIOUS
<1> HIDE DEF run
<1>3. \E r \in [0 .. 0 -> CallRecord] :
        /\ r[0] = [fmt |-> <<>>, args |-> <<>>, text |-> <<>>]
        /\ \A k \in 0 .. 0 - 1 : Turn(r[k], r[k + 1])
        /\ r[0].fmt = <<>> /\ r[0].text = <<>>
  BY <1>1, <1>2, Zenon
<1>4. Renders(<<>>, <<>>, <<>>)
  BY <1>1, <1>3, Zenon DEF Renders
<1>5. QED
  BY <1>4

(* A turn in front of a run. *)
LEMMA RendersBack ==
  ASSUME NEW x \in CallRecord, NEW y \in CallRecord, Turn(x, y),
         Renders(y.fmt, y.args, y.text)
  PROVE  Renders(x.fmt, x.args, x.text)
<1>0. PICK n \in Nat : \E run \in [0 .. n -> CallRecord] :
        /\ run[0] = [fmt |-> y.fmt, args |-> y.args, text |-> y.text]
        /\ \A k \in 0 .. n - 1 : Turn(run[k], run[k + 1])
        /\ run[n].fmt = <<>> /\ run[n].text = <<>>
  BY DEF Renders
<1>1. PICK run \in [0 .. n -> CallRecord] :
        /\ run[0] = [fmt |-> y.fmt, args |-> y.args, text |-> y.text]
        /\ \A k \in 0 .. n - 1 : Turn(run[k], run[k + 1])
        /\ run[n].fmt = <<>> /\ run[n].text = <<>>
  BY <1>0
<1>2. /\ y = [fmt |-> y.fmt, args |-> y.args, text |-> y.text]
      /\ x = [fmt |-> x.fmt, args |-> x.args, text |-> x.text]
  BY DEF CallRecord
<1> DEFINE m == n + 1
           longer == [k \in 0 .. m |-> IF k = 0 THEN x ELSE run[k - 1]]
<1>3. m \in Nat /\ longer \in [0 .. m -> CallRecord]
  OBVIOUS
<1>4. ASSUME NEW k \in 0 .. m - 1
      PROVE  Turn(longer[k], longer[k + 1])
  <2>1. CASE k = 0
    <3>1. longer[k] = x /\ longer[k + 1] = y
      BY <1>1, <1>2, <2>1
    <3>2. QED
      BY <3>1
  <2>2. CASE k # 0
    <3>1. k - 1 \in 0 .. n - 1 /\ longer[k] = run[k - 1] /\ longer[k + 1] = run[(k - 1) + 1]
      BY <2>2
    <3>2. QED
      BY <1>1, <3>1
  <2>3. QED
    BY <2>1, <2>2
<1>5. longer[0] = x /\ longer[m] = run[n]
  OBVIOUS
<1> HIDE DEF longer, m
<1>6. /\ longer[0] = [fmt |-> x.fmt, args |-> x.args, text |-> x.text]
      /\ longer[m].fmt = <<>> /\ longer[m].text = <<>>
  BY <1>1, <1>2, <1>5
<1>7. QED
  BY <1>3, <1>4, <1>6 DEF Renders

(* Every format has arguments and a text: the theorems speak of every call *)
(* that is made with the arguments its format asks for.                    *)
LEMMA EveryFormatKnown ==
  ASSUME NEW f \in Seq(Chars)
  PROVE  \E a \in Seq(Arg), t \in Seq(Chars) : Known([fmt |-> f, args |-> a, text |-> t])
<1> DEFINE HasText(g) == \E a \in Seq(Arg), t \in Seq(Chars) :
                            Known([fmt |-> g, args |-> a, text |-> t])
           S == {n \in Nat : \A g \in Seq(Chars) : Len(g) <= n => HasText(g)}
<1>1. HasText(<<>>)
  <2>1. [fmt |-> <<>>, args |-> <<>>, text |-> <<>>] \in CallRecord
    BY DEF CallRecord
  <2>2. Known([fmt |-> <<>>, args |-> <<>>, text |-> <<>>])
    BY <2>1, NoCall DEF Known
  <2>3. <<>> \in Seq(Arg) /\ <<>> \in Seq(Chars)
    OBVIOUS
  <2>4. QED
    BY <2>2, <2>3
<1>2. ASSUME NEW x \in CallRecord, NEW a \in Seq(Arg), NEW t \in Seq(Chars),
             NEW g \in Seq(Chars), Known([fmt |-> g, args |-> a, text |-> t]),
             Turn(x, [fmt |-> g, args |-> a, text |-> t])
      PROVE  HasText(x.fmt)
  <2> DEFINE y == [fmt |-> g, args |-> a, text |-> t]
  <2>1. y \in CallRecord /\ Renders(y.fmt, y.args, y.text) /\ Turn(x, y)
    BY <1>2 DEF Known
  <2>2. Renders(x.fmt, x.args, x.text)
    BY <2>1, RendersBack
  <2>3. /\ x = [fmt |-> x.fmt, args |-> x.args, text |-> x.text]
        /\ x.args \in Seq(Arg) /\ x.text \in Seq(Chars)
    BY DEF CallRecord
  <2>4. Known(x)
    BY <2>2 DEF Known
  <2>5. QED
    BY <2>3, <2>4
<1> HIDE DEF HasText
<1>3. 0 \in S
  BY <1>1
<1>4. ASSUME NEW n \in Nat, n \in S
      PROVE  n + 1 \in S
  <2> SUFFICES ASSUME NEW g \in Seq(Chars), Len(g) <= n + 1, g # <<>>
               PROVE  HasText(g)
    BY <1>1
  <2>1. CASE ~ (Head(g) = "%" /\ Len(g) > 1)
    <3>1. Tail(g) \in Seq(Chars) /\ Len(Tail(g)) <= n /\ Head(g) \in Chars
      OBVIOUS
    <3>2. PICK a \in Seq(Arg), t \in Seq(Chars) : Known([fmt |-> Tail(g), args |-> a, text |-> t])
      BY <1>4, <3>1 DEF HasText
    <3> DEFINE x == [fmt |-> g, args |-> a, text |-> <<Head(g)>> \o t]
    <3>3. x \in CallRecord
      BY <3>1 DEF CallRecord
    <3>4. Turn(x, [fmt |-> Tail(g), args |-> a, text |-> t])
      BY <2>1 DEF Turn
    <3>5. HasText(x.fmt)
      BY <1>2, <3>1, <3>2, <3>3, <3>4
    <3>6. QED
      BY <3>5
  <2>2. CASE Head(g) = "%" /\ Len(g) > 1
    <3> DEFINE h == SubSeq(g, 3, Len(g))
    <3>1. h \in Seq(Chars) /\ Len(h) <= n /\ g[2] \in Chars
      <4>1. h \in Seq(Chars) /\ Len(h) = IF 3 <= Len(g) THEN Len(g) - 2 ELSE 0
        BY <2>2
      <4>2. QED
        BY <2>2, <4>1
    <3> HIDE DEF h
    <3>2. PICK a \in Seq(Arg), t \in Seq(Chars) : Known([fmt |-> h, args |-> a, text |-> t])
      BY <1>4, <3>1 DEF HasText
    <3>3. CASE g[2] \in Conversions
      <4>1. PICK v \in Arg : Takes(g[2], v)
        <5>1. Digit(0) \in Chars /\ <<>> \in Seq(Chars) /\ 0 \in Word
          BY DigitChar, WordSize DEF Word
        <5>2. {Digit(0), <<>>, 0} \subseteq Arg
          BY <5>1 DEF Arg
        <5>3. QED
          BY <3>3, <5>1, <5>2 DEF Takes, Conversions
      <4> DEFINE s == Converted(g[2], v)
      <4>2. s \in Seq(Chars)
        BY <3>3, <4>1, ConvertedText
      <4> DEFINE b == <<v>> \o a
                 x == [fmt |-> g, args |-> b, text |-> s \o t]
      <4>3. b \in Seq(Arg) /\ b # <<>> /\ Head(b) = v /\ Tail(b) = a
        <5>1. <<v>> \in Seq(Arg) /\ Len(<<v>>) = 1 /\ <<v>>[1] = v
          BY <4>1
        <5>2. /\ b \in Seq(Arg) /\ Len(b) = 1 + Len(a) /\ b[1] = v
              /\ \A k \in 1 .. Len(a) : b[k + 1] = a[k]
          BY <5>1
        <5> HIDE DEF b
        <5>3. b # <<>> /\ Head(b) = v
          BY <5>2
        <5>4. /\ Tail(b) \in Seq(Arg) /\ Len(Tail(b)) = Len(a)
              /\ \A k \in 1 .. Len(a) : Tail(b)[k] = a[k]
          BY <5>2, <5>3, HeadTailProperties
        <5>5. Tail(b) = a
          BY <5>4, SeqEqual
        <5>6. QED
          BY <5>2, <5>3, <5>5
      <4>4. s = Converted(g[2], Head(b)) /\ Takes(g[2], Head(b))
        BY <4>1, <4>3
      <4> HIDE DEF s, b
      <4>5. x \in CallRecord
        BY <4>2, <4>3 DEF CallRecord
      <4>6. Turn(x, [fmt |-> h, args |-> a, text |-> t])
        BY <2>2, <3>3, <4>3, <4>4, Zenon DEF Turn, h
      <4>7. HasText(x.fmt)
        BY <1>2, <3>1, <3>2, <4>5, <4>6
      <4>8. QED
        BY <4>7
    <3>4. CASE g[2] \notin Conversions
      <4> DEFINE x == [fmt |-> g, args |-> a, text |-> <<g[2]>> \o t]
      <4>1. x \in CallRecord
        BY <3>1 DEF CallRecord
      <4>2. Turn(x, [fmt |-> h, args |-> a, text |-> t])
        BY <2>2, <3>4 DEF Turn, h
      <4>3. HasText(x.fmt)
        BY <1>2, <3>1, <3>2, <4>1, <4>2
      <4>4. QED
        BY <4>3
    <3>5. QED
      BY <3>3, <3>4
  <2>3. QED
    BY <2>1, <2>2
<1> HIDE DEF S
<1>5. \A n \in Nat : n \in S
  BY <1>3, <1>4, Induction
<1>6. HasText(f)
  BY <1>5 DEF S
<1>7. QED
  BY <1>6 DEF HasText

LEMMA InitInv == Init => IInv
<1> SUFFICES ASSUME Init PROVE IInv
  OBVIOUS
<1>1. /\ __log_out = SERIAL /\ pc = "idle" /\ fmt = <<>> /\ args = <<>> /\ string = <<>>
      /\ todo = <<>> /\ depth \in Depths /\ holding = <<>> /\ shift = <<>> /\ line = <<>>
      /\ shown = <<>> /\ meant = [out \in {SERIAL, TERMINAL} |-> <<>>]
      /\ calls = 0 /\ exceptions = 0
  BY DEF Init
<1>2. Sent = <<>>
  BY <1>1 DEF Sent
<1>3. depth \in Nat \ {0} /\ MaxCalls \in Nat /\ MaxExceptions \in Nat
  BY <1>1, Distinct, LogAssumption
<1>4. TypeInv
  <2>1. TypeOK
    BY <1>1, <1>3 DEF TypeOK
  <2>2. meant \in [{SERIAL, TERMINAL} -> Seq(Chars)]
    BY <1>1
  <2>3. QED
    BY <1>1, <2>1, <2>2 DEF TypeInv
<1>5. ControlInv
  BY <1>1 DEF ControlInv
<1>6. \A out \in {SERIAL, TERMINAL} : Given(out) = <<>> /\ meant[out] = <<>>
  BY <1>1, <1>2, NothingKept DEF Given
<1>7. Renders(<<>>, <<>>, <<>>)
  BY NoCall
<1>8. TextInv
  <2>1. __log_out \in {SERIAL, TERMINAL} /\ <<>> \in Seq(Chars)
    BY <1>1
  <2>2. meant[__log_out] = Given(__log_out) \o (string \o <<>>)
    BY <1>1, <1>6
  <2>3. QED
    BY <1>1, <1>6, <1>7, <2>1, <2>2 DEF TextInv
<1>9. ReturnInv
  BY <1>1, <1>2 DEF ReturnInv, ReturnLast, ReturnsKept
<1>10. QED
  BY <1>4, <1>5, <1>8, <1>9 DEF IInv

(* A call that is begun. *)
LEMMA Begun ==
  ASSUME TypeInv, NEW call, Known(call), Begin(call)
  PROVE  /\ pc = "idle" /\ pc' = "format" /\ fmt' = call.fmt /\ args' = call.args
         /\ fmt' \in Seq(Chars) /\ args' \in Seq(Arg) /\ call.text \in Seq(Chars)
         /\ UNCHANGED <<__log_out, string, uart, shown>>
         /\ meant' = [meant EXCEPT ![__log_out] = meant[__log_out] \o call.text]
         /\ meant' \in [{SERIAL, TERMINAL} -> Seq(Chars)]
<1>1. /\ call.fmt \in Seq(Chars) /\ call.args \in Seq(Arg) /\ call.text \in Seq(Chars)
  BY DEF Known, CallRecord
<1>2. /\ pc = "idle" /\ pc' = "format" /\ fmt' = call.fmt /\ args' = call.args
      /\ UNCHANGED <<__log_out, string, uart, shown>>
      /\ meant' = [meant EXCEPT ![__log_out] = meant[__log_out] \o call.text]
  BY DEF Begin
<1>3. meant \in [{SERIAL, TERMINAL} -> Seq(Chars)] /\ __log_out \in {SERIAL, TERMINAL}
  BY DEF TypeInv, TypeOK
<1>4. meant[__log_out] \o call.text \in Seq(Chars)
  BY <1>1, <1>3
<1>5. meant' \in [{SERIAL, TERMINAL} -> Seq(Chars)]
  BY <1>2, <1>3, <1>4
<1>6. QED
  BY <1>1, <1>2, <1>5

(* The report of an exception. *)
LEMMA Reported ==
  ASSUME CallsKnown, TypeInv, Report
  PROVE  /\ Known(todo[1]) /\ Begin(todo[1]) /\ todo # <<>>
         /\ todo' \in Seq(CallRecord) /\ \A j \in DOMAIN todo' : Known(todo'[j])
         /\ UNCHANGED <<calls, exceptions>>
<1>1. todo # <<>> /\ Begin(Head(todo)) /\ todo' = Tail(todo) /\ UNCHANGED <<calls, exceptions>>
  BY DEF Report, counters
<1>2. todo \in Seq(CallRecord) /\ \A j \in DOMAIN todo : Known(todo[j])
  BY DEF TypeInv
<1>3. Head(todo) = todo[1] /\ 1 \in DOMAIN todo
  BY <1>1, <1>2
<1>4. todo' \in Seq(CallRecord)
  BY <1>1, <1>2
<1>5. ASSUME NEW j \in DOMAIN todo'
      PROVE  Known(todo'[j])
  <2>1. j + 1 \in DOMAIN todo /\ todo'[j] = todo[j + 1]
    BY <1>1, <1>2
  <2>2. QED
    BY <1>2, <2>1
<1>6. QED
  BY <1>1, <1>2, <1>3, <1>4, <1>5

(* An exception: what is to be printed, and what was given out. *)
LEMMA Interrupted ==
  ASSUME CallsKnown, TypeInv, TextInv, Exception
  PROVE  /\ pc' = "idle" /\ fmt' = <<>> /\ args' = <<>> /\ string' = <<>>
         /\ UNCHANGED <<__log_out, uart, shown, calls>>
         /\ exceptions' = exceptions + 1 /\ exceptions' \in 1 .. MaxExceptions
         /\ todo' \in Seq(CallRecord) /\ \A j \in DOMAIN todo' : Known(todo'[j])
         /\ todo' # <<>> => todo'[1].fmt # <<>> /\ Head(todo'[1].fmt) = LF
         /\ meant' \in [{SERIAL, TERMINAL} -> Seq(Chars)]
         /\ \A out \in {SERIAL, TERMINAL} : meant'[out] = Given(out)
<1>1. /\ exceptions < MaxExceptions
      /\ pc' = "idle" /\ fmt' = <<>> /\ args' = <<>> /\ string' = <<>>
      /\ UNCHANGED <<__log_out, uart, shown, calls>>
      /\ exceptions' = exceptions + 1
      /\ meant' = [out \in DOMAIN meant |-> Given(out)]
      /\ \E k \in DOMAIN Reports : todo' = Reports[k]
  BY DEF Exception
<1>2. exceptions \in 0 .. MaxExceptions /\ MaxExceptions \in Nat
      /\ DOMAIN meant = {SERIAL, TERMINAL}
  BY LogAssumption DEF TypeInv, TypeOK
<1>3. /\ todo' \in Seq(CallRecord) /\ \A j \in DOMAIN todo' : Known(todo'[j])
      /\ todo' # <<>> => todo'[1].fmt # <<>> /\ Head(todo'[1].fmt) = LF
  BY <1>1 DEF CallsKnown
<1>4. /\ meant' \in [{SERIAL, TERMINAL} -> Seq(Chars)]
      /\ \A out \in {SERIAL, TERMINAL} : meant'[out] = Given(out)
  BY <1>1, <1>2 DEF TextInv
<1>5. exceptions' \in 1 .. MaxExceptions
  BY <1>1, <1>2
<1>6. QED
  BY <1>1, <1>3, <1>4, <1>5

(* Every step keeps the characters where they belong. *)
LEMMA TypeStep ==
  ASSUME CallsKnown, TypeInv, ControlInv, TextInv, [Next]_vars
  PROVE  TypeInv'
<1>1. /\ __log_out \in {SERIAL, TERMINAL}
      /\ pc \in {"idle", "format", "wait", "return", "write", "halt"}
      /\ pc \in {"wait", "return", "write"} => string # <<>>
      /\ depth \in Depths /\ depth \in Nat \ {0}
      /\ Len(holding) <= depth /\ Len(shift) <= 1
      /\ DOMAIN meant = {SERIAL, TERMINAL}
      /\ calls \in 0 .. MaxCalls /\ exceptions \in 0 .. MaxExceptions
      /\ fmt \in Seq(Chars) /\ args \in Seq(Arg) /\ string \in Seq(Chars)
      /\ todo \in Seq(CallRecord) /\ \A j \in DOMAIN todo : Known(todo[j])
      /\ holding \in Seq(Output) /\ shift \in Seq(Output) /\ line \in Seq(Output)
      /\ shown \in Seq(Chars)
      /\ meant \in [{SERIAL, TERMINAL} -> Seq(Chars)]
      /\ MaxCalls \in Nat /\ MaxExceptions \in Nat
  BY Distinct, LogAssumption DEF TypeInv, TypeOK
<1>2. CASE UNCHANGED vars
  BY <1>1, <1>2 DEF vars, doprnt, uart, counters, TypeInv, TypeOK
<1>3. ASSUME NEW k \in DOMAIN Calls, LOG(Calls[k])
      PROVE  TypeInv'
  <2>1. Known(Calls[k]) /\ Begin(Calls[k])
        /\ calls < MaxCalls /\ calls' = calls + 1 /\ UNCHANGED <<todo, exceptions>>
    BY <1>3 DEF LOG, CallsKnown
  <2>2. /\ pc' = "format" /\ fmt' \in Seq(Chars) /\ args' \in Seq(Arg)
        /\ UNCHANGED <<__log_out, string, depth, holding, shift, line, shown>>
        /\ meant' \in [{SERIAL, TERMINAL} -> Seq(Chars)] /\ DOMAIN meant' = {SERIAL, TERMINAL}
    BY <2>1, Begun DEF uart
  <2>3. QED
    BY <1>1, <2>1, <2>2 DEF TypeInv, TypeOK
<1>4. ASSUME NEW out \in {SERIAL, TERMINAL}, log_set_output(out)
      PROVE  TypeInv'
  BY <1>1, <1>4 DEF log_set_output, doprnt, uart, counters, TypeInv, TypeOK
<1>5. CASE __doprnt
  <2>1. /\ fmt' \in Seq(Chars) /\ args' \in Seq(Arg) /\ string' \in Seq(Chars)
        /\ UNCHANGED <<depth, holding, shift, line, shown, meant, __log_out, todo, pc, calls,
                       exceptions>>
        /\ pc = "format"
    BY <1>5, DoprntTurn DEF uart, counters, __doprnt
  <2>2. QED
    BY <1>1, <2>1 DEF TypeInv, TypeOK
<1>6. CASE Return \/ PutSerial \/ Wait \/ Halt
  <2>1. /\ pc' \in {"idle", "wait", "return", "write", "halt"}
        /\ pc' \in {"wait", "return", "write"} => string # <<>>
        /\ UNCHANGED <<__log_out, fmt, args, string, todo, depth, holding, shift, line, shown,
                       meant, calls, exceptions>>
    BY <1>1, <1>6
       DEF Return, PutSerial, Wait, SkipWait, Halt, doprnt, uart, counters
  <2>2. QED
    BY <1>1, <2>1 DEF TypeInv, TypeOK
<1>7. CASE __tvga_putch
  <2>1. /\ string # <<>> /\ shown' = Append(shown, Head(string)) /\ string' = Tail(string)
        /\ UNCHANGED <<__log_out, pc, fmt, args, todo, depth, holding, shift, line, meant,
                       calls, exceptions>>
        /\ pc = "format"
    BY <1>7 DEF __tvga_putch, uart, counters
  <2>2. shown' \in Seq(Chars) /\ string' \in Seq(Chars)
    BY <1>1, <2>1
  <2>3. QED
    BY <1>1, <2>1, <2>2 DEF TypeInv, TypeOK
<1>8. CASE WriteReturn
  <2>1. /\ pc = "return" /\ outb(CR) /\ pc' = "write"
        /\ UNCHANGED <<__log_out, fmt, args, string, todo, shown, meant, calls, exceptions>>
    BY <1>8 DEF WriteReturn, doprnt, counters
  <2>2. holding = <<>> /\ CR \in Output
    BY <2>1 DEF ControlInv, Output
  <2>3. /\ UNCHANGED <<depth, shift, line>>
        /\ holding' \in Seq(Output) /\ Len(holding') <= depth
    BY <2>1, <2>2, Written
  <2>4. QED
    BY <1>1, <2>1, <2>3 DEF TypeInv, TypeOK
<1>9. CASE Write
  <2>1. /\ pc = "write" /\ outb(Head(string)) /\ pc' = "format" /\ string' = Tail(string)
        /\ UNCHANGED <<__log_out, fmt, args, todo, shown, meant, calls, exceptions>>
    BY <1>9 DEF Write, counters
  <2>2. /\ holding = <<>> \/ holding = <<CR>>
        /\ string # <<>> /\ Head(string) \in Output /\ string' \in Seq(Chars)
    BY <1>1, <2>1 DEF ControlInv, Output
  <2>3. /\ UNCHANGED <<depth, shift, line>>
        /\ holding' \in Seq(Output) /\ Len(holding') <= depth
    BY <2>1, <2>2, Written
  <2>4. QED
    BY <1>1, <2>1, <2>2, <2>3 DEF TypeInv, TypeOK
<1>10. CASE Report
  <2>1. /\ Known(todo[1]) /\ Begin(todo[1]) /\ UNCHANGED <<calls, exceptions>>
        /\ todo' \in Seq(CallRecord) /\ \A j \in DOMAIN todo' : Known(todo'[j])
    BY <1>10, Reported
  <2>2. /\ pc' = "format" /\ fmt' \in Seq(Chars) /\ args' \in Seq(Arg)
        /\ UNCHANGED <<__log_out, string, depth, holding, shift, line, shown>>
        /\ meant' \in [{SERIAL, TERMINAL} -> Seq(Chars)] /\ DOMAIN meant' = {SERIAL, TERMINAL}
    BY <2>1, Begun DEF uart
  <2>3. QED
    BY <1>1, <2>1, <2>2 DEF TypeInv, TypeOK
<1>11. CASE Exception
  <2>1. /\ pc' = "idle" /\ fmt' = <<>> /\ args' = <<>> /\ string' = <<>>
        /\ UNCHANGED <<__log_out, depth, holding, shift, line, shown, calls>>
        /\ exceptions' \in 0 .. MaxExceptions
        /\ todo' \in Seq(CallRecord) /\ \A j \in DOMAIN todo' : Known(todo'[j])
        /\ meant' \in [{SERIAL, TERMINAL} -> Seq(Chars)] /\ DOMAIN meant' = {SERIAL, TERMINAL}
    BY <1>1, <1>11, Interrupted DEF uart
  <2>2. QED
    BY <1>1, <2>1 DEF TypeInv, TypeOK
<1>12. CASE Transmit
  <2>1. UNCHANGED <<__log_out, pc, fmt, args, string, todo, depth, shown, meant, calls,
                    exceptions>>
    BY <1>12 DEF Transmit, Load, ShiftOut, doprnt, counters
  <2>2. /\ holding' \in Seq(Output) /\ shift' \in Seq(Output) /\ line' \in Seq(Output)
        /\ Len(holding') <= Len(holding) /\ Len(shift') <= 1
    BY <1>12, TransmitKeepsOrder
  <2>3. Len(holding') <= depth
    BY <1>1, <2>2
  <2>4. QED
    BY <1>1, <2>1, <2>2, <2>3 DEF TypeInv, TypeOK
<1>13. QED
  BY <1>2, <1>3, <1>4, <1>5, <1>6, <1>7, <1>8, <1>9, <1>10, <1>11, <1>12 DEF Next, Kernel

(* Every step keeps what is known of the processor. *)
LEMMA ControlStep ==
  ASSUME CallsKnown, TypeInv, ControlInv, TextInv, [Next]_vars
  PROVE  ControlInv'
<1>1. exceptions \in Nat
  BY LogAssumption DEF TypeInv, TypeOK
<1>2. CASE UNCHANGED vars
  BY <1>2 DEF vars, doprnt, uart, counters, ControlInv
<1>3. ASSUME NEW k \in DOMAIN Calls, LOG(Calls[k])
      PROVE  ControlInv'
  BY <1>3 DEF LOG, Begin, uart, ControlInv
<1>4. ASSUME NEW out \in {SERIAL, TERMINAL}, log_set_output(out)
      PROVE  ControlInv'
  BY <1>4 DEF log_set_output, doprnt, uart, counters, ControlInv
<1>5. CASE __doprnt
  BY <1>5 DEF __doprnt, uart, counters, ControlInv
<1>6. CASE Return \/ PutSerial \/ Halt
  BY <1>6 DEF Return, PutSerial, Halt, doprnt, uart, counters, ControlInv
<1>7. CASE Wait
  BY <1>7 DEF Wait, SkipWait, com_is_transmit_empty, doprnt, uart, counters, ControlInv
<1>8. CASE __tvga_putch
  BY <1>8 DEF __tvga_putch, uart, counters, ControlInv
<1>9. CASE WriteReturn
  <2>1. /\ pc = "return" /\ outb(CR) /\ pc' = "write"
        /\ UNCHANGED <<__log_out, fmt, args, string, todo, exceptions>>
    BY <1>9 DEF WriteReturn, doprnt, counters
  <2>2. holding = <<>> /\ CR \in Output
    BY <2>1 DEF ControlInv, Output
  <2>3. holding' = <<CR>>
    BY <2>1, <2>2, Written
  <2>4. QED
    BY <2>1, <2>3 DEF ControlInv
<1>10. CASE Write
  BY <1>10 DEF Write, counters, ControlInv
<1>11. CASE Report
  BY <1>11 DEF Report, Begin, counters, uart, ControlInv
<1>12. CASE Exception
  BY <1>1, <1>12 DEF Exception, uart, ControlInv
<1>13. CASE Transmit
  <2>1. UNCHANGED <<__log_out, pc, fmt, string, todo, exceptions>>
    BY <1>13 DEF Transmit, Load, ShiftOut, doprnt, counters
  <2>2. /\ holding = <<CR>> => holding' \in {<<>>, <<CR>>}
        /\ holding = <<>> => holding' = <<>>
    <3>1. Len(holding') <= Len(holding) /\ holding' \in Seq(Output)
      BY <1>13, TransmitKeepsOrder
    <3>2. holding = <<>> => holding' = <<>>
      BY <3>1
    <3>3. QED
      BY <1>13, <3>2, TransmitKeepsOrder
  <2>3. QED
    BY <2>1, <2>2 DEF ControlInv
<1>14. QED
  BY <1>2, <1>3, <1>4, <1>5, <1>6, <1>7, <1>8, <1>9, <1>10, <1>11, <1>12, <1>13
     DEF Next, Kernel

(* A character that is put was the first one left. *)
LEMMA PutOne ==
  ASSUME NEW g \in Seq(Chars), NEW s \in Seq(Chars), NEW t \in Seq(Chars), s # <<>>
  PROVE  g \o (s \o t) = Append(g, Head(s)) \o (Tail(s) \o t)
<1> DEFINE c == Head(s)
           r == Tail(s)
<1>1. s = <<c>> \o r /\ c \in Chars /\ r \in Seq(Chars)
  OBVIOUS
<1>2. <<c>> \in Seq(Chars)
  BY <1>1
<1>3. Append(g, c) = g \o <<c>>
  BY <1>1
<1> HIDE DEF c, r
<1>4. (<<c>> \o r) \o t = <<c>> \o (r \o t)
  BY <1>1, <1>2, ConcatAssociative
<1>5. r \o t \in Seq(Chars)
  BY <1>1, ConcatProperties
<1>6. g \o (<<c>> \o (r \o t)) = (g \o <<c>>) \o (r \o t)
  <2>1. \A u \in Seq(Chars) : (g \o <<c>>) \o u = g \o (<<c>> \o u)
    BY <1>2, ConcatAssociative, SMTT(30)
  <2> DEFINE u == r \o t
  <2>2. u \in Seq(Chars)
    BY <1>5
  <2> HIDE DEF u
  <2>3. (g \o <<c>>) \o u = g \o (<<c>> \o u)
    BY <2>1, <2>2
  <2>4. QED
    BY <2>3 DEF u
<1>7. g \o (s \o t) = Append(g, c) \o (r \o t)
  BY <1>1, <1>3, <1>4, <1>6
<1>8. QED
  BY <1>7 DEF c, r

(* What com_write writes, up to returns. *)
LEMMA WrittenText ==
  ASSUME TypeInv, NEW char \in Output, outb(char), holding = <<>> \/ holding = <<CR>>
  PROVE  WithoutReturns(Sent)' = IF char = CR THEN WithoutReturns(Sent)
                                 ELSE Append(WithoutReturns(Sent), char)
<1>1. CASE Sent' = Append(Sent, char)
  <2>1. Sent \in Seq(Output)
    BY Written
  <2>2. WithoutReturns(Sent)' = WithoutReturns(Append(Sent, char))
    BY <1>1
  <2>3. QED
    BY <2>1, <2>2, LastKept
<1>2. CASE \E s \in Seq(Output) : Sent = Append(s, CR) /\ Sent' = Append(s, char)
  <2>1. PICK s \in Seq(Output) : Sent = Append(s, CR) /\ Sent' = Append(s, char)
    BY <1>2
  <2>2. WithoutReturns(Append(s, CR)) = WithoutReturns(s)
    BY LastKept DEF Output
  <2>3. WithoutReturns(Append(s, char)) =
          IF char = CR THEN WithoutReturns(s) ELSE Append(WithoutReturns(s), char)
    BY LastKept
  <2>4. QED
    BY <2>1, <2>2, <2>3
<1>3. QED
  BY <1>1, <1>2, Written

(* Every step keeps the texts in order. *)
LEMMA TextStep ==
  ASSUME CallsKnown, TypeInv, ControlInv, TextInv, [Next]_vars
  PROVE  TextInv'
<1>1. /\ __log_out \in {SERIAL, TERMINAL}
      /\ fmt \in Seq(Chars) /\ args \in Seq(Arg) /\ string \in Seq(Chars)
      /\ meant \in [{SERIAL, TERMINAL} -> Seq(Chars)]
      /\ \A out \in {SERIAL, TERMINAL} : Given(out) \in Seq(Chars)
      /\ \A out \in {SERIAL, TERMINAL} \ {__log_out} : meant[out] = Given(out)
  BY DEF TypeInv, TypeOK, TextInv
<1>2. PICK t \in Seq(Chars) :
        Renders(fmt, args, t) /\ meant[__log_out] = Given(__log_out) \o (string \o t)
  BY DEF TextInv
<1>3. pc \in {"idle", "halt"} =>
        /\ fmt = <<>> /\ string = <<>> /\ t = <<>>
        /\ \A out \in {SERIAL, TERMINAL} : meant[out] = Given(out)
  <2>1. ASSUME fmt = <<>>, string = <<>>
        PROVE  t = <<>> /\ \A out \in {SERIAL, TERMINAL} : meant[out] = Given(out)
    <3>1. t = <<>>
      BY <1>2, <2>1, RenderedEnd
    <3>2. Given(__log_out) \o (string \o t) = Given(__log_out)
      BY <1>1, <2>1, <3>1
    <3>3. QED
      BY <1>1, <1>2, <3>1, <3>2
  <2>2. QED
    BY <2>1 DEF ControlInv
(* A step that leaves the outputs, their texts and what is left alone. *)
<1>4. ASSUME UNCHANGED <<__log_out, fmt, args, string, uart, shown, meant>>
      PROVE  TextInv'
  <2>1. \A out \in {SERIAL, TERMINAL} : Given(out)' = Given(out)
    BY <1>4, OutputsKept
  <2>2. Renders(fmt', args', t) /\ meant'[__log_out'] = Given(__log_out)' \o (string' \o t)
    BY <1>1, <1>2, <1>4, <2>1
  <2>3. QED
    BY <1>1, <1>4, <2>1, <2>2 DEF TextInv
<1>5. ASSUME NEW call, Known(call), Begin(call)
      PROVE  TextInv'
  <2>1. /\ pc = "idle" /\ fmt' = call.fmt /\ args' = call.args /\ call.text \in Seq(Chars)
        /\ UNCHANGED <<__log_out, string, uart, shown>>
        /\ meant' = [meant EXCEPT ![__log_out] = meant[__log_out] \o call.text]
    BY <1>5, Begun
  <2>2. \A out \in {SERIAL, TERMINAL} : Given(out)' = Given(out)
    BY <2>1, OutputsKept
  <2>3. Renders(fmt', args', call.text)
    BY <1>5, <2>1 DEF Known
  <2>4. meant'[__log_out] = Given(__log_out) \o (string \o call.text)
    <3>1. meant'[__log_out] = Given(__log_out) \o call.text
      BY <1>1, <1>3, <2>1
    <3>2. string \o call.text = call.text
      BY <1>3, <2>1
    <3>3. QED
      BY <3>1, <3>2
  <2>5. \A out \in {SERIAL, TERMINAL} \ {__log_out} : meant'[out] = Given(out)
    BY <1>1, <2>1
  <2>6. QED
    BY <1>1, <2>1, <2>2, <2>3, <2>4, <2>5 DEF TextInv
<1>6. ASSUME NEW out \in {SERIAL, TERMINAL}, log_set_output(out)
      PROVE  TextInv'
  <2>1. /\ pc = "idle" /\ __log_out' = out
        /\ UNCHANGED <<fmt, args, string, uart, shown, meant>>
    BY <1>6 DEF log_set_output, doprnt
  <2>2. \A o \in {SERIAL, TERMINAL} : Given(o)' = Given(o)
    BY <2>1, OutputsKept
  <2>3. meant'[out] = Given(out) \o (string' \o t)
    <3>1. string' \o t = <<>> /\ Given(out) \o <<>> = Given(out)
      BY <1>1, <1>3, <2>1
    <3>2. QED
      BY <1>3, <2>1, <3>1
  <2>4. QED
    BY <1>1, <1>2, <1>3, <2>1, <2>2, <2>3 DEF TextInv
<1>7. CASE __doprnt
  <2>1. /\ UNCHANGED <<uart, shown, meant, __log_out>>
        /\ \E u \in Seq(Chars) :
             Renders(fmt', args', u) /\ meant[__log_out] = Given(__log_out) \o (string' \o u)
    BY <1>7, DoprntTurn
  <2>2. \A out \in {SERIAL, TERMINAL} : Given(out)' = Given(out)
    BY <2>1, OutputsKept
  <2>3. QED
    BY <1>1, <2>1, <2>2 DEF TextInv
<1>8. CASE __tvga_putch
  <2>1. /\ string # <<>> /\ __log_out # SERIAL
        /\ shown' = Append(shown, Head(string)) /\ string' = Tail(string)
        /\ UNCHANGED <<__log_out, fmt, args, uart, meant>>
    BY <1>8 DEF __tvga_putch
  <2>2. UNCHANGED <<depth, holding, shift, line>> /\ __log_out = TERMINAL
    BY <1>1, <2>1 DEF uart
  <2>3. Given(SERIAL)' = Given(SERIAL)
    BY <2>2 DEF Given, Sent
  <2>4. Given(TERMINAL) = shown /\ Given(TERMINAL)' = shown'
    BY Distinct DEF Given
  <2>5. Given(TERMINAL) \o (string \o t) = Given(TERMINAL)' \o (string' \o t)
    <3>1. PICK g \in Seq(Chars) : g = Given(TERMINAL)
      BY <1>1
    <3>2. g \o (string \o t) = Append(g, Head(string)) \o (Tail(string) \o t)
      BY <1>1, <2>1, PutOne, ZenonT(60)
    <3>3. Given(TERMINAL)' = Append(g, Head(string))
      BY <2>1, <2>4, <3>1
    <3>4. QED
      BY <2>1, <3>1, <3>2, <3>3
  <2>6. Given(TERMINAL)' \in Seq(Chars)
    BY <1>1, <2>1, <2>4
  <2>7. QED
    BY <1>1, <1>2, <2>1, <2>2, <2>3, <2>5, <2>6, Distinct DEF TextInv
<1>9. CASE WriteReturn
  <2>1. /\ pc = "return" /\ outb(CR)
        /\ UNCHANGED <<__log_out, fmt, args, string, shown, meant>>
    BY <1>9 DEF WriteReturn, doprnt
  <2>2. holding = <<>> /\ CR \in Output
    BY <2>1 DEF ControlInv, Output
  <2>3. WithoutReturns(Sent)' = WithoutReturns(Sent)
    BY <2>1, <2>2, WrittenText
  <2>4. \A out \in {SERIAL, TERMINAL} : Given(out)' = Given(out)
    BY <2>1, <2>3 DEF Given
  <2>5. QED
    BY <1>1, <1>2, <2>1, <2>4 DEF TextInv
<1>10. CASE Write
  <2>1. /\ pc = "write" /\ outb(Head(string)) /\ string' = Tail(string)
        /\ UNCHANGED <<__log_out, fmt, args, shown, meant>>
    BY <1>10 DEF Write
  <2>2. /\ string # <<>> /\ __log_out = SERIAL /\ (holding = <<>> \/ holding = <<CR>>)
    BY <2>1 DEF ControlInv, TypeInv, TypeOK
  <2>3. Head(string) \in Chars /\ Head(string) \in Output /\ Head(string) # CR
    BY <1>1, <2>2, Distinct DEF Output
  <2>4. WithoutReturns(Sent)' = Append(WithoutReturns(Sent), Head(string))
    BY <2>1, <2>2, <2>3, WrittenText
  <2>5. /\ Given(SERIAL)' = Append(Given(SERIAL), Head(string))
        /\ Given(TERMINAL)' = Given(TERMINAL)
    BY <2>1, <2>4, Distinct DEF Given
  <2>6. Given(SERIAL) \o (string \o t) = Given(SERIAL)' \o (string' \o t)
    <3>1. PICK g \in Seq(Chars) : g = Given(SERIAL)
      BY <1>1
    <3>2. g \o (string \o t) = Append(g, Head(string)) \o (Tail(string) \o t)
      BY <1>1, <2>2, PutOne, ZenonT(60)
    <3>3. QED
      BY <2>1, <2>5, <3>1, <3>2
  <2>7. Given(SERIAL)' \in Seq(Chars)
    BY <1>1, <2>3, <2>5
  <2>8. QED
    BY <1>1, <1>2, <2>1, <2>2, <2>5, <2>6, <2>7, Distinct DEF TextInv
<1>11. CASE Exception
  <2>1. /\ fmt' = <<>> /\ args' = <<>> /\ string' = <<>>
        /\ UNCHANGED <<__log_out, uart, shown>>
        /\ \A out \in {SERIAL, TERMINAL} : meant'[out] = Given(out)
    BY <1>11, Interrupted
  <2>2. \A out \in {SERIAL, TERMINAL} : Given(out)' = Given(out)
    BY <2>1, OutputsKept
  <2>3. Renders(<<>>, <<>>, <<>>) /\ <<>> \in Seq(Chars)
    BY NoCall
  <2>4. meant'[__log_out] = Given(__log_out) \o (<<>> \o <<>>)
    <3>1. <<>> \o <<>> = <<>> /\ Given(__log_out) \o <<>> = Given(__log_out)
      BY <1>1
    <3>2. QED
      BY <1>1, <2>1, <3>1
  <2>5. QED
    BY <1>1, <2>1, <2>2, <2>3, <2>4 DEF TextInv
<1>12. CASE Transmit
  <2>1. UNCHANGED <<__log_out, fmt, args, string, shown, meant>>
    BY <1>12 DEF Transmit, Load, ShiftOut, doprnt
  <2>2. Sent' = Sent
    BY <1>12, TransmitKeepsOrder
  <2>3. \A out \in {SERIAL, TERMINAL} : Given(out)' = Given(out)
    BY <2>1, <2>2 DEF Given
  <2>4. QED
    BY <1>1, <1>2, <2>1, <2>3 DEF TextInv
<1>13. CASE Return \/ PutSerial \/ Wait \/ Halt
  <2>1. UNCHANGED <<__log_out, fmt, args, string, uart, shown, meant>>
    BY <1>13 DEF Return, PutSerial, Wait, SkipWait, Halt, doprnt
  <2>2. QED
    BY <1>4, <2>1
<1>14. CASE UNCHANGED vars
  <2>1. UNCHANGED <<__log_out, fmt, args, string, uart, shown, meant>>
    BY <1>14 DEF vars, doprnt
  <2>2. QED
    BY <1>4, <2>1
<1>15. ASSUME NEW k \in DOMAIN Calls, LOG(Calls[k])
       PROVE  TextInv'
  <2>1. Known(Calls[k]) /\ Begin(Calls[k])
    BY <1>15 DEF LOG, CallsKnown
  <2>2. QED
    BY <1>5, <2>1
<1>16. CASE Report
  <2>1. Known(todo[1]) /\ Begin(todo[1])
    BY <1>16, Reported
  <2>2. QED
    BY <1>5, <2>1
<1>17. QED
  BY <1>6, <1>7, <1>8, <1>9, <1>10, <1>11, <1>12, <1>13, <1>14, <1>15, <1>16
     DEF Next, Kernel

(* The returns of the characters s, after ex exceptions, with a            *)
(* transmitter that takes d characters.                                    *)
KeptIn(s, ex, d) ==
  \A k \in DOMAIN s :
     /\ s[k] = CR /\ k < Len(s) => s[k + 1] = LF \/ (s[k + 1] = CR /\ ex > 0)
     /\ s[k] = LF /\ d > 1 => k > 1 /\ s[k - 1] = CR

LastIs(s, char) == s # <<>> /\ s[Len(s)] = char

(* One more character. *)
LEMMA KeptAppend ==
  ASSUME NEW s \in Seq(Output), NEW char \in Output, NEW ex, NEW d, KeptIn(s, ex, d),
         LastIs(s, CR) => char = LF \/ (char = CR /\ ex > 0),
         char = LF /\ d > 1 => LastIs(s, CR)
  PROVE  KeptIn(Append(s, char), ex, d)
<1> DEFINE t == Append(s, char)
<1>1. /\ t \in Seq(Output) /\ Len(t) = Len(s) + 1 /\ t[Len(s) + 1] = char
      /\ \A k \in 1 .. Len(s) : t[k] = s[k]
      /\ DOMAIN t = 1 .. Len(s) + 1 /\ DOMAIN s = 1 .. Len(s) /\ Len(s) \in Nat
  OBVIOUS
<1>2. Len(s) > 0 <=> s # <<>>
  OBVIOUS
<1> HIDE DEF t
<1>3. ASSUME NEW k \in 1 .. Len(s)
      PROVE  /\ t[k] = CR => t[k + 1] = LF \/ (t[k + 1] = CR /\ ex > 0)
             /\ t[k] = LF /\ d > 1 => k > 1 /\ t[k - 1] = CR
  <2>1. CASE k < Len(s)
    <3>1. k + 1 \in 1 .. Len(s) /\ k \in DOMAIN s /\ (k > 1 => k - 1 \in 1 .. Len(s))
      BY <1>1, <2>1
    <3>2. t[k] = s[k] /\ t[k + 1] = s[k + 1] /\ (k > 1 => t[k - 1] = s[k - 1])
      BY <1>1, <3>1
    <3>3. /\ s[k] = CR => s[k + 1] = LF \/ (s[k + 1] = CR /\ ex > 0)
          /\ s[k] = LF /\ d > 1 => k > 1 /\ s[k - 1] = CR
      BY <2>1, <3>1 DEF KeptIn
    <3>4. QED
      BY <3>2, <3>3
  <2>2. CASE k = Len(s)
    <3>1. t[k] = CR => LastIs(s, CR)
      BY <1>1, <1>2, <2>2 DEF LastIs
    <3>2. t[k + 1] = char
      BY <1>1, <2>2
    <3>3. t[k] = LF /\ d > 1 => k > 1 /\ t[k - 1] = CR
      <4>1. k \in DOMAIN s /\ t[k] = s[k] /\ (k > 1 => k - 1 \in 1 .. Len(s))
        BY <1>1
      <4>2. s[k] = LF /\ d > 1 => k > 1 /\ s[k - 1] = CR
        BY <4>1 DEF KeptIn
      <4>3. k > 1 => t[k - 1] = s[k - 1]
        BY <1>1, <4>1
      <4>4. QED
        BY <4>1, <4>2, <4>3
    <3>4. QED
      BY <3>1, <3>2, <3>3
  <2>3. k < Len(s) \/ k = Len(s)
    BY <1>1
  <2>4. QED
    BY <2>1, <2>2, <2>3
<1>4. char = LF /\ d > 1 => Len(s) + 1 > 1 /\ t[(Len(s) + 1) - 1] = CR
  BY <1>1, <1>2 DEF LastIs
<1>5. KeptIn(t, ex, d)
  BY <1>1, <1>3, <1>4 DEF KeptIn
<1>6. QED
  BY <1>5 DEF t

(* One character less. *)
LEMMA KeptButLast ==
  ASSUME NEW s \in Seq(Output), NEW char \in Output, NEW ex, NEW d,
         KeptIn(Append(s, char), ex, d)
  PROVE  KeptIn(s, ex, d)
<1> DEFINE t == Append(s, char)
<1>1. /\ Len(t) = Len(s) + 1 /\ \A k \in 1 .. Len(s) : t[k] = s[k]
      /\ DOMAIN t = 1 .. Len(s) + 1 /\ DOMAIN s = 1 .. Len(s) /\ Len(s) \in Nat
  OBVIOUS
<1>2. KeptIn(t, ex, d)
  OBVIOUS
<1> HIDE DEF t
<1>3. ASSUME NEW k \in 1 .. Len(s)
      PROVE  /\ s[k] = CR /\ k < Len(s) => s[k + 1] = LF \/ (s[k + 1] = CR /\ ex > 0)
             /\ s[k] = LF /\ d > 1 => k > 1 /\ s[k - 1] = CR
  <2>1. /\ t[k] = CR /\ k < Len(t) => t[k + 1] = LF \/ (t[k + 1] = CR /\ ex > 0)
        /\ t[k] = LF /\ d > 1 => k > 1 /\ t[k - 1] = CR
    BY <1>1, <1>2 DEF KeptIn
  <2>2. t[k] = s[k] /\ (k < Len(s) => t[k + 1] = s[k + 1]) /\ (k > 1 => t[k - 1] = s[k - 1])
    BY <1>1
  <2>3. QED
    BY <1>1, <2>1, <2>2
<1>4. QED
  BY <1>1, <1>3 DEF KeptIn

(* The last character of what com_write has written. *)
LEMMA WrittenLast ==
  ASSUME TypeInv, ReturnsKept, NEW char \in Output, outb(char),
         holding = <<>> \/ holding = <<CR>>,
         ReturnLast => char = LF \/ (char = CR /\ exceptions > 0),
         char = LF => ReturnLast,
         UNCHANGED exceptions
  PROVE  ReturnsKept' /\ (ReturnLast' <=> char = CR)
<1>1. KeptIn(Sent, exceptions, depth) /\ UNCHANGED depth /\ Sent \in Seq(Output)
  BY Written DEF KeptIn, ReturnsKept
<1>2. ReturnLast <=> LastIs(Sent, CR)
  BY DEF ReturnLast, LastIs
<1>3. KeptIn(Sent', exceptions, depth) /\ (LastIs(Sent', CR) <=> char = CR)
  <2>1. CASE Sent' = Append(Sent, char)
    <3>1. KeptIn(Append(Sent, char), exceptions, depth)
      BY <1>1, <1>2, KeptAppend
    <3>2. LastIs(Append(Sent, char), CR) <=> char = CR
      BY <1>1 DEF LastIs
    <3>3. QED
      BY <2>1, <3>1, <3>2
  <2>2. CASE depth = 1 /\ \E s \in Seq(Output) : Sent = Append(s, CR) /\ Sent' = Append(s, char)
    <3>1. PICK s \in Seq(Output) : Sent = Append(s, CR) /\ Sent' = Append(s, char)
      BY <2>2
    <3>2. CR \in Output
      BY DEF Output
    <3>3. KeptIn(s, exceptions, depth)
      BY <1>1, <3>1, <3>2, KeptButLast
    <3>4. LastIs(Sent, CR)
      BY <3>1 DEF LastIs
    <3>5. char = LF \/ (char = CR /\ exceptions > 0)
      BY <1>2, <3>4
    <3>6. KeptIn(Append(s, char), exceptions, depth)
      BY <2>2, <3>3, <3>5, KeptAppend
    <3>7. LastIs(Append(s, char), CR) <=> char = CR
      BY DEF LastIs
    <3>8. QED
      BY <3>1, <3>6, <3>7
  <2>3. QED
    BY <2>1, <2>2, Written
<1>4. ReturnsKept'
  BY <1>1, <1>3 DEF KeptIn, ReturnsKept
<1>5. ReturnLast' <=> char = CR
  BY <1>3 DEF ReturnLast, LastIs
<1>6. QED
  BY <1>4, <1>5

(* Every step keeps the returns. *)
LEMMA ReturnStep ==
  ASSUME CallsKnown, TypeInv, ControlInv, TextInv, ReturnInv, [Next]_vars
  PROVE  ReturnInv'
<1>1. /\ __log_out \in {SERIAL, TERMINAL} /\ exceptions \in Nat
      /\ pc \in {"idle", "format", "wait", "return", "write", "halt"}
      /\ pc \in {"wait", "return", "write"} => string # <<>>
      /\ string \in Seq(Chars) /\ todo \in Seq(CallRecord)
      /\ exceptions = 0 => todo = <<>>
  BY LogAssumption DEF TypeInv, TypeOK, ControlInv
<1>2. ReturnsKept
  BY DEF ReturnInv
(* A step that gives the transmitter nothing. *)
<1>3. ASSUME Sent' = Sent, depth' = depth, exceptions' >= exceptions, exceptions' \in Nat
      PROVE  ReturnsKept' /\ ReturnLast' = ReturnLast
  BY <1>1, <1>2, <1>3 DEF ReturnsKept, ReturnLast
<1>4. ASSUME NEW call, Begin(call), exceptions = 0 \/ (call = todo[1] /\ todo # <<>>),
             UNCHANGED exceptions
      PROVE  ReturnInv'
  <2>1. /\ pc = "idle" /\ pc' = "format" /\ fmt' = call.fmt
        /\ UNCHANGED <<__log_out, string, uart, shown>>
    BY <1>4 DEF Begin
  <2>2. ReturnsKept' /\ ReturnLast' = ReturnLast
    BY <1>1, <1>3, <1>4, <2>1, OutputsKept
  <2>3. string' = <<>>
    BY <2>1 DEF ControlInv
  <2>4. QED
    BY <1>1, <1>4, <2>1, <2>2, <2>3 DEF ReturnInv
<1>5. ASSUME NEW out \in {SERIAL, TERMINAL}, log_set_output(out)
      PROVE  ReturnInv'
  <2>1. /\ pc = "idle" /\ pc' = "idle" /\ exceptions = 0 /\ UNCHANGED <<exceptions, uart, shown>>
    BY <1>5 DEF log_set_output, counters
  <2>2. ReturnsKept' /\ ReturnLast' = ReturnLast
    BY <1>1, <1>3, <2>1, OutputsKept
  <2>3. ~ ReturnLast
    BY <2>1 DEF ReturnInv
  <2>4. QED
    BY <2>1, <2>2, <2>3 DEF ReturnInv
<1>6. CASE __doprnt
  <2>1. /\ UNCHANGED <<uart, shown, __log_out, todo, pc, exceptions>>
        /\ Head(fmt) = LF => string' = <<LF>>
        /\ pc = "format" /\ string = <<>>
    BY <1>6, DoprntTurn DEF counters, __doprnt
  <2>2. ReturnsKept' /\ ReturnLast' = ReturnLast
    BY <1>1, <1>3, <2>1, OutputsKept
  <2>3. QED
    BY <2>1, <2>2 DEF ReturnInv
<1>7. CASE Return \/ PutSerial \/ Halt \/ Wait
  <2>1. /\ UNCHANGED <<uart, shown, __log_out, todo, exceptions, fmt, string>>
        /\ \/ pc = "format" /\ string = <<>> /\ fmt = <<>> /\ pc' = "idle"
           \/ pc = "format" /\ string # <<>> /\ pc' = "wait"
           \/ pc = "idle" /\ pc' = "halt"
           \/ pc = "wait" /\ Head(string) = LF /\ pc' = "return"
           \/ pc = "wait" /\ Head(string) # LF /\ pc' = "write"
    BY <1>7 DEF Return, PutSerial, Halt, Wait, SkipWait, doprnt, counters
  <2>2. ReturnsKept' /\ ReturnLast' = ReturnLast
    BY <1>1, <1>3, <2>1, OutputsKept
  <2>3. QED
    BY <1>1, <2>1, <2>2 DEF ReturnInv
<1>8. CASE __tvga_putch
  <2>1. /\ pc = "format" /\ __log_out # SERIAL
        /\ UNCHANGED <<__log_out, pc, uart, exceptions>>
    BY <1>8 DEF __tvga_putch, counters
  <2>2. Sent' = Sent /\ depth' = depth
    BY <2>1 DEF uart, Sent
  <2>3. ReturnsKept' /\ ReturnLast' = ReturnLast
    BY <1>1, <1>3, <2>1, <2>2
  <2>4. ~ ReturnLast
    BY <2>1 DEF ReturnInv
  <2>5. QED
    BY <2>1, <2>3, <2>4 DEF ReturnInv
<1>9. CASE WriteReturn
  <2>1. /\ pc = "return" /\ outb(CR) /\ pc' = "write" /\ UNCHANGED <<string, __log_out, exceptions>>
    BY <1>9 DEF WriteReturn, doprnt, counters
  <2>2. /\ holding = <<>> /\ CR \in Output /\ Head(string) = LF /\ __log_out = SERIAL
    BY <2>1 DEF ControlInv, Output
  <2>3. ReturnLast => exceptions > 0
    BY <2>1 DEF ReturnInv
  <2>4. ReturnsKept' /\ ReturnLast'
    BY <1>2, <2>1, <2>2, <2>3, WrittenLast, Distinct
  <2>5. QED
    BY <2>1, <2>2, <2>4 DEF ReturnInv
<1>10. CASE Write
  <2>1. /\ pc = "write" /\ outb(Head(string)) /\ pc' = "format" /\ UNCHANGED exceptions
    BY <1>10 DEF Write, counters
  <2>2. /\ string # <<>> /\ (holding = <<>> \/ holding = <<CR>>)
        /\ Head(string) \in Output /\ Head(string) # CR
    BY <1>1, <2>1, Distinct DEF ControlInv, Output
  <2>3. ReturnLast <=> Head(string) = LF
    BY <2>1 DEF ReturnInv
  <2>4. ReturnsKept' /\ ~ ReturnLast'
    BY <1>2, <2>1, <2>2, <2>3, WrittenLast
  <2>5. QED
    BY <2>1, <2>4 DEF ReturnInv
<1>11. CASE Report
  <2>1. Begin(todo[1]) /\ todo # <<>> /\ UNCHANGED exceptions
    BY <1>11, Reported
  <2>2. QED
    BY <1>4, <2>1
<1>12. CASE Exception
  <2>1. /\ pc' = "idle" /\ UNCHANGED <<__log_out, uart, shown>>
        /\ exceptions' = exceptions + 1
        /\ todo' # <<>> => todo'[1].fmt # <<>> /\ Head(todo'[1].fmt) = LF
    BY <1>12, Interrupted
  <2>2. ReturnsKept' /\ ReturnLast' = ReturnLast
    BY <1>1, <1>3, <2>1, OutputsKept
  <2>3. QED
    BY <1>1, <2>1, <2>2 DEF ReturnInv
<1>13. CASE Transmit
  <2>1. UNCHANGED <<__log_out, pc, fmt, string, todo, depth, exceptions>>
    BY <1>13 DEF Transmit, Load, ShiftOut, doprnt, counters
  <2>2. Sent' = Sent
    BY <1>13, TransmitKeepsOrder
  <2>3. ReturnsKept' /\ ReturnLast' = ReturnLast
    BY <1>1, <1>3, <2>1, <2>2
  <2>4. QED
    BY <2>1, <2>3 DEF ReturnInv
<1>14. CASE UNCHANGED vars
  <2>1. UNCHANGED <<__log_out, pc, fmt, string, todo, uart, shown, exceptions>>
    BY <1>14 DEF vars, doprnt, counters
  <2>2. ReturnsKept' /\ ReturnLast' = ReturnLast
    BY <1>1, <1>3, <2>1, OutputsKept
  <2>3. QED
    BY <2>1, <2>2 DEF ReturnInv
<1>15. ASSUME NEW k \in DOMAIN Calls, LOG(Calls[k])
       PROVE  ReturnInv'
  <2>1. PICK call : call = Calls[k]
    OBVIOUS
  <2>2. Begin(call) /\ exceptions = 0 /\ UNCHANGED exceptions
    BY <1>15, <2>1 DEF LOG
  <2>3. QED
    BY <1>4, <2>2
<1>16. QED
  BY <1>5, <1>6, <1>7, <1>8, <1>9, <1>10, <1>11, <1>12, <1>13, <1>14, <1>15 DEF Next, Kernel

LEMMA StepInv == CallsKnown /\ IInv /\ [Next]_vars => IInv'
BY TypeStep, ControlStep, TextStep, ReturnStep DEF IInv

-----------------------------------------------------------------------------
(* Theorems.                                                               *)

(* Characters, arguments and texts are what they should be; com_write is   *)
(* never left with nothing to write, and the transmitter never holds more  *)
(* than it takes.                                                          *)
THEOREM TypeCorrect == ASSUME CallsKnown PROVE Spec => []TypeOK
<1>1. IInv /\ [Next]_vars => IInv'
  BY StepInv
<1>2. IInv => TypeOK
  BY DEF IInv, TypeInv
<1>3. QED
  BY <1>1, <1>2, InitInv, PTL DEF Spec

(* Both outputs get their texts in order, without a gap and whole.         *)
THEOREM Ordered == ASSUME CallsKnown PROVE Spec => []TextInOrder
<1>1. IInv /\ [Next]_vars => IInv'
  BY StepInv
<1>2. IInv => TextInOrder
  <2> SUFFICES ASSUME IInv PROVE TextInOrder
    OBVIOUS
  <2>1. /\ string \in Seq(Chars) /\ __log_out \in {SERIAL, TERMINAL}
        /\ \A out \in {SERIAL, TERMINAL} : Given(out) \in Seq(Chars)
        /\ \A out \in {SERIAL, TERMINAL} \ {__log_out} : meant[out] = Given(out)
    BY DEF IInv, TypeInv, TypeOK, TextInv
  <2>2. PICK t \in Seq(Chars) :
          Renders(fmt, args, t) /\ meant[__log_out] = Given(__log_out) \o (string \o t)
    BY DEF IInv, TextInv
  <2>3. pc \in {"idle", "halt"} => string \o t = <<>>
    <3>1. SUFFICES ASSUME pc \in {"idle", "halt"} PROVE string \o t = <<>>
      OBVIOUS
    <3>2. fmt = <<>> /\ string = <<>>
      BY <3>1 DEF IInv, ControlInv
    <3>3. t = <<>>
      BY <2>2, <3>2, RenderedEnd
    <3>4. QED
      BY <3>2, <3>3
  <2>4. ASSUME NEW g \in Seq(Chars), NEW r \in Seq(Chars)
        PROVE  IsPrefix(g, g \o r) /\ IsPrefix(g, g) /\ g \o <<>> = g
    BY DEF IsPrefix
  <2>5. string \o t \in Seq(Chars)
    BY <2>1
  <2>6. QED
    BY <2>1, <2>2, <2>3, <2>4, <2>5, ZenonT(60) DEF TextInOrder
<1>3. QED
  BY <1>1, <1>2, InitInv, PTL DEF Spec

(* Returns stand in front of line feeds only, and a transmitter with a     *)
(* queue gets one in front of each.                                        *)
THEOREM ReturnsInPlace == ASSUME CallsKnown PROVE Spec => []ReturnsKept
<1>1. IInv /\ [Next]_vars => IInv'
  BY StepInv
<1>2. IInv => ReturnsKept
  BY DEF IInv, ReturnInv
<1>3. QED
  BY <1>1, <1>2, InitInv, PTL DEF Spec

-----------------------------------------------------------------------------
(* Numbers.                                                                *)

(* The strings that the property puts behind a number.                     *)
LEMMA RestsStop ==
  ASSUME NEW rest \in {<<>>, <<LF>>, <<"A", "0">>}
  PROVE  /\ rest \in Seq(Chars \union {LF, "A", "0"})
         /\ rest = <<>> \/ rest[1] \notin Decimals
<1>1. CASE rest = <<>>
  BY <1>1
<1>2. CASE rest = <<LF>>
  <2>1. rest[1] = LF /\ rest \in Seq(Chars \union {LF, "A", "0"})
    BY <1>2
  <2>2. QED
    BY <2>1, NoDecimals
<1>3. CASE rest = <<"A", "0">>
  <2>1. rest[1] = "A" /\ rest \in Seq(Chars \union {LF, "A", "0"})
    BY <1>3
  <2>2. QED
    BY <2>1, NoDecimals
<1>4. QED
  BY <1>1, <1>2, <1>3

(* In a word of any width every number but the smallest is printed as one  *)
(* writes it, in both bases and with its sign, and what was printed is     *)
(* read back.                                                              *)
THEOREM NumbersRead == Spec => []NumbersReadBack
<1>1. ASSUME NEW w \in Word
      PROVE  /\ \A base \in {10, 16} : uint_to_str(w, base) = Numeral(w, base)
             /\ \A rest \in {<<>>, <<LF>>, <<"A", "0">>} :
                  str_to_uint(uint_to_str(w, 10) \o rest) = w
             /\ Signed(w) >= 0 => int_to_str(w, 10) = Numeral(w, 10)
             /\ 2 * w > Modulus => int_to_str(w, 10) = <<"-">> \o Numeral(Modulus - w, 10)
             /\ 2 * w = Modulus =>
                  \E char \in {Digit(r) : r \in -9 .. -1} : int_to_str(w, 10) = <<"-", char>>
  <2>1. w \in Nat /\ w < Modulus
    BY SignedIs
  <2>2. ASSUME NEW base \in {10, 16}
        PROVE  uint_to_str(w, base) = Numeral(w, base)
    BY <2>1, DigitsAreNumeral DEF uint_to_str, reverse_str, Bases
  <2>3. ASSUME NEW rest \in {<<>>, <<LF>>, <<"A", "0">>}
        PROVE  str_to_uint(uint_to_str(w, 10) \o rest) = w
    <3>1. uint_to_str(w, 10) = Numeral(w, 10)
      BY <2>2
    <3>2. str_to_uint(Numeral(w, 10) \o rest) = w
      BY <2>1, ReadBack, RestsStop, Zenon
    <3>3. QED
      BY <3>1, <3>2
  <2>4. ASSUME Signed(w) >= 0
        PROVE  int_to_str(w, 10) = Numeral(w, 10)
    <3>1. Signed(w) = w /\ ~ (Signed(w) < 0)
      <4>1. PICK m \in Nat : m = Modulus
        BY WordSize
      <4>2. 2 * w < m \/ 2 * w >= m
        BY <2>1, <4>1
      <4>3. QED
        BY <2>1, <2>4, <4>1, <4>2, SignedIs
    <3>2. int_to_str(w, 10) = Reverse(Digits(w, 10))
      BY <3>1 DEF int_to_str, reverse_str
    <3>3. QED
      BY <2>1, <3>2, DigitsAreNumeral DEF Bases
  <2>5. QED
    BY <2>2, <2>3, <2>4, NegativePrinted, SmallestPrinted
<1>2. NumbersReadBack
  BY <1>1, Zenon DEF NumbersReadBack
<1>3. QED
  BY <1>2, PTL

=============================================================================
