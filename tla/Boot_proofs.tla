---------------------------- MODULE Boot_proofs -----------------------------
(***************************************************************************)
(* Proofs about the boot, for every list of tags, every archive and every  *)
(* length of the module list.                                              *)
(***************************************************************************)
EXTENDS Boot, NatLemmas, FiniteSetTheorems, SequenceTheorems, TLAPS

-----------------------------------------------------------------------------
(* Arithmetic.                                                             *)

(* The least element of a set is what Min returns.                         *)
LEMMA MinIs ==
  ASSUME NEW S \in SUBSET Int, NEW x \in S, \A y \in S : x <= y
  PROVE  Min(S) = x
<1>1. PICK m \in S : m = Min(S) /\ \A y \in S : m <= y
  BY DEF Min
<1>2. m <= x /\ x <= m /\ m \in Int /\ x \in Int
  BY <1>1
<1>3. QED
  BY <1>1, <1>2

(* A multiple leaves no rest. *)
LEMMA NoRest ==
  ASSUME NEW q \in Nat, NEW u \in Nat \ {0}
  PROVE  q * u \in Nat /\ (q * u) % u = 0
<1>1. q * u \in Nat /\ q * u = q * u + 0
  OBVIOUS
<1>2. (q * u) % u = 0
  BY <1>1, QuotientRemainder
<1>3. QED
  BY <1>1, <1>2

(* There is one border in as many bytes as two borders are apart.          *)
LEMMA BorderIs ==
  ASSUME NEW n \in Nat, NEW u \in Nat \ {0}, NEW q \in Nat, n <= q * u, q * u < n + u
  PROVE  Border(n, u) = q * u
<1> DEFINE S == {b \in n .. n + u - 1 : b % u = 0}
<1>1. q * u \in Nat /\ (q * u) % u = 0
  BY NoRest
<1>2. q * u \in S
  BY <1>1
<1>3. ASSUME NEW y \in S
      PROVE  q * u <= y
  <2>1. PICK r \in Nat : r = y \div u
    BY DivideBounds
  <2>2. y \in Nat /\ y % u = 0 /\ r * u \in Nat
    OBVIOUS
  <2>3. y = r * u + (y % u)
    BY <2>1, <2>2, SMT
  <2>4. CASE r < q
    <3>1. r * u + u <= q * u
      BY <2>4, TimesStrict
    <3>2. QED
      BY <1>1, <2>2, <2>3, <3>1
  <2>5. CASE q <= r
    <3>1. q * u <= r * u
      BY <2>5, TimesMonotone
    <3>2. QED
      BY <1>1, <2>2, <2>3, <3>1
  <2>6. QED
    BY <2>4, <2>5
<1>4. S \in SUBSET Int
  OBVIOUS
<1> HIDE DEF S
<1>5. Min(S) = q * u
  BY <1>2, <1>3, <1>4, MinIs
<1>6. QED
  BY <1>5 DEF Border, S

(* What an octal digit counts for. *)
LEMMA EightToRecursion ==
  /\ EightTo[0] = 1
  /\ \A n \in Nat : EightTo[n + 1] = 8 * EightTo[n]
<1> DEFINE times == [p \in Nat \X Nat |-> 8 * p[2]]
           Is(f) == f = [n \in Nat |-> IF n = 0 THEN 1 ELSE 8 * f[n - 1]]
<1>1. times \in [Nat \X Nat -> Nat] /\ \A n, v \in Nat : times[<<n, v>>] = 8 * v
  OBVIOUS
<1> HIDE DEF times
<1>2. \E f : Unrolls(f, Nat, 1, times)
  BY <1>1, Recursion
<1>3. PICK f \in [Nat -> Nat] : f[0] = 1 /\ \A n \in Nat : f[n + 1] = times[<<n, f[n]>>]
  BY <1>2 DEF Unrolls
<1>4. ASSUME NEW n \in Nat
      PROVE  f[n] = IF n = 0 THEN 1 ELSE 8 * f[n - 1]
  <2>1. CASE n = 0
    BY <1>3, <2>1
  <2>2. CASE n # 0
    <3>1. n - 1 \in Nat /\ (n - 1) + 1 = n /\ f[n - 1] \in Nat
      BY <2>2
    <3>2. QED
      BY <1>1, <1>3, <2>2, <3>1
  <2>3. QED
    BY <2>1, <2>2
<1>5. f = [n \in Nat |-> f[n]]
  OBVIOUS
<1>6. Is(f)
  BY <1>4, <1>5
<1>7. EightTo = CHOOSE g : Is(g)
  BY Zenon DEF EightTo
<1>8. Is(EightTo)
  <2> HIDE DEF Is
  <2>1. QED
    BY <1>6, <1>7
<1>9. \A n \in Nat : EightTo[n] = IF n = 0 THEN 1 ELSE 8 * EightTo[n - 1]
  BY <1>8
<1>10. ASSUME NEW n \in Nat
       PROVE  EightTo[n + 1] = 8 * EightTo[n]
  <2>1. n + 1 \in Nat /\ n + 1 # 0 /\ (n + 1) - 1 = n
    OBVIOUS
  <2>2. QED
    BY <1>9, <2>1
<1>11. QED
  BY <1>9, <1>10

(* It is a positive number. *)
LEMMA EightToPositive ==
  \A n \in Nat : EightTo[n] \in Nat \ {0}
<1> DEFINE S == {n \in Nat : EightTo[n] \in Nat \ {0}}
<1>1. 0 \in S
  BY EightToRecursion
<1>2. ASSUME NEW n \in Nat, n \in S
      PROVE  n + 1 \in S
  BY <1>2, EightToRecursion
<1>3. \A n \in Nat : n \in S
  <2> HIDE DEF S
  <2>1. QED
    BY <1>1, <1>2, Induction
<1>4. QED
  BY <1>3

(* One more octal digit. *)
LEMMA NextDigit ==
  ASSUME NEW s \in Nat, NEW p \in Nat \ {0}
  PROVE  (s \div (8 * p)) * (8 * p) + ((s \div p) % 8) * p = (s \div p) * p
<1>1. PICK a \in Nat : a = s \div p
  BY DivideBounds
<1>2. PICK b \in Nat, j \in 0 .. 7 : b = a \div 8 /\ j = a % 8 /\ a = 8 * b + j
  <2>1. a \div 8 \in Nat /\ a % 8 \in 0 .. 7 /\ a = 8 * (a \div 8) + (a % 8)
    OBVIOUS
  <2>2. QED
    BY <2>1
<1>3. s \div (8 * p) = b
  <2>1. (s \div p) \div 8 = s \div (8 * p)
    BY DivideTwice
  <2>2. QED
    BY <1>1, <1>2, <2>1
<1>4. b * (8 * p) + j * p = (8 * b + j) * p
  BY SMT
<1>5. QED
  BY <1>1, <1>2, <1>3, <1>4

(* tar_get_size reads what tar wrote, for every size that is a uint32_t    *)
(* and has as many octal digits as there are in a header.                  *)
THEOREM SizeReadsBack ==
  ASSUME BootAssumption, NEW s \in FileSize
  PROVE  tar_get_size(SizeDigits(s)) = s
<1> DEFINE Digit(d) == (s \div EightTo[SIZE_DIGITS - d]) % 8
           Place(d) == EightTo[SIZE_DIGITS - d]
           Is(f) == f = [d \in 0 .. SIZE_DIGITS |->
                           IF d = 0 THEN 0
                           ELSE (f[d - 1] + SizeDigits(s)[d] * EightTo[SIZE_DIGITS - d]) % WORD]
           size == CHOOSE f : Is(f)
           Rounded == [d \in 0 .. SIZE_DIGITS |-> (s \div Place(d)) * Place(d)]
<1>1. /\ SIZE_DIGITS \in Nat \ {0} /\ s \in Nat /\ s < EightTo[SIZE_DIGITS]
      /\ WORD \in Nat \ {0} /\ s < WORD
  BY EightToPositive DEF BootAssumption, FileSize
<1>2. \A d \in 0 .. SIZE_DIGITS : Place(d) \in Nat \ {0}
  BY <1>1, EightToPositive
<1>3. \A d \in 1 .. SIZE_DIGITS : Place(d - 1) = 8 * Place(d)
  <2>1. ASSUME NEW d \in 1 .. SIZE_DIGITS
        PROVE  Place(d - 1) = 8 * Place(d)
    <3>1. SIZE_DIGITS - d \in Nat /\ SIZE_DIGITS - (d - 1) = (SIZE_DIGITS - d) + 1
      BY <1>1
    <3>2. QED
      BY <3>1, EightToRecursion
  <2>2. QED
    BY <2>1
<1>4. \A d \in 1 .. SIZE_DIGITS : SizeDigits(s)[d] = (s \div Place(d)) % 8
  BY DEF SizeDigits
<1>5. s \div Place(0) = 0 /\ Place(SIZE_DIGITS) = 1 /\ s \div 1 = s
  <2>1. Place(0) = EightTo[SIZE_DIGITS] /\ Place(SIZE_DIGITS) = EightTo[0]
    BY <1>1
  <2>2. s \div EightTo[SIZE_DIGITS] = 0
    <3>1. PICK c \in Nat \ {0} : c = EightTo[SIZE_DIGITS]
      BY <1>1, EightToPositive
    <3>2. PICK q \in Nat : q = s \div c /\ q * c <= s
      BY <1>1, DivideBounds
    <3>3. CASE 0 < q
      <4>1. 0 * c + c <= q * c /\ q * c \in Nat
        BY <3>3, TimesStrict
      <4>2. QED
        BY <1>1, <3>1, <3>2, <4>1, SMTT(30)
    <3>4. QED
      BY <3>1, <3>2, <3>3
  <2>3. QED
    BY <1>1, <2>1, <2>2, EightToRecursion
<1> HIDE DEF Place
<1>6. ASSUME NEW d \in 1 .. SIZE_DIGITS
      PROVE  ((s \div Place(d - 1)) * Place(d - 1) + SizeDigits(s)[d] * Place(d)) % WORD
               = (s \div Place(d)) * Place(d)
  <2>1. PICK p \in Nat \ {0} : p = Place(d)
    BY <1>2
  <2>2. Place(d - 1) = 8 * p /\ SizeDigits(s)[d] = (s \div p) % 8
    BY <1>3, <1>4, <2>1
  <2>3. PICK sum \in Nat : sum = (s \div p) * p /\ sum < WORD
    <3>1. PICK q \in Nat : q = s \div p /\ q * p <= s
      BY <1>1, DivideBounds
    <3>2. q * p \in Nat /\ q * p < WORD
      BY <1>1, <3>1
    <3>3. QED
      BY <3>1, <3>2
  <2>4. sum % WORD = sum
    BY <1>1, <2>3, SMTT(30)
  <2>5. (s \div Place(d - 1)) * Place(d - 1) + SizeDigits(s)[d] * Place(d) = sum
    <3>1. (s \div (8 * p)) * (8 * p) + ((s \div p) % 8) * p = (s \div p) * p
      BY <1>1, NextDigit
    <3>2. QED
      BY <2>1, <2>2, <2>3, <3>1, Zenon
  <2>6. QED
    BY <2>1, <2>3, <2>4, <2>5
<1>7. \E f : Is(f)
  <2>1. ASSUME NEW d \in 0 .. SIZE_DIGITS
        PROVE  Rounded[d] = IF d = 0 THEN 0
                            ELSE (Rounded[d - 1] + SizeDigits(s)[d] * EightTo[SIZE_DIGITS - d]) % WORD
    <3>1. CASE d = 0
      <4>1. Rounded[d] = (s \div Place(0)) * Place(0) /\ Place(0) \in Nat
        BY <1>1, <1>2, <3>1
      <4>2. QED
        BY <1>5, <3>1, <4>1
    <3>2. CASE d # 0
      <4>1. d \in 1 .. SIZE_DIGITS /\ d - 1 \in 0 .. SIZE_DIGITS
        BY <3>2
      <4>2. Rounded[d - 1] = (s \div Place(d - 1)) * Place(d - 1)
        BY <4>1
      <4>3. Rounded[d] = (s \div Place(d)) * Place(d)
        OBVIOUS
      <4>4. Place(d) = EightTo[SIZE_DIGITS - d]
        BY DEF Place
      <4> HIDE DEF Rounded
      <4>5. QED
        BY <1>6, <3>2, <4>1, <4>2, <4>3, <4>4
    <3>3. QED
      BY <3>1, <3>2
  <2>2. Rounded = [d \in 0 .. SIZE_DIGITS |-> Rounded[d]]
    OBVIOUS
  <2> HIDE DEF Rounded
  <2>3. Rounded = [d \in 0 .. SIZE_DIGITS |->
                     IF d = 0 THEN 0
                     ELSE (Rounded[d - 1] + SizeDigits(s)[d] * EightTo[SIZE_DIGITS - d]) % WORD]
    BY <2>1, <2>2
  <2>4. QED
    BY <2>3
<1>8. Is(size)
  <2> HIDE DEF Is
  <2>1. QED
    BY <1>7
<1> HIDE DEF size
<1>9. \A d \in 0 .. SIZE_DIGITS :
        size[d] = IF d = 0 THEN 0 ELSE (size[d - 1] + SizeDigits(s)[d] * Place(d)) % WORD
  BY <1>8 DEF Place
<1> DEFINE S == {d \in Nat : d <= SIZE_DIGITS => size[d] = (s \div Place(d)) * Place(d)}
<1>10. 0 \in S
  <2>1. size[0] = 0 /\ Place(0) \in Nat
    BY <1>1, <1>2, <1>9, SMTT(30)
  <2>2. QED
    BY <1>5, <2>1
<1>11. ASSUME NEW d \in Nat, d \in S
       PROVE  d + 1 \in S
  <2> SUFFICES ASSUME d + 1 <= SIZE_DIGITS
               PROVE  size[d + 1] = (s \div Place(d + 1)) * Place(d + 1)
    OBVIOUS
  <2>1. PICK e \in 1 .. SIZE_DIGITS : e = d + 1 /\ e - 1 = d
    BY <1>1
  <2>2. size[d] = (s \div Place(d)) * Place(d)
    BY <1>11
  <2>3. size[e] = (size[e - 1] + SizeDigits(s)[e] * Place(e)) % WORD
    BY <1>1, <1>9
  <2>4. QED
    BY <1>6, <2>1, <2>2, <2>3
<1>12. \A d \in Nat : d \in S
  <2> HIDE DEF S
  <2>1. QED
    BY <1>10, <1>11, Induction
<1>13. size[SIZE_DIGITS] = (s \div 1) * 1
  BY <1>1, <1>5, <1>12
<1>14. tar_get_size(SizeDigits(s)) = size[SIZE_DIGITS]
  BY Zenon DEF tar_get_size, size, Is
<1>15. QED
  BY <1>1, <1>5, <1>13, <1>14

-----------------------------------------------------------------------------
(* Where the tags and the headers lie.                                     *)

TagPlaces(b) ==
  CHOOSE f : f = [n \in 1 .. Len(b.tags) |->
                    IF n = 1 THEN TagBorder
                    ELSE Border(f[n - 1] + b.tags[n - 1].size, TagBorder)]

HeaderPlaces(b) ==
  CHOOSE f : f = [n \in 1 .. Len(b.archive) + 1 |->
                    IF n = 1 THEN 0
                    ELSE Border(f[n - 1] + BLOCK + b.archive[n - 1].size, BLOCK)]

(* They depend on nothing but what the boot loader has handed over.        *)
LEMMA Layout == TagAddress = TagPlaces(boot) /\ HeaderOffset = HeaderPlaces(boot)
<1>1. TagAddress = TagPlaces(boot)
  BY Zenon DEF TagAddress, TagPlaces
<1>2. HeaderOffset = HeaderPlaces(boot)
  BY Zenon DEF HeaderOffset, HeaderPlaces
<1>3. QED
  BY <1>1, <1>2

(* The elements of a sequence that is not empty.                           *)
LEMMA ElementsOf ==
  ASSUME NEW S, NEW q \in Seq(S), q # <<>>
  PROVE  Len(q) \in Nat \ {0} /\ \A n \in 1 .. Len(q) : q[n] \in S
OBVIOUS

(* What the assumption says of one boot.                                   *)
LEMMA BootShape ==
  ASSUME BootAssumption, NEW b \in Boots
  PROVE  /\ b.tags \in Seq(TagInfo)
         /\ Len(b.tags) \in Nat \ {0}
         /\ \A n \in 1 .. Len(b.tags) :
              /\ b.tags[n].size \in Nat \ {0} /\ b.tags[n].type \in TagType
              /\ b.tags[n].entry_size \in Nat
         /\ b.tags[Len(b.tags)].type = "end"
         /\ Len(b.archive) \in Nat \ {0}
         /\ b.archive \in Seq([name : Name, size : FileSize])
         /\ \A n \in 1 .. Len(b.archive) :
              b.archive[n].name \in Name /\ b.archive[n].size \in FileSize
         /\ b.archive[1].size = 0
<1>1. PICK t \in Seq(TagInfo) :
        t = b.tags /\ t # <<>> /\ t[Len(t)].type = "end"
  BY DEF BootAssumption, BootInfo
<1>2. PICK a \in Seq([name : Name, size : FileSize]) :
        a = b.archive /\ a # <<>> /\ a[1].size = 0
  BY DEF BootAssumption, BootInfo
<1>3. Len(t) \in Nat \ {0} /\ \A n \in 1 .. Len(t) : t[n] \in TagInfo
  <2> DEFINE R == TagInfo
  <2>1. t \in Seq(R) /\ t # <<>>
    BY <1>1
  <2> HIDE DEF R
  <2>2. Len(t) \in Nat \ {0} /\ \A n \in 1 .. Len(t) : t[n] \in R
    BY <2>1, ElementsOf
  <2>3. QED
    BY <2>2 DEF R
<1>4. Len(a) \in Nat \ {0}
      /\ \A n \in 1 .. Len(a) : a[n] \in [name : Name, size : FileSize]
  BY <1>2, ElementsOf
<1>5. \A x \in TagInfo : x.size \in Nat \ {0} /\ x.type \in TagType /\ x.entry_size \in Nat
  BY DEF TagInfo
<1>6. QED
  BY <1>1, <1>2, <1>3, <1>4, <1>5

(* The sizes of the headers and of the files are numbers, too.             *)
LEMMA SizeIsNat ==
  ASSUME BootAssumption, NEW s \in FileSize
  PROVE  s \in Nat
BY EightToPositive DEF BootAssumption, FileSize

(* sys_init steps to the next border of 8 bytes.                           *)
LEMMA NextTagBorder ==
  ASSUME NEW a \in Nat, a % 8 = 0, NEW s \in Nat \ {0}
  PROVE  /\ Border(a + s, TagBorder) = a + PaddedSize(s)
         /\ PaddedSize(s) \in Nat \ {0} /\ 8 <= PaddedSize(s)
         /\ (a + PaddedSize(s)) % 8 = 0
<1>1. PICK q \in Nat : a + PaddedSize(s) = q * 8 /\ a + s <= q * 8 /\ q * 8 < (a + s) + 8
  <2>1. (a \div 8) + ((s + 7) \div 8) \in Nat
    OBVIOUS
  <2>2. QED
    BY <2>1 DEF PaddedSize
<1>2. Border(a + s, 8) = q * 8
  BY <1>1, BorderIs
<1>3. QED
  BY <1>1, <1>2 DEF PaddedSize, TagBorder

(* tar_get_file steps to the next border of a block.                       *)
LEMMA NextHeaderBorder ==
  ASSUME BootAssumption, NEW h \in Nat, h % BLOCK = 0, NEW s \in Nat
  PROVE  /\ Border(h + BLOCK + s, BLOCK) = h + MemberSize(s)
         /\ MemberSize(s) \in Nat /\ BLOCK + s <= MemberSize(s)
         /\ (s % BLOCK = 0) => MemberSize(s) = BLOCK + s
         /\ (s % BLOCK # 0) => BLOCK + s < MemberSize(s)
         /\ (h + MemberSize(s)) % BLOCK = 0
<1>1. PICK c \in Nat \ {0} : c = BLOCK
  BY DEF BootAssumption
<1>2. PICK i \in Nat : h = i * c
  <2>1. h \div c \in Nat /\ h = (h \div c) * c + (h % c) /\ h % c = 0
    BY <1>1, SMTT(30), SMTT(30)
  <2>2. PICK x \in Nat : x = (h \div c) * c
    BY <2>1
  <2>3. h = x
    BY <2>1, <2>2
  <2>4. QED
    BY <2>1, <2>2, <2>3, Zenon
<1>3. PICK j \in Nat, r \in 0 .. c - 1 : j = s \div c /\ r = s % c /\ s = j * c + r
  <2>1. s \div c \in Nat /\ s % c \in 0 .. c - 1 /\ s = (s \div c) * c + (s % c)
    BY <1>1, SMT
  <2>2. QED
    BY <2>1
<1>4. PICK x \in Nat, y \in Nat : x = i * c /\ y = j * c /\ (j + 1) * c = y + c
  <2>1. i * c \in Nat /\ j * c \in Nat /\ (j + 1) * c = j * c + c
    BY SMT
  <2>2. QED
    BY <2>1
<1>5. CASE r = 0
  <2>1. MemberSize(s) = y + c
    BY <1>1, <1>3, <1>4, <1>5 DEF MemberSize
  <2>2. PICK k \in Nat : k = i + j + 1
    OBVIOUS
  <2>3. k * c = i * c + j * c + c
    BY <2>2, SMT
  <2>4. h + c + s <= k * c /\ k * c < (h + c + s) + c /\ h + c + s \in Nat
    <3>1. h = x /\ s = y + r /\ k * c = x + y + c
      BY <1>2, <1>3, <1>4, <2>3
    <3>2. x + c + (y + r) <= x + y + c /\ x + y + c < (x + c + (y + r)) + c
      BY <1>5
    <3>3. QED
      BY <3>1, <3>2
  <2>5. Border(h + c + s, c) = k * c
    BY <2>4, BorderIs
  <2>6. (k * c) % c = 0
    BY NoRest
  <2>7. h + MemberSize(s) = k * c /\ MemberSize(s) \in Nat
    BY <1>2, <1>4, <2>1, <2>3
  <2>8. BLOCK + s <= MemberSize(s) /\ (r = 0 => MemberSize(s) = BLOCK + s)
        /\ (r # 0 => BLOCK + s < MemberSize(s))
    BY <1>1, <1>3, <1>4, <1>5, <2>1, SMTT(30)
  <2>9. QED
    BY <1>1, <1>3, <2>5, <2>6, <2>7, <2>8
<1>6. CASE r # 0
  <2>1. MemberSize(s) = y + c + c
    BY <1>1, <1>3, <1>4, <1>6 DEF MemberSize
  <2>2. PICK k \in Nat : k = i + j + 2
    OBVIOUS
  <2>3. k * c = i * c + j * c + c + c
    BY <2>2, SMT
  <2>4. h + c + s <= k * c /\ k * c < (h + c + s) + c /\ h + c + s \in Nat
    <3>1. h = x /\ s = y + r /\ k * c = x + y + c + c
      BY <1>2, <1>3, <1>4, <2>3
    <3>2. x + c + (y + r) <= x + y + c + c /\ x + y + c + c < (x + c + (y + r)) + c
      BY <1>6
    <3>3. QED
      BY <3>1, <3>2
  <2>5. Border(h + c + s, c) = k * c
    BY <2>4, BorderIs
  <2>6. (k * c) % c = 0
    BY NoRest
  <2>7. h + MemberSize(s) = k * c /\ MemberSize(s) \in Nat
    BY <1>2, <1>4, <2>1, <2>3
  <2>8. BLOCK + s <= MemberSize(s) /\ (r = 0 => MemberSize(s) = BLOCK + s)
        /\ (r # 0 => BLOCK + s < MemberSize(s))
    BY <1>1, <1>3, <1>4, <1>6, <2>1, SMTT(30)
  <2>9. QED
    BY <1>1, <1>3, <2>5, <2>6, <2>7, <2>8
<1>7. QED
  BY <1>5, <1>6

(* The first tag starts at the first border, and each of the others where  *)
(* PaddedSize of the one before it leads to.                               *)
LEMMA TagLayout ==
  ASSUME BootAssumption, NEW b \in Boots
  PROVE  /\ DOMAIN TagPlaces(b) = 1 .. Len(b.tags)
         /\ TagPlaces(b)[1] = TagBorder
         /\ \A n \in 1 .. Len(b.tags) : TagPlaces(b)[n] \in Nat /\ TagPlaces(b)[n] % 8 = 0
         /\ \A n \in 1 .. Len(b.tags) - 1 :
              TagPlaces(b)[n + 1] = TagPlaces(b)[n] + PaddedSize(b.tags[n].size)
<1> DEFINE N == Len(b.tags)
           V == {k \in Nat : k % 8 = 0}
           Size(n) == b.tags[n].size
           step == [p \in Nat \X V |->
                      IF p[1] \in 2 .. N THEN p[2] + PaddedSize(Size(p[1] - 1)) ELSE 0]
           Is(f) == f = [n \in 1 .. N |->
                           IF n = 1 THEN TagBorder ELSE Border(f[n - 1] + Size(n - 1), TagBorder)]
           A == TagPlaces(b)
<1>1. N \in Nat \ {0} /\ \A n \in 1 .. N : Size(n) \in Nat \ {0}
  BY BootShape
<1> HIDE DEF Size, N
<1>2. \A v \in V, n \in 1 .. N : /\ Border(v + Size(n), TagBorder) = v + PaddedSize(Size(n))
                                 /\ v + PaddedSize(Size(n)) \in V
  <2>1. ASSUME NEW v \in V, NEW n \in 1 .. N
        PROVE  /\ Border(v + Size(n), TagBorder) = v + PaddedSize(Size(n))
               /\ v + PaddedSize(Size(n)) \in V
    <3>1. Size(n) \in Nat \ {0} /\ v \in Nat /\ v % 8 = 0
      BY <1>1
    <3>2. PaddedSize(Size(n)) \in Nat /\ (v + PaddedSize(Size(n))) % 8 = 0
          /\ Border(v + Size(n), TagBorder) = v + PaddedSize(Size(n))
      BY <3>1, NextTagBorder
    <3>3. \A i, j \in Nat : i + j \in Nat
      OBVIOUS
    <3>4. v + PaddedSize(Size(n)) \in V
      BY <3>1, <3>2, <3>3, Zenon
    <3>5. QED
      BY <3>2, <3>4, Zenon
  <2>2. QED
    BY <2>1, Zenon
<1>3. TagBorder \in V
  BY DEF TagBorder
<1>4. 0 \in V
  OBVIOUS
<1> HIDE DEF V
<1>5. step \in [Nat \X V -> V]
      /\ \A v \in V, n \in 2 .. N : step[<<n, v>>] = v + PaddedSize(Size(n - 1))
  <2>1. ASSUME NEW n \in Nat, NEW v \in V
        PROVE  (IF n \in 2 .. N THEN v + PaddedSize(Size(n - 1)) ELSE 0) \in V
    <3>1. n \in 2 .. N => n - 1 \in 1 .. N
      BY <1>1
    <3>2. QED
      BY <1>2, <1>4, <3>1
  <2>2. step \in [Nat \X V -> V]
    BY <2>1
  <2>3. \A n \in 2 .. N : n \in Nat
    BY <1>1
  <2>4. QED
    BY <2>2, <2>3
<1> HIDE DEF step
<1>6. \E f : UnrollsFrom(f, 1, N, V, TagBorder, step)
  BY <1>1, <1>3, <1>5, RecursionFrom
<1>7. \E f : Is(f)
  <2>1. PICK f \in [1 .. N -> V] :
          \A n \in 1 .. N : f[n] = IF n = 1 THEN TagBorder ELSE step[<<n, f[n - 1]>>]
    BY <1>6 DEF UnrollsFrom
  <2>2. ASSUME NEW n \in 1 .. N
        PROVE  f[n] = IF n = 1 THEN TagBorder ELSE Border(f[n - 1] + Size(n - 1), TagBorder)
    <3>1. CASE n # 1
      <4>1. n \in 2 .. N /\ n - 1 \in 1 .. N
        BY <1>1, <3>1
      <4>2. f[n - 1] \in V
        BY <2>1, <4>1
      <4>3. f[n] = f[n - 1] + PaddedSize(Size(n - 1))
        BY <1>5, <2>1, <3>1, <4>1, <4>2
      <4>4. QED
        BY <1>2, <3>1, <4>1, <4>2, <4>3
    <3>2. QED
      BY <2>1, <3>1
  <2>3. f = [n \in 1 .. N |-> f[n]]
    OBVIOUS
  <2>4. Is(f)
    BY <2>2, <2>3
  <2>5. QED
    BY <2>4
<1>8. A = CHOOSE f : Is(f)
  BY Zenon DEF TagPlaces, N, Size
<1>9. Is(A)
  <2> HIDE DEF Is
  <2>1. QED
    BY <1>7, <1>8
<1> HIDE DEF A
<1>10. DOMAIN A = 1 .. N
       /\ \A n \in 1 .. N :
            A[n] = IF n = 1 THEN TagBorder ELSE Border(A[n - 1] + Size(n - 1), TagBorder)
  BY <1>9
<1> HIDE DEF Is
<1> DEFINE S == {n \in Nat : n + 1 <= N => A[n + 1] \in V}
<1>11. 0 \in S
  <2>1. A[1] = TagBorder
    BY <1>1, <1>10
  <2>2. QED
    BY <1>3, <2>1
<1>12. ASSUME NEW n \in Nat, n \in S
       PROVE  n + 1 \in S
  <2> SUFFICES ASSUME n + 1 + 1 <= N PROVE A[n + 1 + 1] \in V
    OBVIOUS
  <2>1. PICK m \in 1 .. N : m = n + 1 /\ m + 1 \in 1 .. N /\ m + 1 # 1 /\ (m + 1) - 1 = m
    BY <1>1
  <2>2. A[m] \in V /\ A[m + 1] = Border(A[m] + Size(m), TagBorder)
    BY <1>10, <1>12, <2>1
  <2>3. QED
    BY <1>2, <2>1, <2>2
<1>13. \A n \in Nat : n \in S
  <2> HIDE DEF S
  <2>1. QED
    BY <1>11, <1>12, Induction
<1>14. ASSUME NEW n \in 1 .. N
       PROVE  A[n] \in V
  <2>1. n - 1 \in Nat /\ (n - 1) + 1 = n /\ n <= N
    BY <1>1
  <2>2. QED
    BY <1>13, <2>1
<1>15. ASSUME NEW n \in 1 .. N - 1
       PROVE  A[n + 1] = A[n] + PaddedSize(Size(n))
  <2>1. n \in 1 .. N /\ n + 1 \in 1 .. N /\ n + 1 # 1 /\ (n + 1) - 1 = n
    BY <1>1
  <2>2. QED
    BY <1>2, <1>10, <1>14, <2>1
<1>16. A[1] = TagBorder
  BY <1>1, <1>10
<1>17. QED
  BY <1>10, <1>14, <1>15, <1>16 DEF A, N, V, Size


(* The first header starts with the archive, and each of the others where  *)
(* MemberSize of the one before it leads to.                               *)
LEMMA HeaderLayout ==
  ASSUME BootAssumption, NEW b \in Boots
  PROVE  /\ DOMAIN HeaderPlaces(b) = 1 .. Len(b.archive) + 1
         /\ HeaderPlaces(b)[1] = 0
         /\ \A n \in 1 .. Len(b.archive) + 1 :
              HeaderPlaces(b)[n] \in Nat /\ HeaderPlaces(b)[n] % BLOCK = 0
         /\ \A n \in 1 .. Len(b.archive) :
              HeaderPlaces(b)[n + 1] = HeaderPlaces(b)[n] + MemberSize(b.archive[n].size)
<1> DEFINE N == Len(b.archive) + 1
           V == {k \in Nat : k % BLOCK = 0}
           Size(n) == b.archive[n].size
           step == [p \in Nat \X V |->
                      IF p[1] \in 2 .. N THEN p[2] + MemberSize(Size(p[1] - 1)) ELSE 0]
           Is(f) == f = [n \in 1 .. N |->
                           IF n = 1 THEN 0 ELSE Border(f[n - 1] + BLOCK + Size(n - 1), BLOCK)]
           A == HeaderPlaces(b)
<1>1. N \in Nat \ {0} /\ \A n \in 1 .. N - 1 : Size(n) \in Nat
  BY BootShape, SizeIsNat, SMTT(30)
<1> HIDE DEF Size, N
<1>2. \A v \in V, n \in 1 .. N - 1 : /\ Border(v + BLOCK + Size(n), BLOCK) = v + MemberSize(Size(n))
                                 /\ v + MemberSize(Size(n)) \in V
  <2>1. ASSUME NEW v \in V, NEW n \in 1 .. N - 1
        PROVE  /\ Border(v + BLOCK + Size(n), BLOCK) = v + MemberSize(Size(n))
               /\ v + MemberSize(Size(n)) \in V
    <3>1. Size(n) \in Nat /\ v \in Nat /\ v % BLOCK = 0
      BY <1>1
    <3>2. MemberSize(Size(n)) \in Nat /\ (v + MemberSize(Size(n))) % BLOCK = 0
          /\ Border(v + BLOCK + Size(n), BLOCK) = v + MemberSize(Size(n))
      BY <3>1, NextHeaderBorder
    <3>3. v + MemberSize(Size(n)) \in V
      BY <3>1, <3>2, SMTT(30)
    <3>4. QED
      BY <3>2, <3>3, Zenon
  <2>2. QED
    BY <2>1
<1>3. BLOCK \in Nat \ {0}
  BY DEF BootAssumption
<1>4. 0 \in V
  BY <1>3
<1> HIDE DEF V
<1>5. step \in [Nat \X V -> V]
      /\ \A v \in V, n \in 2 .. N : step[<<n, v>>] = v + MemberSize(Size(n - 1))
  <2>1. ASSUME NEW n \in Nat, NEW v \in V
        PROVE  (IF n \in 2 .. N THEN v + MemberSize(Size(n - 1)) ELSE 0) \in V
    <3>1. n \in 2 .. N => n - 1 \in 1 .. N - 1
      BY <1>1, SMTT(30)
    <3>2. QED
      BY <1>2, <1>4, <3>1
  <2>2. step \in [Nat \X V -> V]
    BY <2>1
  <2>3. \A n \in 2 .. N : n \in Nat
    BY <1>1
  <2>4. QED
    BY <2>2, <2>3
<1> HIDE DEF step
<1>6. \E f : UnrollsFrom(f, 1, N, V, 0, step)
  BY <1>1, <1>4, <1>5, RecursionFrom
<1>7. \E f : Is(f)
  <2>1. PICK f \in [1 .. N -> V] :
          \A n \in 1 .. N : f[n] = IF n = 1 THEN 0 ELSE step[<<n, f[n - 1]>>]
    BY <1>6 DEF UnrollsFrom
  <2>2. ASSUME NEW n \in 1 .. N
        PROVE  f[n] = IF n = 1 THEN 0 ELSE Border(f[n - 1] + BLOCK + Size(n - 1), BLOCK)
    <3>1. CASE n # 1
      <4>1. n \in 2 .. N /\ n - 1 \in 1 .. N /\ n - 1 \in 1 .. N - 1
        BY <1>1, <3>1
      <4>2. f[n - 1] \in V
        BY <2>1, <4>1
      <4>3. f[n] = f[n - 1] + MemberSize(Size(n - 1))
        BY <1>5, <2>1, <3>1, <4>1, <4>2
      <4>4. QED
        BY <1>2, <3>1, <4>1, <4>2, <4>3
    <3>2. QED
      BY <2>1, <3>1
  <2>3. f = [n \in 1 .. N |-> f[n]]
    OBVIOUS
  <2>4. Is(f)
    BY <2>2, <2>3
  <2>5. QED
    BY <2>4
<1>8. A = CHOOSE f : Is(f)
  BY Zenon DEF HeaderPlaces, N, Size
<1>9. Is(A)
  <2> HIDE DEF Is
  <2>1. QED
    BY <1>7, <1>8
<1> HIDE DEF A
<1>10. DOMAIN A = 1 .. N
       /\ \A n \in 1 .. N :
            A[n] = IF n = 1 THEN 0 ELSE Border(A[n - 1] + BLOCK + Size(n - 1), BLOCK)
  BY <1>9
<1> HIDE DEF Is
<1> DEFINE S == {n \in Nat : n + 1 <= N => A[n + 1] \in V}
<1>11. 0 \in S
  <2>1. 1 \in 1 .. N
    BY <1>1
  <2>2. A[1] = 0
    BY <1>10, <2>1, Zenon
  <2>3. QED
    BY <1>4, <2>2
<1>12. ASSUME NEW n \in Nat, n \in S
       PROVE  n + 1 \in S
  <2> SUFFICES ASSUME n + 1 + 1 <= N PROVE A[n + 1 + 1] \in V
    OBVIOUS
  <2>1. PICK m \in 1 .. N - 1 : m = n + 1 /\ m + 1 \in 1 .. N /\ m + 1 # 1 /\ (m + 1) - 1 = m
    BY <1>1
  <2>2. A[m] \in V /\ A[m + 1] = Border(A[m] + BLOCK + Size(m), BLOCK)
    BY <1>1, <1>10, <1>12, <2>1
  <2>3. QED
    BY <1>2, <2>1, <2>2
<1>13. \A n \in Nat : n \in S
  <2> HIDE DEF S
  <2>1. QED
    BY <1>11, <1>12, Induction
<1>14. ASSUME NEW n \in 1 .. N
       PROVE  A[n] \in V
  <2>1. n - 1 \in Nat /\ (n - 1) + 1 = n /\ n <= N
    BY <1>1
  <2>2. QED
    BY <1>13, <2>1
<1>15. ASSUME NEW n \in 1 .. N - 1
       PROVE  A[n + 1] = A[n] + MemberSize(Size(n))
  <2>1. n \in 1 .. N /\ n + 1 \in 1 .. N /\ n + 1 # 1 /\ (n + 1) - 1 = n
    BY <1>1
  <2>2. QED
    BY <1>2, <1>10, <1>14, <2>1
<1>16. A[1] = 0
  <2>1. 1 \in 1 .. N
    BY <1>1
  <2>2. QED
    BY <1>10, <2>1, Zenon
<1>17. N = Len(b.archive) + 1 /\ N - 1 = Len(b.archive)
  <2>1. Len(b.archive) \in Nat
    BY BootShape
  <2>2. QED
    BY <2>1 DEF N
<1>18. \A n \in 1 .. N : A[n] \in Nat /\ A[n] % BLOCK = 0
  BY <1>14 DEF V
<1>19. QED
  BY <1>10, <1>15, <1>16, <1>17, <1>18, ZenonT(60) DEF A, Size

(* Behind a tag are the tags that follow it.                               *)
LEMMA TagOrder ==
  ASSUME BootAssumption, NEW b \in Boots
  PROVE  /\ \A m, n \in 1 .. Len(b.tags) : TagPlaces(b)[m] < TagPlaces(b)[n] <=> m < n
         /\ \A n \in 1 .. Len(b.tags) : 8 * n <= TagPlaces(b)[n]
         /\ \A m, n \in 1 .. Len(b.tags) :
              TagPlaces(b)[m] < TagPlaces(b)[n] + PaddedSize(b.tags[n].size) <=> m <= n
<1> DEFINE N == Len(b.tags)
           A == TagPlaces(b)
           Step(n) == PaddedSize(b.tags[n].size)
<1>1. N \in Nat \ {0}
  BY BootShape
<1>2. \A n \in 1 .. N : Step(n) \in Nat /\ 8 <= Step(n)
  <2>1. \A s \in Nat \ {0} : PaddedSize(s) \in Nat /\ 8 <= PaddedSize(s)
    BY DEF PaddedSize
  <2>2. \A n \in 1 .. N : b.tags[n].size \in Nat \ {0}
    BY BootShape
  <2>3. QED
    BY <2>1, <2>2
<1>3. /\ A[1] = 8
      /\ \A n \in 1 .. N : A[n] \in Nat
      /\ \A n \in 1 .. N - 1 : A[n + 1] = A[n] + Step(n)
  BY TagLayout DEF TagBorder
<1> HIDE DEF N, A, Step
<1>4. \A n \in 1 .. N - 1 : A[n] < A[n + 1]
  <2>1. ASSUME NEW n \in 1 .. N - 1
        PROVE  A[n] < A[n + 1]
    <3>1. n \in 1 .. N
      BY <1>1
    <3>2. A[n] \in Nat /\ Step(n) \in Nat /\ 8 <= Step(n) /\ A[n + 1] = A[n] + Step(n)
      BY <1>2, <1>3, <3>1
    <3>3. QED
      BY <3>2, SMTT(30)
  <2>2. QED
    BY <2>1
<1>5. \A m, n \in 1 .. N : m < n => A[m] < A[n]
  BY <1>1, <1>3, <1>4, Increasing
<1>6. \A m, n \in 1 .. N : A[m] < A[n] <=> m < n
  <2>1. ASSUME NEW m \in 1 .. N, NEW n \in 1 .. N
        PROVE  A[m] < A[n] <=> m < n
    <3>1. A[m] \in Nat /\ A[n] \in Nat /\ (m < n \/ m = n \/ n < m)
      BY <1>1, <1>3
    <3>2. (m < n => A[m] < A[n]) /\ (n < m => A[n] < A[m])
      BY <1>5
    <3>3. QED
      BY <3>1, <3>2
  <2>2. QED
    BY <2>1
<1> DEFINE S == {n \in Nat : n + 1 <= N => 8 * (n + 1) <= A[n + 1]}
<1>7. 0 \in S
  BY <1>1, <1>3
<1>8. ASSUME NEW n \in Nat, n \in S
      PROVE  n + 1 \in S
  <2> SUFFICES ASSUME n + 1 + 1 <= N PROVE 8 * (n + 1 + 1) <= A[n + 1 + 1]
    OBVIOUS
  <2>1. PICK m \in 1 .. N - 1 : m = n + 1
    BY <1>1
  <2>2. A[m + 1] = A[m] + Step(m) /\ A[m] \in Nat /\ Step(m) \in Nat /\ 8 <= Step(m)
    BY <1>1, <1>2, <1>3
  <2>3. 8 * m <= A[m]
    <3>1. n + 1 <= N
      BY <1>1, <2>1
    <3>2. 8 * (n + 1) <= A[n + 1]
      BY <1>8, <3>1
    <3>3. QED
      BY <2>1, <3>2
  <2>4. QED
    BY <2>1, <2>2, <2>3, SMTT(30)
<1>9. \A n \in Nat : n \in S
  <2> HIDE DEF S
  <2>1. QED
    BY <1>7, <1>8, Induction
<1>10. ASSUME NEW n \in 1 .. N
       PROVE  8 * n <= A[n]
  <2>1. n - 1 \in Nat /\ (n - 1) + 1 = n /\ n <= N
    BY <1>1
  <2>2. n - 1 \in S
    BY <1>9, <2>1
  <2>3. QED
    BY <2>1, <2>2
<1>11. ASSUME NEW m \in 1 .. N, NEW n \in 1 .. N
       PROVE  A[m] < A[n] + Step(n) <=> m <= n
  <2>1. A[m] \in Nat /\ A[n] \in Nat /\ Step(n) \in Nat /\ 8 <= Step(n)
    BY <1>2, <1>3
  <2>2. CASE m <= n
    <3>1. A[m] <= A[n]
      BY <1>1, <1>6, <2>1, <2>2, SMTT(30)
    <3>2. QED
      BY <2>1, <2>2, <3>1, SMTT(30)
  <2>3. CASE n < m
    <3>1. n \in 1 .. N - 1 /\ n + 1 \in 1 .. N
      BY <1>1, <2>3
    <3>2. A[n + 1] = A[n] + Step(n) /\ ~ (m < n + 1)
      BY <1>3, <2>3, <3>1
    <3>3. ~ (A[m] < A[n + 1])
      BY <1>6, <3>1, <3>2
    <3>4. QED
      BY <2>3, <3>2, <3>3
  <2>4. QED
    BY <1>1, <2>2, <2>3
<1>12. QED
  BY <1>6, <1>10, <1>11 DEF A, N, Step

(* A member with its header ends before the next header, and the member    *)
(* of the directory is the header alone.                                   *)
LEMMA HeaderOrder ==
  ASSUME BootAssumption, NEW b \in Boots
  PROVE  /\ \A m, n \in 1 .. Len(b.archive) + 1 :
              m < n => HeaderPlaces(b)[m] + BLOCK + b.archive[m].size <= HeaderPlaces(b)[n]
         /\ \A m, n \in 1 .. Len(b.archive) + 1 :
              (HeaderPlaces(b)[m] = HeaderPlaces(b)[n]) => m = n
         /\ HeaderPlaces(b)[2] = BLOCK
<1> DEFINE N == Len(b.archive) + 1
           H == HeaderPlaces(b)
           Size(n) == b.archive[n].size
<1>1. N \in Nat /\ 2 <= N /\ BLOCK \in Nat \ {0}
  BY BootShape DEF BootAssumption
<1>2. \A n \in 1 .. N - 1 : Size(n) \in Nat
  BY BootShape, SizeIsNat, SMTT(30)
<1>3. Size(1) = 0
  BY BootShape
<1>4. /\ H[1] = 0
      /\ \A n \in 1 .. N : H[n] \in Nat /\ H[n] % BLOCK = 0
      /\ \A n \in 1 .. N - 1 : H[n + 1] = H[n] + MemberSize(Size(n))
  BY BootShape, HeaderLayout
<1> HIDE DEF N, H, Size
<1>5. ASSUME NEW n \in 1 .. N - 1
      PROVE  H[n] + BLOCK + Size(n) <= H[n + 1] /\ n \in 1 .. N
  <2>1. H[n] \in Nat /\ H[n] % BLOCK = 0 /\ Size(n) \in Nat /\ n \in 1 .. N
    BY <1>1, <1>2, <1>4
  <2>2. MemberSize(Size(n)) \in Nat /\ BLOCK + Size(n) <= MemberSize(Size(n))
    BY <2>1, NextHeaderBorder
  <2>3. H[n + 1] = H[n] + MemberSize(Size(n))
    BY <1>4
  <2>4. QED
    BY <1>1, <2>1, <2>2, <2>3, SMTT(30)
<1>6. \A n \in 1 .. N - 1 : H[n] < H[n + 1]
  <2>1. ASSUME NEW n \in 1 .. N - 1
        PROVE  H[n] < H[n + 1]
    <3>1. H[n] \in Nat /\ H[n + 1] \in Nat /\ Size(n) \in Nat
      BY <1>1, <1>2, <1>4
    <3>2. QED
      BY <1>1, <1>5, <3>1, SMTT(30)
  <2>2. QED
    BY <2>1
<1>7. \A m, n \in 1 .. N : m < n => H[m] < H[n]
  BY <1>1, <1>4, <1>6, Increasing
<1>8. ASSUME NEW m \in 1 .. N, NEW n \in 1 .. N, m < n
      PROVE  H[m] + BLOCK + Size(m) <= H[n]
  <2>1. m \in 1 .. N - 1 /\ m + 1 \in 1 .. N /\ (m + 1 = n \/ m + 1 < n)
    BY <1>1, <1>8
  <2>2. H[m + 1] <= H[n] /\ H[m] \in Nat /\ H[m + 1] \in Nat /\ H[n] \in Nat /\ Size(m) \in Nat
    BY <1>2, <1>4, <1>7, <2>1, SMTT(30)
  <2>3. H[m] + BLOCK + Size(m) <= H[m + 1]
    BY <1>5, <2>1
  <2>4. \A x, y \in Nat : x + y \in Nat
    OBVIOUS
  <2>5. BLOCK \in Nat
    BY <1>1
  <2>6. H[m] + BLOCK + Size(m) \in Nat
    BY <2>2, <2>4, <2>5, Zenon
  <2>7. \A x, y, z \in Nat : x <= y /\ y <= z => x <= z
    OBVIOUS
  <2>8. QED
    BY <2>2, <2>3, <2>6, <2>7, Zenon
<1>9. ASSUME NEW m \in 1 .. N, NEW n \in 1 .. N, H[m] = H[n]
      PROVE  m = n
  <2>1. ~ (m < n) /\ ~ (n < m)
    BY <1>4, <1>7, <1>9
  <2>2. QED
    BY <1>1, <2>1
<1>10. H[2] = BLOCK
  <2>1. 1 \in 1 .. N - 1 /\ 0 % BLOCK = 0
    BY <1>1
  <2>2. MemberSize(0) = BLOCK
    BY <1>1, <2>1, NextHeaderBorder
  <2>3. H[1 + 1] = 0 + BLOCK
    BY <1>3, <1>4, <2>1, <2>2
  <2>4. QED
    BY <1>1, <2>3
<1>11. QED
  BY <1>8, <1>9, <1>10 DEF H, N, Size

(* strncmp finds names equal that are equal, and no others.                *)
THEOREM ComparesNames ==
  ASSUME BootAssumption, NEW s1 \in Name, NEW s2 \in Name
  PROVE  strncmp(s1, s2, NAME_SIZE) <=> s1 = s2
<1>1. /\ s1 \in Seq(Chars) /\ s2 \in Seq(Chars) /\ NAME_SIZE \in Nat
      /\ Len(s1) \in 1 .. NAME_SIZE /\ Len(s2) \in 1 .. NAME_SIZE
  BY DEF Name, BootAssumption
<1>2. ASSUME NEW s \in Seq(Chars), NEW t \in Seq(Chars), Len(t) <= NAME_SIZE,
             Len(s) < Len(t), \A k \in 1 .. NAME_SIZE : Character(s, k) = Character(t, k)
      PROVE  FALSE
  <2>1. PICK k \in 1 .. NAME_SIZE : k = Len(s) + 1 /\ k \in 1 .. Len(t) /\ ~ (k <= Len(s))
    <3>1. Len(s) \in Nat /\ Len(t) \in Nat
      OBVIOUS
    <3>2. Len(s) + 1 \in 1 .. NAME_SIZE /\ Len(s) + 1 \in 1 .. Len(t) /\ ~ (Len(s) + 1 <= Len(s))
      BY <1>1, <1>2, <3>1
    <3>3. QED
      BY <3>2
  <2>2. Character(s, k) = NUL /\ Character(t, k) = t[k] /\ t[k] \in Chars
    BY <2>1 DEF Character
  <2>3. QED
    BY <1>2, <2>2 DEF BootAssumption
<1>3. ASSUME strncmp(s1, s2, NAME_SIZE)
      PROVE  s1 = s2
  <2>1. \A k \in 1 .. NAME_SIZE : Character(s1, k) = Character(s2, k)
    BY <1>3 DEF strncmp
  <2>2. Len(s1) = Len(s2)
    <3>1. ~ (Len(s1) < Len(s2))
      BY <1>1, <1>2, <2>1
    <3>2. ~ (Len(s2) < Len(s1))
      <4>1. \A k \in 1 .. NAME_SIZE : Character(s2, k) = Character(s1, k)
        BY <2>1
      <4>2. QED
        BY <1>1, <1>2, <4>1
    <3>3. QED
      BY <1>1, <3>1, <3>2
  <2>3. ASSUME NEW k \in 1 .. Len(s1)
        PROVE  s1[k] = s2[k]
    <3>1. k \in 1 .. NAME_SIZE /\ k <= Len(s1) /\ k <= Len(s2)
      BY <1>1, <2>2
    <3>2. QED
      BY <2>1, <3>1 DEF Character
  <2>4. QED
    BY <1>1, <2>2, <2>3, SeqEqual
<1>4. QED
  BY <1>3 DEF strncmp

-----------------------------------------------------------------------------
(* The same, said of the boot the kernel has in its hands.                 *)

(* The tags. *)
LEMMA Tags ==
  ASSUME BootAssumption, TypeOK
  PROVE  /\ Len(boot.tags) \in Nat \ {0}
         /\ DOMAIN boot.tags = 1 .. Len(boot.tags)
         /\ DOMAIN TagAddress = 1 .. Len(boot.tags)
         /\ TagAddress[1] = TagBorder
         /\ boot.tags[Len(boot.tags)].type = "end"
         /\ \A n \in 1 .. Len(boot.tags) :
              /\ boot.tags[n].size \in Nat \ {0} /\ boot.tags[n].type \in TagType
              /\ boot.tags[n].entry_size \in Nat
              /\ TagAddress[n] \in Nat /\ 8 * n <= TagAddress[n]
              /\ PaddedSize(boot.tags[n].size) \in Nat
         /\ \A n \in 1 .. Len(boot.tags) - 1 :
              TagAddress[n + 1] = TagAddress[n] + PaddedSize(boot.tags[n].size)
         /\ \A m, n \in 1 .. Len(boot.tags) :
              /\ TagAddress[m] < TagAddress[n] <=> m < n
              /\ TagAddress[m] < TagAddress[n] + PaddedSize(boot.tags[n].size) <=> m <= n
<1>1. boot \in Boots /\ TagAddress = TagPlaces(boot)
  BY Layout DEF TypeOK
<1>2. \A s \in Nat \ {0} : PaddedSize(s) \in Nat
  BY DEF PaddedSize
<1>3. /\ boot.tags \in Seq(TagInfo)
      /\ Len(boot.tags) \in Nat \ {0}
      /\ boot.tags[Len(boot.tags)].type = "end"
      /\ \A n \in 1 .. Len(boot.tags) :
           /\ boot.tags[n].size \in Nat \ {0} /\ boot.tags[n].type \in TagType
           /\ boot.tags[n].entry_size \in Nat
  BY <1>1, BootShape
<1>4. DOMAIN boot.tags = 1 .. Len(boot.tags)
  BY <1>3
<1>5. /\ DOMAIN TagAddress = 1 .. Len(boot.tags)
      /\ TagAddress[1] = TagBorder
      /\ \A n \in 1 .. Len(boot.tags) : TagAddress[n] \in Nat
      /\ \A n \in 1 .. Len(boot.tags) - 1 :
           TagAddress[n + 1] = TagAddress[n] + PaddedSize(boot.tags[n].size)
  BY <1>1, TagLayout
<1>6. /\ \A m, n \in 1 .. Len(boot.tags) : TagAddress[m] < TagAddress[n] <=> m < n
      /\ \A n \in 1 .. Len(boot.tags) : 8 * n <= TagAddress[n]
      /\ \A m, n \in 1 .. Len(boot.tags) :
           TagAddress[m] < TagAddress[n] + PaddedSize(boot.tags[n].size) <=> m <= n
  BY <1>1, TagOrder
<1>7. QED
  BY <1>2, <1>3, <1>4, <1>5, <1>6

(* The headers. *)
LEMMA Members ==
  ASSUME BootAssumption, TypeOK
  PROVE  /\ Len(boot.archive) \in Nat \ {0}
         /\ DOMAIN boot.archive = 1 .. Len(boot.archive)
         /\ DOMAIN HeaderOffset = 1 .. Len(boot.archive) + 1
         /\ HeaderOffset[2] = BLOCK /\ BLOCK \in Nat \ {0}
         /\ \A n \in 1 .. Len(boot.archive) + 1 : HeaderOffset[n] \in Nat
         /\ \A n \in 1 .. Len(boot.archive) :
              /\ boot.archive[n].name \in Name
              /\ TextEnd(boot.archive[n].name) \in 1 .. BLOCK - 1
              /\ boot.archive[n].size \in FileSize
              /\ boot.archive[n].size \in Nat
              /\ HeaderOffset[n + 1] = HeaderOffset[n] + MemberSize(boot.archive[n].size)
              /\ (boot.archive[n].size % BLOCK = 0) =>
                   HeaderOffset[n + 1] = HeaderOffset[n] + BLOCK + boot.archive[n].size
              /\ (boot.archive[n].size % BLOCK # 0) =>
                   HeaderOffset[n] + BLOCK + boot.archive[n].size < HeaderOffset[n + 1]
         /\ \A m, n \in 1 .. Len(boot.archive) + 1 :
              /\ m < n => HeaderOffset[m] + BLOCK + boot.archive[m].size <= HeaderOffset[n]
              /\ (HeaderOffset[m] = HeaderOffset[n]) => m = n
<1>1. boot \in Boots /\ HeaderOffset = HeaderPlaces(boot)
  BY Layout DEF TypeOK
<1>2. /\ Len(boot.archive) \in Nat \ {0}
      /\ boot.archive \in Seq([name : Name, size : FileSize])
      /\ \A n \in 1 .. Len(boot.archive) :
           boot.archive[n].name \in Name /\ boot.archive[n].size \in FileSize
  BY <1>1, BootShape
<1>3. DOMAIN boot.archive = 1 .. Len(boot.archive) /\ BLOCK \in Nat \ {0}
  BY <1>2 DEF BootAssumption
<1>4. \A s \in Name : TextEnd(s) \in 1 .. BLOCK - 1
  BY DEF Name, TextEnd, BootAssumption
<1>5. /\ DOMAIN HeaderOffset = 1 .. Len(boot.archive) + 1
      /\ \A n \in 1 .. Len(boot.archive) + 1 : HeaderOffset[n] \in Nat /\ HeaderOffset[n] % BLOCK = 0
      /\ \A n \in 1 .. Len(boot.archive) :
           HeaderOffset[n + 1] = HeaderOffset[n] + MemberSize(boot.archive[n].size)
  BY <1>1, HeaderLayout
<1>6. /\ HeaderOffset[2] = BLOCK
      /\ \A m, n \in 1 .. Len(boot.archive) + 1 :
           /\ m < n => HeaderOffset[m] + BLOCK + boot.archive[m].size <= HeaderOffset[n]
           /\ (HeaderOffset[m] = HeaderOffset[n]) => m = n
  BY <1>1, HeaderOrder
<1>7. ASSUME NEW n \in 1 .. Len(boot.archive)
      PROVE  /\ boot.archive[n].size \in Nat
             /\ (boot.archive[n].size % BLOCK = 0) =>
                  HeaderOffset[n + 1] = HeaderOffset[n] + BLOCK + boot.archive[n].size
             /\ (boot.archive[n].size % BLOCK # 0) =>
                  HeaderOffset[n] + BLOCK + boot.archive[n].size < HeaderOffset[n + 1]
  <2>1. PICK s \in Nat : s = boot.archive[n].size
    BY <1>2, SizeIsNat
  <2>2. n \in 1 .. Len(boot.archive) + 1
    BY <1>2
  <2>3. PICK h \in Nat : h = HeaderOffset[n] /\ h % BLOCK = 0
    BY <1>5, <2>2
  <2>4. /\ MemberSize(s) \in Nat
        /\ (s % BLOCK = 0) => MemberSize(s) = BLOCK + s
        /\ (s % BLOCK # 0) => BLOCK + s < MemberSize(s)
    BY <2>3, NextHeaderBorder
  <2>5. HeaderOffset[n + 1] = h + MemberSize(s)
    BY <1>5, <2>1, <2>3
  <2>6. /\ (s % BLOCK = 0) => h + MemberSize(s) = h + BLOCK + s
        /\ (s % BLOCK # 0) => h + BLOCK + s < h + MemberSize(s)
    <3>1. PICK c \in Nat, g \in Nat : c = BLOCK /\ g = MemberSize(s)
      BY <1>3, <2>4
    <3>2. (s % BLOCK = 0 => g = c + s) /\ (s % BLOCK # 0 => c + s < g)
      BY <2>4, <3>1
    <3>3. (g = c + s => h + g = h + c + s) /\ (c + s < g => h + c + s < h + g)
      OBVIOUS
    <3>4. QED
      BY <3>1, <3>2, <3>3, Zenon
  <2>7. QED
    BY <2>1, <2>3, <2>5, <2>6, Zenon
<1>8. QED
  BY <1>2, <1>3, <1>4, <1>5, <1>6, <1>7

(* The layout does not change. *)
LEMMA SameLayout ==
  ASSUME boot' = boot
  PROVE  TagAddress' = TagAddress /\ HeaderOffset' = HeaderOffset
BY ZenonT(60) DEF TagAddress, HeaderOffset

(* The tag at an address is the one that starts there.                     *)
LEMMA TheTagIs ==
  ASSUME BootAssumption, TypeOK, NEW n \in 1 .. Len(boot.tags), TagAddress[n] = tag
  PROVE  TheTag = boot.tags[n]
<1>1. DOMAIN TagAddress = 1 .. Len(boot.tags)
  BY Tags
<1>2. \A m \in DOMAIN TagAddress : TagAddress[m] = tag => m = n
  <2>1. ASSUME NEW m \in 1 .. Len(boot.tags), TagAddress[m] = tag
        PROVE  m = n
    <3>1. Len(boot.tags) \in Nat /\ tag \in Nat
      BY Tags DEF TypeOK
    <3>2. ~ (TagAddress[m] < TagAddress[n]) /\ ~ (TagAddress[n] < TagAddress[m])
      BY <2>1, <3>1
    <3>3. ~ (m < n) /\ ~ (n < m)
      BY <3>2, Tags
    <3>4. QED
      BY <3>1, <3>3
  <2>2. QED
    BY <1>1, <2>1
<1>3. (CHOOSE m \in DOMAIN TagAddress : TagAddress[m] = tag) = n
  BY <1>1, <1>2
<1>4. QED
  BY <1>3 DEF TheTag

(* NulAt in terms of numbers: H holds where the members start, Z their     *)
(* sizes and E the lengths of their names.                                 *)
ZeroAt(L, B, H, Z, E, o) ==
  \/ \E m \in 1 .. L : \/ H[m] + E[m] <= o /\ o < H[m] + B
                       \/ H[m] + B + Z[m] <= o /\ o < H[m + 1]
  \/ H[L + 1] <= o

(* The members lie one behind the other. *)
Fit(L, B, H, Z, E) ==
  /\ H \in [1 .. L + 1 -> Nat] /\ Z \in [1 .. L -> Nat] /\ E \in [1 .. L -> 1 .. B - 1]
  /\ \A m \in 1 .. L, k \in 1 .. L + 1 : m < k => H[m] + B + Z[m] <= H[k]

(* One member lies before another. *)
LEMMA FitPair ==
  ASSUME NEW L \in Nat \ {0}, NEW B \in Nat \ {0}, NEW H, NEW Z, NEW E, Fit(L, B, H, Z, E),
         NEW m \in 1 .. L, NEW k \in 1 .. L + 1, m < k
  PROVE  /\ H[m] \in Nat /\ Z[m] \in Nat /\ E[m] \in Nat /\ 0 < E[m] /\ E[m] < B
         /\ H[k] \in Nat /\ H[m] + B + Z[m] <= H[k]
<1>1. m \in 1 .. L + 1
  OBVIOUS
<1>2. H[m] \in Nat /\ Z[m] \in Nat /\ E[m] \in 1 .. B - 1 /\ H[k] \in Nat
  BY <1>1 DEF Fit
<1>3. H[m] + B + Z[m] <= H[k]
  BY DEF Fit
<1>4. QED
  BY <1>2, <1>3

(* A member that is none of two that follow each other ends before them or *)
(* starts behind them.                                                     *)
LEMMA FitOther ==
  ASSUME NEW L \in Nat \ {0}, NEW B \in Nat \ {0}, NEW H, NEW Z, NEW E, Fit(L, B, H, Z, E),
         NEW n \in 1 .. L, NEW m \in 1 .. L
  PROVE  /\ H[m] \in Nat /\ H[m + 1] \in Nat /\ Z[m] \in Nat
         /\ m < n => H[m] + B <= H[n] /\ H[m + 1] <= H[n]
         /\ n < m => H[n] + B + Z[n] <= H[m] /\ H[n + 1] <= H[m]
         /\ n + 1 < m => H[n + 1] + B <= H[m]
<1>1. /\ m \in 1 .. L + 1 /\ m + 1 \in 1 .. L + 1 /\ m < m + 1
      /\ n \in 1 .. L + 1 /\ n + 1 \in 1 .. L + 1 /\ n < n + 1
  OBVIOUS
<1>2. H[m] \in Nat /\ H[m + 1] \in Nat /\ Z[m] \in Nat
  BY <1>1, FitPair
<1>3. H[n] \in Nat /\ H[n + 1] \in Nat /\ Z[n] \in Nat
  BY <1>1, FitPair
<1>4. \A i \in 1 .. L, k \in 1 .. L + 1 : i < k => H[i] + B <= H[k]
  <2>1. ASSUME NEW i \in 1 .. L, NEW k \in 1 .. L + 1, i < k
        PROVE  H[i] + B <= H[k]
    <3>1. H[i] \in Nat /\ Z[i] \in Nat /\ H[k] \in Nat /\ H[i] + B + Z[i] <= H[k]
      BY <2>1, FitPair
    <3>2. QED
      BY <3>1
  <2>2. QED
    BY <2>1
<1>5. \A i, k \in 1 .. L : i < k => H[i + 1] <= H[k]
  <2>1. ASSUME NEW i \in 1 .. L, NEW k \in 1 .. L, i < k
        PROVE  H[i + 1] <= H[k]
    <3>1. CASE i + 1 = k
      <4>1. k \in 1 .. L + 1 /\ H[k] \in Nat
        BY SMTT(30) DEF Fit
      <4>2. QED
        BY <3>1, <4>1
    <3>2. CASE i + 1 < k
      <4>1. i + 1 \in 1 .. L /\ k \in 1 .. L + 1
        BY <3>2
      <4>2. H[i + 1] \in Nat /\ H[k] \in Nat
        BY <3>2, <4>1, FitPair
      <4>3. H[i + 1] + B <= H[k]
        BY <1>4, <3>2, <4>1
      <4>4. QED
        BY <4>2, <4>3
    <3>3. QED
      BY <2>1, <3>1, <3>2
  <2>2. QED
    BY <2>1
<1>6. m < n => H[m] + B <= H[n] /\ H[m + 1] <= H[n]
  BY <1>1, <1>4, <1>5
<1>7. n < m => H[n] + B + Z[n] <= H[m] /\ H[n + 1] <= H[m]
  BY <1>1, <1>5, FitPair
<1>8. ASSUME n + 1 < m
      PROVE  H[n + 1] + B <= H[m]
  <2>1. n + 1 \in 1 .. L
    BY <1>8
  <2>2. QED
    BY <1>1, <1>4, <1>8, <2>1
<1>9. QED
  BY <1>2, <1>6, <1>7, <1>8

(* The first zero from the data of a member on.                            *)
LEMMA FirstZero ==
  ASSUME NEW L \in Nat \ {0}, NEW B \in Nat \ {0}, NEW H, NEW Z, NEW E, Fit(L, B, H, Z, E),
         NEW n \in 1 .. L, NEW e,
         \/ n < L /\ H[n + 1] = H[n] + B + Z[n] /\ e = H[n + 1] + E[n + 1]
         \/ H[n] + B + Z[n] < H[n + 1] /\ e = H[n] + B + Z[n]
         \/ n = L /\ e = H[n] + B + Z[n] /\ e = H[L + 1]
  PROVE  /\ e \in Nat /\ H[n] + B <= e /\ e <= H[L + 1] /\ ZeroAt(L, B, H, Z, E, e)
         /\ \A y \in Int : H[n] + B <= y /\ y < e => ~ ZeroAt(L, B, H, Z, E, y)
<1>1. n + 1 \in 1 .. L + 1 /\ L + 1 \in 1 .. L + 1 /\ n < L + 1 /\ n < n + 1
  OBVIOUS
<1>2. PICK h \in Nat, z \in Nat, h1 \in Nat, hL \in Nat :
        /\ h = H[n] /\ z = Z[n] /\ h1 = H[n + 1] /\ hL = H[L + 1]
        /\ h + B + z <= h1 /\ h + B + z <= hL
  <2>1. H[n] \in Nat /\ Z[n] \in Nat /\ H[n + 1] \in Nat /\ H[n] + B + Z[n] <= H[n + 1]
    BY <1>1, FitPair
  <2>2. H[L + 1] \in Nat /\ H[n] + B + Z[n] <= H[L + 1]
    BY <1>1, FitPair
  <2>3. QED
    BY <2>1, <2>2
<1>3. PICK e1 \in Nat :
        n < L => e1 = E[n + 1] /\ 0 < e1 /\ e1 < B /\ h1 + B <= hL /\ n + 1 \in 1 .. L
  <2>1. CASE n < L
    <3>1. n + 1 \in 1 .. L /\ n + 1 < L + 1
      BY <2>1
    <3>2. /\ H[n + 1] \in Nat /\ Z[n + 1] \in Nat
          /\ E[n + 1] \in Nat /\ 0 < E[n + 1] /\ E[n + 1] < B
          /\ H[n + 1] + B + Z[n + 1] <= H[L + 1]
      BY <1>1, <3>1, FitPair
    <3>3. H[n + 1] + B <= H[L + 1]
      BY <1>2, <3>2
    <3>4. QED
      BY <1>2, <3>1, <3>2, <3>3
  <2>2. CASE ~ (n < L)
    BY <2>2
  <2>3. QED
    BY <2>1, <2>2
<1>4. \/ n < L /\ h1 = h + B + z /\ e = h1 + e1
      \/ h + B + z < h1 /\ e = h + B + z
      \/ n = L /\ e = h + B + z /\ e = hL
  BY <1>2, <1>3
<1>5. e \in Nat /\ h + B <= e /\ e <= hL
  <2>1. CASE n < L /\ h1 = h + B + z /\ e = h1 + e1
    <3>1. e1 < B /\ h1 + B <= hL
      BY <1>3, <2>1
    <3>2. QED
      BY <2>1, <3>1
  <2>2. CASE h + B + z < h1 /\ e = h + B + z
    BY <1>2, <2>2
  <2>3. CASE n = L /\ e = h + B + z /\ e = hL
    BY <1>2, <2>3
  <2>4. QED
    BY <1>4, <2>1, <2>2, <2>3
<1>6. ZeroAt(L, B, H, Z, E, e)
  <2>1. CASE n < L /\ h1 = h + B + z /\ e = h1 + e1
    <3>1. n + 1 \in 1 .. L /\ H[n + 1] + E[n + 1] <= e /\ e < H[n + 1] + B
      BY <1>2, <1>3, <2>1
    <3>2. QED
      BY <3>1 DEF ZeroAt
  <2>2. CASE h + B + z < h1 /\ e = h + B + z
    <3>1. H[n] + B + Z[n] <= e /\ e < H[n + 1]
      BY <1>2, <2>2
    <3>2. QED
      BY <3>1 DEF ZeroAt
  <2>3. CASE n = L /\ e = h + B + z /\ e = hL
    <3>1. H[L + 1] <= e
      BY <1>2, <2>3
    <3>2. QED
      BY <3>1 DEF ZeroAt
  <2>4. QED
    BY <1>4, <2>1, <2>2, <2>3
<1>7. ASSUME NEW y \in Int, h + B <= y, y < e, ZeroAt(L, B, H, Z, E, y)
      PROVE  FALSE
  <2>1. h + B + z <= y => n < L /\ h1 = h + B + z /\ y < h1 + e1 /\ e1 < B /\ h1 + B <= hL
    BY <1>3, <1>4, <1>7
  <2>2. ASSUME NEW m \in 1 .. L
        PROVE  /\ ~ (H[m] + E[m] <= y /\ y < H[m] + B)
               /\ ~ (H[m] + B + Z[m] <= y /\ y < H[m + 1])
    <3>1. PICK g \in Nat, x \in Nat, g1 \in Nat, d \in Nat :
            /\ g = H[m] /\ x = Z[m] /\ g1 = H[m + 1] /\ d = E[m]
      <4>1. m \in 1 .. L + 1 /\ m + 1 \in 1 .. L + 1 /\ m < m + 1
        OBVIOUS
      <4>2. H[m] \in Nat /\ Z[m] \in Nat /\ H[m + 1] \in Nat /\ E[m] \in Nat
        BY <4>1, FitPair
      <4>3. QED
        BY <4>2
    <3>2. /\ m < n => g + B <= h /\ g1 <= h
          /\ n < m => h + B + z <= g /\ h1 <= g
          /\ n + 1 < m => h1 + B <= g
      BY <1>2, <3>1, FitOther
    <3>3. /\ m = n => g = h /\ x = z /\ g1 = h1
          /\ n < L /\ m = n + 1 => g = h1 /\ d = e1
      BY <1>2, <1>3, <3>1
    <3>4. m < n \/ m = n \/ m = n + 1 \/ n + 1 < m
      OBVIOUS
    <3>5. ~ (g + d <= y /\ y < g + B)
      BY <1>7, <2>1, <3>2, <3>3, <3>4
    <3>6. ~ (g + B + x <= y /\ y < g1)
      BY <1>7, <2>1, <3>2, <3>3, <3>4
    <3>7. QED
      BY <3>1, <3>5, <3>6
  <2>3. ~ (hL <= y)
    BY <1>2, <1>5, <1>7, <2>1
  <2>4. QED
    BY <1>2, <1>7, <2>2, <2>3 DEF ZeroAt
<1>8. QED
  BY <1>2, <1>5, <1>6, <1>7

(* Between two bounds means at the one or behind it, and before the other. *)
LEMMA Between ==
  ASSUME NEW o \in Int, NEW h \in Nat, NEW h1 \in Nat, NEW z \in Nat, NEW d \in Nat,
         NEW c \in Nat
  PROVE  /\ o - h \in d .. c - 1 <=> h + d <= o /\ o < h + c
         /\ o \in h + c + z .. h1 - 1 <=> h + c + z <= o /\ o < h1
  BY SMTT(30)

(* The first NUL from the data of a member on is behind them, or behind    *)
(* the name of the next member if the data fill their last block.          *)
LEMMA StringEnds ==
  ASSUME BootAssumption, TypeOK, NEW n \in 1 .. Len(boot.archive)
  PROVE  StringLength(HeaderOffset[n] + BLOCK)
           = boot.archive[n].size
             + (IF boot.archive[n].size % BLOCK = 0 /\ n < Len(boot.archive)
                THEN TextEnd(boot.archive[n + 1].name) ELSE 0)
<1> DEFINE L == Len(boot.archive)
           H == [m \in 1 .. L + 1 |-> HeaderOffset[m]]
           Z == [m \in 1 .. L |-> boot.archive[m].size]
           E == [m \in 1 .. L |-> TextEnd(boot.archive[m].name)]
           full == boot.archive[n].size % BLOCK = 0 /\ n < L
           p == HeaderOffset[n] + BLOCK
           more == IF full THEN TextEnd(boot.archive[n + 1].name) ELSE 0
           e == p + boot.archive[n].size + more
           S == {o \in p .. HeaderOffset[L + 1] : NulAt(o)}
<1>1. L \in Nat \ {0} /\ BLOCK \in Nat \ {0} /\ n \in 1 .. L
  BY Members
<1>2. /\ \A m \in 1 .. L + 1 : HeaderOffset[m] \in Nat
      /\ \A m \in 1 .. L :
           boot.archive[m].size \in Nat /\ TextEnd(boot.archive[m].name) \in 1 .. BLOCK - 1
  BY Members
<1>3. /\ \A m \in 1 .. L + 1 : H[m] = HeaderOffset[m]
      /\ \A m \in 1 .. L : Z[m] = boot.archive[m].size /\ E[m] = TextEnd(boot.archive[m].name)
      /\ H \in [1 .. L + 1 -> Nat] /\ Z \in [1 .. L -> Nat] /\ E \in [1 .. L -> 1 .. BLOCK - 1]
  BY <1>2
<1>4. /\ n \in 1 .. L + 1 /\ n + 1 \in 1 .. L + 1 /\ L + 1 \in 1 .. L + 1
      /\ n < L => n + 1 \in 1 .. L
  BY <1>1, SMTT(30)
<1>5. \A o \in Int : NulAt(o) <=> ZeroAt(L, BLOCK, H, Z, E, o)
  <2>1. DOMAIN boot.archive = 1 .. L
    BY Members
  <2>2. ASSUME NEW o \in Int, NEW m \in 1 .. L
        PROVE  /\ o - HeaderOffset[m] \in TextEnd(boot.archive[m].name) .. BLOCK - 1
                    <=> H[m] + E[m] <= o /\ o < H[m] + BLOCK
               /\ o \in HeaderOffset[m] + BLOCK + boot.archive[m].size .. HeaderOffset[m + 1] - 1
                    <=> H[m] + BLOCK + Z[m] <= o /\ o < H[m + 1]
    <3>1. m \in 1 .. L + 1 /\ m + 1 \in 1 .. L + 1
      BY <1>1
    <3>2. PICK h \in Nat, h1 \in Nat, z \in Nat, d \in Nat, c \in Nat :
            /\ h = HeaderOffset[m] /\ h1 = HeaderOffset[m + 1] /\ c = BLOCK
            /\ z = boot.archive[m].size /\ d = TextEnd(boot.archive[m].name)
      <4>1. HeaderOffset[m] \in Nat /\ HeaderOffset[m + 1] \in Nat /\ boot.archive[m].size \in Nat
        BY <1>2, <3>1
      <4>2. \A k \in 1 .. BLOCK - 1 : k \in Nat
        BY <1>1
      <4>3. TextEnd(boot.archive[m].name) \in Nat
        BY <1>2, <4>2
      <4>4. QED
        BY <1>1, <4>1, <4>3
    <3>3. H[m] = h /\ H[m + 1] = h1 /\ Z[m] = z /\ E[m] = d
      BY <1>3, <3>1, <3>2
    <3>4. /\ o - h \in d .. c - 1 <=> h + d <= o /\ o < h + c
          /\ o \in h + c + z .. h1 - 1 <=> h + c + z <= o /\ o < h1
      BY Between, Zenon
    <3>5. QED
      BY <3>2, <3>3, <3>4, Zenon
  <2>3. \A o \in Int : o >= HeaderOffset[L + 1] <=> H[L + 1] <= o
    BY <1>2, <1>3, <1>4
  <2> HIDE DEF H, Z, E
  <2>4. ASSUME NEW o \in Int
        PROVE  NulAt(o) <=> ZeroAt(L, BLOCK, H, Z, E, o)
    BY <2>1, <2>2, <2>3, Zenon DEF NulAt, ZeroAt
  <2>5. QED
    BY <2>4
<1>6. Fit(L, BLOCK, H, Z, E)
  <2>1. ASSUME NEW m \in 1 .. L, NEW k \in 1 .. L + 1, m < k
        PROVE  H[m] + BLOCK + Z[m] <= H[k]
    <3>1. m \in 1 .. L + 1
      BY <1>1
    <3>2. HeaderOffset[m] + BLOCK + boot.archive[m].size <= HeaderOffset[k]
      BY <2>1, <3>1, Members
    <3>3. H[m] = HeaderOffset[m] /\ H[k] = HeaderOffset[k] /\ Z[m] = boot.archive[m].size
      BY <1>3, <3>1
    <3>4. QED
      BY <3>2, <3>3
  <2> HIDE DEF H, Z, E
  <2>2. QED
    BY <1>3, <2>1 DEF Fit
<1>7. StringLength(p) = Min(S) - p
  BY DEF StringLength
<1>8. /\ H[n] = HeaderOffset[n] /\ H[n + 1] = HeaderOffset[n + 1] /\ H[L + 1] = HeaderOffset[L + 1]
      /\ Z[n] = boot.archive[n].size
      /\ n < L => E[n + 1] = TextEnd(boot.archive[n + 1].name)
  BY <1>1, <1>3, <1>4
<1> HIDE DEF H, Z, E
<1>9. PICK h \in Nat, z \in Nat, c \in Nat, h1 \in Nat :
        /\ h = HeaderOffset[n] /\ z = boot.archive[n].size /\ c = BLOCK /\ h1 = HeaderOffset[n + 1]
        /\ (z % c = 0) => h1 = h + c + z
        /\ (z % c # 0) => h + c + z < h1
  BY <1>1, <1>2, <1>4, Members
<1>10. more \in Nat /\ p = h + c /\ e = h + c + z + more
  <2>1. n < L => TextEnd(boot.archive[n + 1].name) \in Nat
    BY <1>1, <1>2, <1>4, SMTT(30)
  <2>2. QED
    BY <1>9, <2>1
<1> HIDE DEF e, p, more
<1>11. \/ n < L /\ H[n + 1] = H[n] + BLOCK + Z[n] /\ e = H[n + 1] + E[n + 1]
       \/ H[n] + BLOCK + Z[n] < H[n + 1] /\ e = H[n] + BLOCK + Z[n]
       \/ n = L /\ e = H[n] + BLOCK + Z[n] /\ e = H[L + 1]
  <2>1. CASE full
    <3>1. n < L /\ h1 = h + c + z /\ more = E[n + 1]
      BY <1>8, <1>9, <2>1 DEF more
    <3>2. H[n + 1] = H[n] + BLOCK + Z[n] /\ e = H[n + 1] + E[n + 1]
      BY <1>8, <1>9, <1>10, <3>1
    <3>3. QED
      BY <3>1, <3>2
  <2>2. CASE z % c # 0
    <3>1. more = 0 /\ h + c + z < h1
      BY <1>9, <2>2 DEF more
    <3>2. e = h + c + z
      BY <1>10, <3>1
    <3>3. QED
      BY <1>8, <1>9, <3>1, <3>2
  <2>3. CASE z % c = 0 /\ ~ (n < L)
    <3>1. n = L /\ h1 = h + c + z
      BY <1>1, <1>9, <2>3
    <3>2. more = 0
      BY <1>9, <2>3 DEF more
    <3>3. e = h + c + z + 0
      BY <1>10, <3>2
    <3>4. e = h + c + z
      BY <3>3
    <3>5. QED
      BY <1>8, <1>9, <3>1, <3>4
  <2>4. QED
    BY <1>9, <2>1, <2>2, <2>3
<1> HIDE DEF L
<1>12. /\ e \in Nat /\ H[n] + BLOCK <= e /\ e <= H[L + 1] /\ ZeroAt(L, BLOCK, H, Z, E, e)
       /\ \A y \in Int : H[n] + BLOCK <= y /\ y < e => ~ ZeroAt(L, BLOCK, H, Z, E, y)
  BY <1>1, <1>6, <1>11, FirstZero
<1>13. p = H[n] + BLOCK /\ p \in Nat /\ HeaderOffset[L + 1] = H[L + 1] /\ H[L + 1] \in Nat
  <2>1. p = h + c /\ H[n] + BLOCK = h + c
    BY <1>8, <1>9, <1>10, Zenon
  <2> h + c \in Nat
    OBVIOUS
  <2>2. H[L + 1] \in Nat
    BY <1>2, <1>4, <1>8
  <2>3. QED
    BY <1>8, <2>1, <2>2
<1>14. Min(S) = e
  <2>1. e \in S
    BY <1>5, <1>12, <1>13
  <2>2. ASSUME NEW y \in S
        PROVE  e <= y
    <3>1. y \in Int /\ p <= y /\ NulAt(y)
      BY <1>13
    <3>2. ~ (y < e)
      BY <1>5, <1>12, <1>13, <3>1
    <3>3. QED
      BY <1>12, <3>1, <3>2
  <2>3. S \in SUBSET Int
    BY <1>13
  <2> HIDE DEF S
  <2>4. QED
    BY <2>1, <2>2, <2>3, MinIs
<1>15. StringLength(p) = boot.archive[n].size + more
  <2>1. StringLength(p) = e - p
    BY <1>7, <1>14
  <2>2. PICK k \in Nat : k = more
    BY <1>10
  <2>3. (h + c + z + k) - (h + c) = z + k
    OBVIOUS
  <2>4. QED
    BY <1>9, <1>10, <2>1, <2>2, <2>3
<1>16. QED
  BY <1>15 DEF p, more, L

-----------------------------------------------------------------------------
(* The inductive invariant.                                                *)

(* The walk over the tags.  A list that has overflowed never looks as if   *)
(* it had not: the garbage in __modules_count is an address behind as many *)
(* tags as there are modules.                                              *)
TagInv ==
  /\ pc = "kmain" => tag = NULL
  /\ pc \in {"tags", "entries"} => OnTag
  /\ pc = "entries" => TheTag.type = "mmap"
  /\ ModulesInOrder
  /\ Cardinality(ModulesPassed) > MODULES_MAX_LOAD => __modules_count > MODULES_MAX_LOAD

(* The search stands on a header behind members of other names. *)
Searching ==
  \E n \in 2 .. Len(boot.archive) + 1 :
    AtHeader(n) /\ \A m \in 2 .. n - 1 : boot.archive[m].name # WantedName

FileInv ==
  /\ pc \in {"kmain", "tags", "entries", "modules", "search"} => file = NoFile
  /\ pc = "search" => Searching
  /\ FindsTheFile
  /\ PrintsTheFile

IInv == TypeOK /\ TagInv /\ FileInv

(* Min returns the first member of the name, if there is one.              *)
LEMMA FirstMatch ==
  ASSUME BootAssumption, TypeOK, Matches # {}
  PROVE  /\ Min(Matches) \in 2 .. Len(boot.archive)
         /\ Min(Matches) \in 1 .. Len(boot.archive)
         /\ boot.archive[Min(Matches)].name = WantedName
         /\ \A m \in Matches : Min(Matches) <= m
<1>1. Len(boot.archive) \in Nat
  BY Members
<1>2. Matches \in SUBSET Nat /\ Matches \in SUBSET Int
  BY <1>1 DEF Matches
<1>3. PICK x \in Matches : \A y \in Matches : x <= y
  BY <1>2, LeastNatural
<1>4. Min(Matches) = x
  BY <1>2, <1>3, MinIs
<1>5. x \in 2 .. Len(boot.archive) /\ boot.archive[x].name = WantedName
  BY <1>3 DEF Matches
<1>6. QED
  BY <1>1, <1>3, <1>4, <1>5

(* What the last LOG of kmain is going to put.                             *)
LEMMA Printing ==
  ASSUME BootAssumption, IInv, pc = "returned", file.ptr # NULL
  PROVE  /\ StringLength(file.ptr) \in Nat
         /\ StringLength(file.ptr) =
              LET n == Min(Matches)
                  full == boot.archive[n].size % BLOCK = 0 /\ n < Len(boot.archive)
              IN  boot.archive[n].size + (IF full THEN TextEnd(boot.archive[n + 1].name) ELSE 0)
<1>1. TypeOK
  BY DEF IInv
<1>2. file = IF Matches = {} THEN NoFile
             ELSE [size |-> boot.archive[Min(Matches)].size,
                   ptr |-> HeaderOffset[Min(Matches)] + BLOCK]
  BY Zenon DEF IInv, FileInv, FindsTheFile
<1>3. Matches # {}
  BY <1>2 DEF NoFile
<1>4. PICK n \in 1 .. Len(boot.archive) : n = Min(Matches)
  BY <1>1, <1>3, FirstMatch
<1>5. file.ptr = HeaderOffset[n] + BLOCK
  BY <1>2, <1>3, <1>4
<1>6. StringLength(file.ptr)
        = boot.archive[n].size
          + (IF boot.archive[n].size % BLOCK = 0 /\ n < Len(boot.archive)
             THEN TextEnd(boot.archive[n + 1].name) ELSE 0)
  BY <1>1, <1>5, StringEnds
<1>7. boot.archive[n].size \in Nat
      /\ (n < Len(boot.archive) => TextEnd(boot.archive[n + 1].name) \in Nat)
  <2>1. /\ Len(boot.archive) \in Nat /\ BLOCK \in Nat
        /\ \A m \in 1 .. Len(boot.archive) :
             boot.archive[m].size \in Nat /\ TextEnd(boot.archive[m].name) \in 1 .. BLOCK - 1
    BY <1>1, Members
  <2>2. n < Len(boot.archive) => n + 1 \in 1 .. Len(boot.archive)
    BY <2>1
  <2>3. \A k \in 1 .. BLOCK - 1 : k \in Nat
    BY <2>1
  <2>4. QED
    BY <2>1, <2>2, <2>3
<1>8. StringLength(file.ptr) \in Nat
  <2>1. (IF boot.archive[n].size % BLOCK = 0 /\ n < Len(boot.archive)
         THEN TextEnd(boot.archive[n + 1].name) ELSE 0) \in Nat
    BY <1>7
  <2>2. \A i, k \in Nat : i + k \in Nat
    OBVIOUS
  <2>3. QED
    BY <1>6, <1>7, <2>1, <2>2, Zenon
<1>9. QED
  BY <1>4, <1>6, <1>8, Zenon

(* One step keeps the types. *)
LEMMA TypeStep ==
  ASSUME BootAssumption, IInv, [Next]_vars
  PROVE  TypeOK'
<1>1. TypeOK /\ MODULES_MAX_LOAD \in Nat \ {0} /\ BLOCK \in Nat
  BY DEF IInv, BootAssumption
<1>2. ASSUME NextTag \/ EndTag
      PROVE  boot' = boot /\ tag' \in Nat /\ offset' = offset /\ file' = file /\ printed' = printed
             /\ pc' \in {"tags", "modules"} /\ mmap' = mmap
  <2>1. OnTag /\ tag' = tag + PaddedSize(TheTag.size)
    BY <1>2 DEF NextTag, EndTag
  <2>2. DOMAIN TagAddress = 1 .. Len(boot.tags)
    BY <1>1, Tags
  <2>3. PICK n \in 1 .. Len(boot.tags) : TagAddress[n] = tag
    BY <2>1, <2>2 DEF OnTag
  <2>4. TheTag = boot.tags[n]
    BY <1>1, <2>3, TheTagIs
  <2>5. PaddedSize(TheTag.size) \in Nat
    BY <1>1, <2>4, Tags
  <2>6. /\ boot' = boot /\ offset' = offset /\ file' = file /\ printed' = printed
        /\ pc' \in {"tags", "modules"} /\ mmap' = mmap
    BY <1>2 DEF NextTag, EndTag
  <2>7. tag' \in Nat
    BY <1>1, <2>1, <2>5, SMTT(30) DEF TypeOK
  <2>8. QED
    BY <2>6, <2>7
<1>3. CASE sys_init
  BY <1>1, <1>3, SMTT(30) DEF sys_init, TypeOK, TagBorder
<1>4. CASE ModuleTag
  <2>1. /\ boot' = boot /\ tag' \in Nat /\ offset' = offset /\ file' = file /\ printed' = printed
        /\ pc' \in {"tags", "modules"} /\ mmap' = mmap /\ drivers' = drivers /\ disp_drv' = disp_drv
    BY <1>2, <1>4 DEF ModuleTag
  <2>2. __modules' \in [0 .. MODULES_MAX_LOAD - 1 -> Nat] /\ __modules_count' \in Nat
    <3>1. module_add_to_list(tag)
      BY <1>4 DEF ModuleTag
    <3>2. /\ tag \in Nat /\ __modules_count \in Nat
          /\ __modules \in [0 .. MODULES_MAX_LOAD - 1 -> Nat]
      BY <1>1 DEF TypeOK
    <3>3. CASE __modules_count < MODULES_MAX_LOAD
      BY <1>1, <3>1, <3>2, <3>3, SMTT(30) DEF module_add_to_list
    <3>4. CASE ~ (__modules_count < MODULES_MAX_LOAD)
      BY <3>1, <3>2, <3>4, SMTT(30) DEF module_add_to_list
    <3>5. QED
      BY <3>3, <3>4
  <2>3. QED
    BY <1>1, <2>1, <2>2 DEF TypeOK
<1>5. CASE FramebufferTag
  <2>1. /\ boot' = boot /\ tag' \in Nat /\ offset' = offset /\ file' = file /\ printed' = printed
        /\ pc' \in {"tags", "modules"} /\ mmap' = mmap
    BY <1>2, <1>5 DEF FramebufferTag
  <2>2. /\ __modules' = __modules /\ __modules_count' = __modules_count
        /\ drivers' \subseteq {"text", "rgb"} /\ disp_drv' \in {"text", "rgb", "indexed"}
    BY <1>1, <1>5 DEF FramebufferTag, TypeOK
  <2>3. QED
    BY <1>1, <2>1, <2>2 DEF TypeOK
<1>6. CASE OtherTag
  <2>1. /\ boot' = boot /\ tag' \in Nat /\ offset' = offset /\ file' = file /\ printed' = printed
        /\ pc' \in {"tags", "modules"} /\ mmap' = mmap
    BY <1>2, <1>6 DEF OtherTag
  <2>2. QED
    BY <1>1, <1>6, <2>1 DEF OtherTag, TypeOK
<1>7. CASE EndTag
  <2>1. /\ boot' = boot /\ tag' \in Nat /\ offset' = offset /\ file' = file /\ printed' = printed
        /\ pc' \in {"tags", "modules"} /\ mmap' = mmap
    BY <1>2, <1>7
  <2>2. QED
    BY <1>1, <1>7, <2>1 DEF EndTag, TypeOK
<1>8. CASE tar_init
  BY <1>1, <1>8 DEF tar_init, TypeOK
<1>9. CASE tar_get_file
  <2>1. PICK n \in 1 .. Len(boot.archive) :
          LET size == tar_get_size(SizeDigits(boot.archive[n].size))
          IN  IF strncmp(boot.archive[n].name, WantedName, NAME_SIZE)
              THEN /\ file' = FileBehind(offset, size)
                   /\ pc' = "returned"
                   /\ UNCHANGED offset
              ELSE /\ offset' = offset + MemberSize(size)
                   /\ UNCHANGED <<pc, file>>
    BY <1>9, Zenon DEF tar_get_file
  <2>2. PICK s \in Nat : s = tar_get_size(SizeDigits(boot.archive[n].size))
    <3>1. /\ boot.archive[n].size \in FileSize /\ boot.archive[n].size \in Nat
      BY <1>1, Members
    <3>2. tar_get_size(SizeDigits(boot.archive[n].size)) = boot.archive[n].size
      BY <3>1, SizeReadsBack
    <3>3. QED
      BY <3>1, <3>2
  <2>3. MemberSize(s) \in Nat
    <3>1. PICK c \in Nat \ {0} : c = BLOCK
      BY DEF BootAssumption
    <3>2. s \div c \in Nat
      BY DivideBounds
    <3>3. (s \div c + 1) * c \in Nat
      BY <3>2
    <3>4. QED
      BY <3>1, <3>3, SMTT(30) DEF MemberSize
  <2>4. \/ file' = FileBehind(offset, s) /\ pc' = "returned" /\ offset' = offset
        \/ offset' = offset + MemberSize(s) /\ pc' = pc /\ file' = file
    BY <2>1, <2>2
  <2>5. offset \in Nat
    BY <1>1 DEF TypeOK
  <2>6. /\ offset' \in Nat /\ file' \in [size : Nat, ptr : Nat]
        /\ pc' \in {"kmain", "tags", "entries", "modules", "search", "returned", "done", "astray"}
    <3>1. FileBehind(offset, s) \in [size : Nat, ptr : Nat]
      BY <1>1, <2>5 DEF FileBehind
    <3>2. offset + MemberSize(s) \in Nat
      BY <2>3, <2>5, SMTT(30)
    <3>3. /\ file \in [size : Nat, ptr : Nat]
          /\ pc \in {"kmain", "tags", "entries", "modules", "search", "returned", "done", "astray"}
      BY <1>1 DEF TypeOK
    <3>4. QED
      BY <2>4, <2>5, <3>1, <3>2, <3>3
  <2>7. QED
    BY <1>1, <1>9, <2>6 DEF tar_get_file, TypeOK
<1>10. CASE EndOfArchive
  BY <1>1, <1>10 DEF EndOfArchive, TypeOK
<1>11. CASE LogFile
  <2>1. pc = "returned"
    BY <1>11 DEF LogFile
  <2>2. printed' \in Nat /\ pc' \in {"done", "astray"}
    BY <1>1, <1>11, <2>1, Printing DEF LogFile, TypeOK
  <2>3. QED
    BY <1>1, <1>11, <2>2 DEF LogFile, TypeOK
<1>12. CASE UNCHANGED vars
  BY <1>1, <1>12 DEF vars, TypeOK
<1>13. CASE MmapTag
  BY <1>1, <1>13 DEF MmapTag, TypeOK, BootAssumption
<1>14. CASE MmapEntry
  <2>1. PICK n \in 1 .. Len(boot.tags) : TagAddress[n] = tag
    BY <1>1, <1>14, Tags DEF MmapEntry, IInv, TagInv, OnTag
  <2>2. TheTag = boot.tags[n]
    BY <1>1, <2>1, TheTagIs
  <2>3. TheTag.entry_size \in Nat
    BY <1>1, <2>2, Tags
  <2>4. mmap' \in Nat
    <3>1. mmap \in Nat
      BY <1>1 DEF TypeOK
    <3>2. mmap' = mmap + TheTag.entry_size
      BY <1>14 DEF MmapEntry
    <3>3. \A i, k \in Nat : i + k \in Nat
      OBVIOUS
    <3>4. QED
      BY <2>3, <3>1, <3>2, <3>3, Zenon
  <2>5. QED
    BY <1>1, <1>14, <2>4 DEF MmapEntry, TypeOK
<1>15. CASE MmapEnd
  <2>1. /\ boot' = boot /\ tag' \in Nat /\ offset' = offset /\ file' = file /\ printed' = printed
        /\ pc' \in {"tags", "modules"} /\ mmap' = mmap
    BY <1>2, <1>15 DEF MmapEnd
  <2>2. QED
    BY <1>1, <1>15, <2>1 DEF MmapEnd, TypeOK
<1>16. QED
  BY <1>3, <1>4, <1>5, <1>6, <1>7, <1>8, <1>9, <1>10, <1>11, <1>12, <1>13, <1>14, <1>15 DEF Next

(* How many of a set of modules come before one.                           *)
BeforeIn(P, n) == Cardinality({m \in P : m < n})

(* The modules P are in the list mods with its counter count.              *)
Listed(P, A, mods, count) ==
  /\ \A n \in P : BeforeIn(P, n) < MODULES_MAX_LOAD => mods[BeforeIn(P, n)] = A[n]
  /\ Cardinality(P) <= MODULES_MAX_LOAD => count = Cardinality(P)
  /\ Cardinality(P) > MODULES_MAX_LOAD => count > MODULES_MAX_LOAD

(* That is ModulesInOrder, and what TagInv adds to it.                     *)
LEMMA ListedIs ==
  Listed(ModulesPassed, TagAddress, __modules, __modules_count)
    <=> /\ ModulesInOrder
        /\ Cardinality(ModulesPassed) > MODULES_MAX_LOAD => __modules_count > MODULES_MAX_LOAD
BY Zenon DEF Listed, ModulesInOrder, Before, BeforeIn

(* module_add_to_list keeps the list right, as far as there is room.       *)
LEMMA OneMoreModule ==
  ASSUME BootAssumption, NEW n \in Nat \ {0}, NEW P \in SUBSET (1 .. n - 1), NEW A,
         A[n] \in Nat, 8 * n <= A[n],
         NEW mods \in [0 .. MODULES_MAX_LOAD - 1 -> Nat], NEW count \in Nat,
         Listed(P, A, mods, count), NEW mods2, NEW count2,
         IF count < MODULES_MAX_LOAD
         THEN mods2 = [mods EXCEPT ![count] = A[n]] /\ count2 = count + 1
         ELSE mods2 = mods /\ count2 \in {count + 1, A[n] + 1}
  PROVE  Listed(P \union {n}, A, mods2, count2)
<1> DEFINE Q == P \union {n}
<1>1. MODULES_MAX_LOAD \in Nat \ {0}
  BY DEF BootAssumption
<1>2. IsFiniteSet(1 .. n - 1) /\ Cardinality(1 .. n - 1) = n - 1
  <2>1. PICK k \in Nat : k = n - 1
    BY SMTT(30)
  <2>2. 1 \in Int /\ k \in Int
    BY <2>1
  <2>3. IsFiniteSet(1 .. k) /\ Cardinality(1 .. k) = IF 1 > k THEN 0 ELSE k - 1 + 1
    BY <2>2, FS_Interval, Zenon
  <2>4. (IF 1 > k THEN 0 ELSE k - 1 + 1) = k
    OBVIOUS
  <2>5. QED
    BY <2>1, <2>3, <2>4
<1>3. IsFiniteSet(P) /\ Cardinality(P) \in Nat /\ Cardinality(P) <= n - 1
  BY <1>2, FS_Subset, FS_CardinalityType, ZenonT(60)
<1>4. PICK K \in Nat : K = Cardinality(P) /\ K <= n - 1
  BY <1>3
<1>5. n \notin P
  OBVIOUS
<1>6. Cardinality(Q) = K + 1
  BY <1>3, <1>4, <1>5, FS_AddElement
<1>7. BeforeIn(Q, n) = K
  <2>1. {m \in Q : m < n} = P
    <3>1. (\A m \in P : m < n) /\ ~ (n < n)
      OBVIOUS
    <3>2. QED
      BY <3>1, Zenon
  <2>2. QED
    BY <1>4, <2>1 DEF BeforeIn
<1>8. ASSUME NEW m \in P
      PROVE  BeforeIn(Q, m) = BeforeIn(P, m) /\ BeforeIn(P, m) \in Nat /\ BeforeIn(P, m) < K
  <2> DEFINE T == {k \in P : k < m}
  <2>1. {k \in Q : k < m} = T
    BY SMTT(30)
  <2>2. T \in SUBSET P /\ m \notin T
    OBVIOUS
  <2> HIDE DEF T
  <2>3. IsFiniteSet(T) /\ Cardinality(T) <= Cardinality(P) /\ Cardinality(T) # Cardinality(P)
    BY <1>3, <2>2, FS_Subset
  <2>4. Cardinality(T) \in Nat
    BY <2>3, FS_CardinalityType
  <2>5. BeforeIn(Q, m) = Cardinality(T) /\ BeforeIn(P, m) = Cardinality(T)
    BY <2>1 DEF BeforeIn, T
  <2>6. QED
    BY <1>4, <2>3, <2>4, <2>5, SMTT(30)
<1>9. /\ \A m \in P : BeforeIn(P, m) < MODULES_MAX_LOAD => mods[BeforeIn(P, m)] = A[m]
      /\ K <= MODULES_MAX_LOAD => count = K
      /\ K > MODULES_MAX_LOAD => count > MODULES_MAX_LOAD
  BY <1>4 DEF Listed
<1> HIDE DEF Q
<1>10. CASE count < MODULES_MAX_LOAD
  <2>1. count = K /\ K < MODULES_MAX_LOAD /\ count2 = K + 1 /\ mods2 = [mods EXCEPT ![K] = A[n]]
    BY <1>1, <1>9, <1>10, SMTT(30)
  <2>2. K \in 0 .. MODULES_MAX_LOAD - 1
    BY <1>1, <2>1
  <2>3. mods2[K] = A[n]
    BY <2>1, <2>2
  <2>4. ASSUME NEW m \in P, BeforeIn(Q, m) < MODULES_MAX_LOAD
        PROVE  mods2[BeforeIn(Q, m)] = A[m]
    <3>1. PICK b \in Nat : b = BeforeIn(P, m) /\ b = BeforeIn(Q, m) /\ b < K
      BY <1>8
    <3>2. b \in 0 .. MODULES_MAX_LOAD - 1 /\ b # K /\ b < MODULES_MAX_LOAD
      BY <1>1, <2>1, <3>1, SMTT(30)
    <3>3. mods2[b] = mods[b]
      BY <2>1, <3>2
    <3>4. mods[b] = A[m]
      BY <1>9, <3>1, <3>2
    <3>5. QED
      BY <3>1, <3>3, <3>4
  <2>5. \A m \in Q : m \in P \/ m = n
    BY DEF Q
  <2>6. \A m \in Q : BeforeIn(Q, m) < MODULES_MAX_LOAD => mods2[BeforeIn(Q, m)] = A[m]
    BY <1>7, <2>3, <2>4, <2>5
  <2>7. ~ (K + 1 > MODULES_MAX_LOAD)
    BY <1>1, <2>1
  <2>8. QED
    BY <1>6, <2>1, <2>6, <2>7 DEF Listed, Q
<1>11. CASE ~ (count < MODULES_MAX_LOAD)
  <2>1. mods2 = mods /\ count2 \in {count + 1, A[n] + 1}
    BY <1>11
  <2>2. K >= MODULES_MAX_LOAD
    BY <1>1, <1>9, <1>11
  <2>3. count2 > MODULES_MAX_LOAD /\ K + 1 > MODULES_MAX_LOAD
    <3>1. count > MODULES_MAX_LOAD \/ count = MODULES_MAX_LOAD
      BY <1>1, <1>9, <2>2, SMTT(30)
    <3>2. A[n] >= K + 1 /\ A[n] \in Nat
      <4>1. PICK a \in Nat : a = A[n] /\ 8 * n <= a
        OBVIOUS
      <4>2. a >= K + 1
        BY <1>4, <4>1, SMTT(30)
      <4>3. QED
        BY <4>1, <4>2
    <3>3. K + 1 > MODULES_MAX_LOAD
      BY <1>1, <2>2
    <3>4. CASE count2 = count + 1
      BY <1>1, <3>1, <3>3, <3>4
    <3>5. CASE count2 = A[n] + 1
      BY <1>1, <3>2, <3>3, <3>5, SMTT(30)
    <3>6. QED
      BY <2>1, <3>4, <3>5
  <2>4. ASSUME NEW m \in P, BeforeIn(Q, m) < MODULES_MAX_LOAD
        PROVE  mods2[BeforeIn(Q, m)] = A[m]
    <3>1. BeforeIn(P, m) = BeforeIn(Q, m) /\ BeforeIn(P, m) < MODULES_MAX_LOAD
      BY <1>8, <2>4, Zenon
    <3>2. QED
      BY <1>9, <2>1, <2>4, <3>1, Zenon
  <2>5. ~ (K < MODULES_MAX_LOAD) /\ ~ (K + 1 <= MODULES_MAX_LOAD)
    BY <1>1, <2>2, SMTT(30)
  <2>6. \A m \in Q : m \in P \/ m = n
    BY DEF Q
  <2>7. \A m \in Q : BeforeIn(Q, m) < MODULES_MAX_LOAD => mods2[BeforeIn(Q, m)] = A[m]
    BY <1>7, <2>4, <2>5, <2>6
  <2>8. QED
    BY <1>6, <2>3, <2>5, <2>7 DEF Listed, Q
<1>12. QED
  BY <1>10, <1>11

(* The modules passed behind the tag n are those up to it.                 *)
LEMMA PassedUpTo ==
  ASSUME BootAssumption, TypeOK, boot' = boot,
         NEW n \in 1 .. Len(boot.tags), TagAddress[n] = tag,
         tag' = tag + PaddedSize(boot.tags[n].size)
  PROVE  /\ ModulesPassed \subseteq 1 .. n - 1
         /\ ModulesPassed' = IF boot.tags[n].type = "module" THEN ModulesPassed \union {n}
                             ELSE ModulesPassed
<1>1. Len(boot.tags) \in Nat /\ DOMAIN boot.tags = 1 .. Len(boot.tags)
  BY Tags
<1>2. TagAddress' = TagAddress
  BY SameLayout
<1>3. \A m \in 1 .. Len(boot.tags) :
        /\ TagAddress[m] < tag <=> m < n
        /\ TagAddress[m] < tag' <=> m <= n
  <2>1. ASSUME NEW m \in 1 .. Len(boot.tags)
        PROVE  /\ TagAddress[m] < tag <=> m < n
               /\ TagAddress[m] < tag' <=> m <= n
    <3>1. /\ TagAddress[m] < TagAddress[n] <=> m < n
          /\ TagAddress[m] < TagAddress[n] + PaddedSize(boot.tags[n].size) <=> m <= n
      BY Tags
    <3>2. QED
      BY <3>1
  <2>2. QED
    BY <2>1
<1>4. ModulesPassed = {m \in 1 .. Len(boot.tags) : boot.tags[m].type = "module" /\ m < n}
  BY <1>1, <1>3 DEF ModulesPassed
<1>5. ModulesPassed' = {m \in 1 .. Len(boot.tags) : boot.tags[m].type = "module" /\ m <= n}
  BY <1>1, <1>2, <1>3 DEF ModulesPassed
<1>6. QED
  BY <1>1, <1>4, <1>5, SMTT(30)

(* One step keeps the walk over the tags on its way and the list right.    *)
LEMMA TagStep ==
  ASSUME BootAssumption, IInv, [Next]_vars
  PROVE  TagInv'
<1>1. /\ TypeOK /\ MODULES_MAX_LOAD \in Nat \ {0}
      /\ Listed(ModulesPassed, TagAddress, __modules, __modules_count)
      /\ pc = "kmain" => tag = NULL
      /\ pc \in {"tags", "entries"} => OnTag
      /\ pc = "entries" => TheTag.type = "mmap"
  BY ListedIs DEF IInv, TagInv, BootAssumption
<1>2. SUFFICES /\ pc' = "kmain" => tag' = NULL
               /\ pc' \in {"tags", "entries"} => OnTag'
               /\ pc' = "entries" => TheTag.type' = "mmap"
               /\ Listed(ModulesPassed', TagAddress', __modules', __modules_count')
  <2>1. (Listed(ModulesPassed, TagAddress, __modules, __modules_count)
           <=> /\ ModulesInOrder
               /\ Cardinality(ModulesPassed) > MODULES_MAX_LOAD => __modules_count > MODULES_MAX_LOAD)'
    BY ListedIs, PTL
  <2>2. QED
    BY <2>1 DEF TagInv, Listed, BeforeIn
<1>3. boot' = boot /\ TagAddress' = TagAddress
  <2>1. boot' = boot
    BY DEF Next, vars, sys_init, NextTag, ModuleTag, FramebufferTag, OtherTag, EndTag,
           MmapTag, MmapEntry, MmapEnd, tar_init,
           tar_get_file, EndOfArchive, LogFile
  <2>2. QED
    BY <2>1, SameLayout
<1>4. Len(boot.tags) \in Nat \ {0} /\ DOMAIN TagAddress = 1 .. Len(boot.tags)
  BY <1>1, Tags
<1>5. ASSUME tag' = tag, __modules' = __modules, __modules_count' = __modules_count
      PROVE  Listed(ModulesPassed', TagAddress', __modules', __modules_count')
  <2>1. ModulesPassed' = ModulesPassed
    BY <1>3, <1>5 DEF ModulesPassed
  <2>2. QED
    BY <1>1, <1>3, <1>5, <2>1
<1>6. ASSUME OnTag, tag' = tag + PaddedSize(TheTag.size)
      PROVE  \E n \in 1 .. Len(boot.tags) :
               /\ TheTag = boot.tags[n] /\ TagAddress[n] = tag
               /\ ModulesPassed \subseteq 1 .. n - 1
               /\ ModulesPassed' = IF TheTag.type = "module" THEN ModulesPassed \union {n}
                                   ELSE ModulesPassed
  <2>1. PICK n \in 1 .. Len(boot.tags) : TagAddress[n] = tag
    BY <1>4, <1>6 DEF OnTag
  <2>2. TheTag = boot.tags[n]
    BY <1>1, <2>1, TheTagIs
  <2>3. tag' = tag + PaddedSize(boot.tags[n].size)
    BY <1>6, <2>2
  <2>4. /\ ModulesPassed \subseteq 1 .. n - 1
        /\ ModulesPassed' = IF boot.tags[n].type = "module" THEN ModulesPassed \union {n}
                            ELSE ModulesPassed
    BY <1>1, <1>3, <2>1, <2>3, PassedUpTo
  <2>5. QED
    BY <2>1, <2>2, <2>4
<1>7. ASSUME NextTag
      PROVE  pc' = "tags" /\ OnTag'
  <2>1. pc' = "tags" /\ OnTag /\ TheTag.type # "end" /\ tag' = tag + PaddedSize(TheTag.size)
    BY <1>7 DEF NextTag
  <2>2. PICK n \in 1 .. Len(boot.tags) : TheTag = boot.tags[n] /\ TagAddress[n] = tag
    BY <1>6, <2>1
  <2>3. n # Len(boot.tags)
    BY <1>1, <2>1, <2>2, Tags
  <2>4. n \in 1 .. Len(boot.tags) - 1 /\ n + 1 \in 1 .. Len(boot.tags)
    BY <1>4, <2>3
  <2>5. TagAddress[n + 1] = TagAddress[n] + PaddedSize(boot.tags[n].size)
    BY <1>1, <2>4, Tags
  <2>6. tag' = TagAddress[n + 1]
    BY <2>1, <2>2, <2>5
  <2>7. OnTag'
    BY <1>3, <1>4, <2>4, <2>6 DEF OnTag
  <2>8. QED
    BY <2>1, <2>7
<1>8. CASE sys_init
  <2>1. tag = NULL /\ __modules' = __modules /\ __modules_count' = __modules_count
    BY <1>1, <1>8 DEF sys_init
  <2>2. (pc' = "tags" /\ tag' = TagBorder) \/ (pc' = "modules" /\ tag' = tag)
    BY <1>8, Zenon DEF sys_init
  <2>3. CASE pc' = "tags" /\ tag' = TagBorder
    <3>1. TagAddress[1] = TagBorder /\ 1 \in DOMAIN TagAddress
      BY <1>1, <1>4, Tags
    <3>2. OnTag'
      BY <1>3, <2>3, <3>1 DEF OnTag
    <3>3. \A n \in 1 .. Len(boot.tags) : ~ (TagAddress[n] < tag) /\ ~ (TagAddress[n] < tag')
      <4>1. ASSUME NEW n \in 1 .. Len(boot.tags)
            PROVE  ~ (TagAddress[n] < tag) /\ ~ (TagAddress[n] < tag')
        <5>1. TagAddress[n] \in Nat /\ 8 * n <= TagAddress[n]
          BY <1>1, Tags
        <5>2. QED
          BY <2>1, <2>3, <5>1 DEF NULL, TagBorder
      <4>2. QED
        BY <4>1
    <3>4. DOMAIN boot.tags = 1 .. Len(boot.tags)
      BY <1>1, Tags
    <3>5. ModulesPassed' = ModulesPassed
      BY <1>3, <3>3, <3>4 DEF ModulesPassed
    <3>6. QED
      BY <1>1, <1>3, <2>1, <2>3, <3>2, <3>5
  <2>4. CASE pc' = "modules" /\ tag' = tag
    BY <1>5, <2>1, <2>4
  <2>5. QED
    BY <2>2, <2>3, <2>4
<1>9. CASE ModuleTag
  <2>1. NextTag /\ TheTag.type = "module" /\ module_add_to_list(tag)
    BY <1>9 DEF ModuleTag
  <2>2. OnTag /\ tag' = tag + PaddedSize(TheTag.size)
    BY <2>1 DEF NextTag
  <2>3. PICK n \in 1 .. Len(boot.tags) :
          /\ TheTag = boot.tags[n] /\ TagAddress[n] = tag
          /\ ModulesPassed \subseteq 1 .. n - 1 /\ ModulesPassed' = ModulesPassed \union {n}
    BY <1>6, <2>1, <2>2
  <2>4. TagAddress[n] \in Nat /\ 8 * n <= TagAddress[n] /\ n \in Nat \ {0}
    BY <1>1, <1>4, Tags
  <2>5. /\ __modules \in [0 .. MODULES_MAX_LOAD - 1 -> Nat] /\ __modules_count \in Nat
    BY <1>1 DEF TypeOK
  <2>6. IF __modules_count < MODULES_MAX_LOAD
        THEN /\ __modules' = [__modules EXCEPT ![__modules_count] = TagAddress[n]]
             /\ __modules_count' = __modules_count + 1
        ELSE /\ __modules' = __modules
             /\ __modules_count' \in {__modules_count + 1, TagAddress[n] + 1}
    BY <2>1, <2>3 DEF module_add_to_list
  <2>7. Listed(ModulesPassed \union {n}, TagAddress, __modules', __modules_count')
    BY <1>1, <2>3, <2>4, <2>5, <2>6, OneMoreModule
  <2>8. QED
    BY <1>3, <1>7, <2>1, <2>3, <2>7
<1>10. ASSUME NextTag, TheTag.type # "module", __modules' = __modules,
              __modules_count' = __modules_count
       PROVE  Listed(ModulesPassed', TagAddress', __modules', __modules_count')
  <2>1. OnTag /\ tag' = tag + PaddedSize(TheTag.size)
    BY <1>10 DEF NextTag
  <2>2. ModulesPassed' = ModulesPassed
    BY <1>6, <1>10, <2>1
  <2>3. QED
    BY <1>1, <1>3, <1>10, <2>2
<1>11. CASE FramebufferTag
  <2>1. NextTag /\ TheTag.type # "module" /\ __modules' = __modules
        /\ __modules_count' = __modules_count
    BY <1>11 DEF FramebufferTag
  <2>2. QED
    BY <1>7, <1>10, <2>1
<1>12. CASE OtherTag
  <2>1. NextTag /\ TheTag.type # "module" /\ __modules' = __modules
        /\ __modules_count' = __modules_count
    BY <1>12 DEF OtherTag
  <2>2. QED
    BY <1>7, <1>10, <2>1
<1>13. CASE EndTag
  <2>1. /\ pc = "tags" /\ OnTag /\ TheTag.type = "end" /\ tag' = tag + PaddedSize(TheTag.size)
        /\ pc' = "modules" /\ __modules' = __modules /\ __modules_count' = __modules_count
    BY <1>13 DEF EndTag
  <2>2. ModulesPassed' = ModulesPassed
    BY <1>6, <2>1
  <2>3. QED
    BY <1>1, <1>3, <2>1, <2>2
<1>14. CASE tar_init \/ tar_get_file \/ EndOfArchive \/ LogFile
  <2>1. /\ pc' \notin {"kmain", "tags", "entries"}
        /\ tag' = tag /\ __modules' = __modules /\ __modules_count' = __modules_count
    BY <1>14 DEF tar_init, tar_get_file, EndOfArchive, LogFile
  <2>2. QED
    BY <1>5, <2>1
<1>15. CASE UNCHANGED vars
  <2>1. /\ pc' = pc /\ tag' = tag /\ __modules' = __modules /\ __modules_count' = __modules_count
    BY <1>15 DEF vars
  <2>2. (OnTag' <=> OnTag) /\ TheTag' = TheTag
    BY <1>3, <2>1 DEF OnTag, TheTag
  <2>3. QED
    BY <1>1, <1>5, <2>1, <2>2
<1>16. CASE MmapTag \/ MmapEntry
  <2>1. /\ pc' = "entries" /\ tag' = tag /\ __modules' = __modules
        /\ __modules_count' = __modules_count /\ OnTag /\ TheTag.type = "mmap"
    BY <1>1, <1>16 DEF MmapTag, MmapEntry
  <2>2. OnTag' /\ TheTag' = TheTag
    BY <1>3, <2>1 DEF OnTag, TheTag
  <2>3. QED
    BY <1>5, <2>1, <2>2
<1>17. CASE MmapEnd
  <2>1. NextTag /\ TheTag.type # "module" /\ __modules' = __modules
        /\ __modules_count' = __modules_count
    BY <1>1, <1>17 DEF MmapEnd
  <2>2. QED
    BY <1>7, <1>10, <2>1
<1>18. QED
  BY <1>8, <1>9, <1>11, <1>12, <1>13, <1>14, <1>15, <1>16, <1>17 DEF Next

(* One step keeps the search on its way, its result and what is printed.   *)
LEMMA FileStep ==
  ASSUME BootAssumption, IInv, [Next]_vars
  PROVE  FileInv'
<1>1. /\ TypeOK /\ FindsTheFile /\ PrintsTheFile
      /\ pc \in {"kmain", "tags", "entries", "modules", "search"} => file = NoFile
      /\ pc = "search" => Searching
  BY DEF IInv, FileInv
<1>2. boot' = boot /\ HeaderOffset' = HeaderOffset /\ Matches' = Matches
  <2>1. boot' = boot
    BY DEF Next, vars, sys_init, NextTag, ModuleTag, FramebufferTag, OtherTag, EndTag,
           MmapTag, MmapEntry, MmapEnd, tar_init,
           tar_get_file, EndOfArchive, LogFile
  <2>2. QED
    BY <2>1, SameLayout DEF Matches
<1>3. /\ Len(boot.archive) \in Nat \ {0}
      /\ DOMAIN HeaderOffset = 1 .. Len(boot.archive) + 1
      /\ HeaderOffset[2] = BLOCK
  BY <1>1, Members
<1>4. \A n : AtHeader(n) <=> n \in 1 .. Len(boot.archive) + 1 /\ HeaderOffset[n] = offset
  BY <1>3 DEF AtHeader
<1>5. ASSUME NEW n \in 2 .. Len(boot.archive) + 1, HeaderOffset[n] = offset',
             \A m \in 2 .. n - 1 : boot.archive[m].name # WantedName
      PROVE  Searching'
  <2>1. AtHeader(n)'
    BY <1>2, <1>3, <1>5 DEF AtHeader
  <2>2. QED
    BY <1>2, <1>5, <2>1 DEF Searching
<1>6. ASSUME pc' \in {"tags", "entries", "modules"}, file' = NoFile
      PROVE  FileInv'
  BY <1>6 DEF FileInv, FindsTheFile, PrintsTheFile
<1>7. CASE \/ sys_init \/ ModuleTag \/ FramebufferTag \/ OtherTag \/ EndTag
           \/ MmapTag \/ MmapEntry \/ MmapEnd
  <2>1. pc \in {"kmain", "tags", "entries"} /\ pc' \in {"tags", "entries", "modules"} /\ file' = file
    BY <1>7 DEF sys_init, ModuleTag, FramebufferTag, OtherTag, EndTag, NextTag, MmapTag, MmapEntry,
                MmapEnd
  <2>2. QED
    BY <1>1, <1>6, <2>1
<1>8. CASE tar_init
  <2>1. /\ pc = "modules" /\ file' = file
        /\ pc' = "astray" \/ (pc' = "search" /\ offset' = BLOCK)
    BY <1>8, Zenon DEF tar_init
  <2>2. 2 \in 2 .. Len(boot.archive) + 1 /\ \A m \in 2 .. 2 - 1 : boot.archive[m].name # WantedName
    BY <1>3
  <2>3. pc' = "search" => Searching'
    BY <1>3, <1>5, <2>1, <2>2
  <2>4. file' = NoFile
    BY <1>1, <2>1
  <2>5. QED
    BY <2>1, <2>3, <2>4 DEF FileInv, FindsTheFile, PrintsTheFile
<1>9. ASSUME pc = "search", NEW n, AtHeader(n)
      PROVE  /\ n \in 2 .. Len(boot.archive) + 1
             /\ \A m \in 2 .. n - 1 : boot.archive[m].name # WantedName
             /\ HeaderOffset[n] = offset
  <2>1. PICK k \in 2 .. Len(boot.archive) + 1 :
          AtHeader(k) /\ \A m \in 2 .. k - 1 : boot.archive[m].name # WantedName
    BY <1>1, <1>9 DEF Searching
  <2>2. /\ n \in 1 .. Len(boot.archive) + 1 /\ HeaderOffset[n] = offset
        /\ k \in 1 .. Len(boot.archive) + 1 /\ HeaderOffset[k] = offset
    BY <1>4, <1>9, <2>1
  <2>3. k = n
    BY <1>1, <2>2, Members
  <2>4. QED
    BY <2>1, <2>2, <2>3
<1>10. CASE tar_get_file
  <2>1. pc = "search" /\ file = NoFile
    BY <1>1, <1>10 DEF tar_get_file
  <2>2. PICK n \in 1 .. Len(boot.archive) :
          LET size == tar_get_size(SizeDigits(boot.archive[n].size))
          IN  /\ AtHeader(n)
              /\ IF strncmp(boot.archive[n].name, WantedName, NAME_SIZE)
                 THEN /\ file' = FileBehind(offset, size)
                      /\ pc' = "returned"
                      /\ UNCHANGED offset
                 ELSE /\ offset' = offset + MemberSize(size)
                      /\ UNCHANGED <<pc, file>>
    BY <1>10, Zenon DEF tar_get_file
  <2>3. tar_get_size(SizeDigits(boot.archive[n].size)) = boot.archive[n].size
    <3>1. boot.archive[n].size \in FileSize
      BY <1>1, Members
    <3>2. QED
      BY <3>1, SizeReadsBack
  <2>4. /\ n \in 2 .. Len(boot.archive) + 1 /\ HeaderOffset[n] = offset
        /\ \A m \in 2 .. n - 1 : boot.archive[m].name # WantedName
    <3>1. AtHeader(n)
      BY <2>2
    <3>2. QED
      BY <1>9, <2>1, <3>1
  <2>5. strncmp(boot.archive[n].name, WantedName, NAME_SIZE) <=> boot.archive[n].name = WantedName
    <3>1. boot.archive[n].name \in Name /\ WantedName \in Name
      BY <1>1, Members DEF BootAssumption
    <3>2. QED
      BY <3>1, ComparesNames
  <2>6. CASE boot.archive[n].name = WantedName
    <3>1. file' = FileBehind(offset, boot.archive[n].size) /\ pc' = "returned"
      BY <2>2, <2>3, <2>5, <2>6
    <3>2. n \in Matches
      BY <1>3, <2>4, <2>6 DEF Matches
    <3>3. /\ Min(Matches) \in 2 .. Len(boot.archive) /\ Min(Matches) <= n
          /\ boot.archive[Min(Matches)].name = WantedName
      BY <1>1, <3>2, FirstMatch
    <3>4. Min(Matches) = n
      <4>1. PICK k \in 2 .. Len(boot.archive) : k = Min(Matches)
        BY <3>3
      <4>2. k \notin 2 .. n - 1
        BY <2>4, <3>3, <4>1
      <4>3. QED
        BY <1>3, <2>4, <3>3, <4>1, <4>2, SMTT(30)
    <3>5. file' = [size |-> boot.archive[n].size, ptr |-> HeaderOffset[n] + BLOCK]
      BY <2>4, <3>1 DEF FileBehind
    <3>6. FindsTheFile'
      BY <1>2, <3>2, <3>4, <3>5 DEF FindsTheFile
    <3>7. QED
      BY <3>1, <3>6 DEF FileInv, PrintsTheFile
  <2>7. CASE boot.archive[n].name # WantedName
    <3>1. offset' = offset + MemberSize(boot.archive[n].size) /\ pc' = pc /\ file' = file
      BY <2>2, <2>3, <2>5, <2>7
    <3>2. HeaderOffset[n + 1] = offset'
      BY <1>1, <2>4, <3>1, Members
    <3>3. n + 1 \in 2 .. Len(boot.archive) + 1
      BY <1>3, <2>4, SMTT(30)
    <3>4. \A m \in 2 .. (n + 1) - 1 : boot.archive[m].name # WantedName
      <4>1. \A m \in 2 .. (n + 1) - 1 : m = n \/ m \in 2 .. n - 1
        BY <1>3, <2>4
      <4>2. QED
        BY <2>4, <2>7, <4>1
    <3>5. Searching'
      BY <1>5, <3>2, <3>3, <3>4
    <3>6. QED
      BY <2>1, <3>1, <3>5 DEF FileInv, FindsTheFile, PrintsTheFile
  <2>8. QED
    BY <2>6, <2>7
<1>11. CASE EndOfArchive
  <2>1. pc = "search" /\ file = NoFile /\ pc' = "returned" /\ file' = file
        /\ AtHeader(Len(boot.archive) + 1)
    BY <1>1, <1>11 DEF EndOfArchive
  <2>2. \A m \in 2 .. (Len(boot.archive) + 1) - 1 : boot.archive[m].name # WantedName
    BY <1>9, <2>1
  <2>3. Matches = {}
    BY <1>3, <2>2, SMTT(30) DEF Matches
  <2>4. FindsTheFile'
    BY <1>2, <2>1, <2>3 DEF FindsTheFile
  <2>5. QED
    BY <2>1, <2>4 DEF FileInv, PrintsTheFile
<1>12. CASE LogFile
  <2>1. /\ pc = "returned" /\ file' = file
        /\ \/ pc' = "astray"
           \/ file.ptr # NULL /\ pc' = "done" /\ printed' = StringLength(file.ptr)
    BY <1>12, Zenon DEF LogFile
  <2>2. FindsTheFile'
    BY <1>1, <1>2, <2>1 DEF FindsTheFile
  <2>3. PrintsTheFile'
    <3>1. CASE pc' = "astray"
      BY <3>1 DEF PrintsTheFile
    <3>2. CASE file.ptr # NULL /\ pc' = "done" /\ printed' = StringLength(file.ptr)
      <4>1. StringLength(file.ptr) =
              LET n == Min(Matches)
                  full == boot.archive[n].size % BLOCK = 0 /\ n < Len(boot.archive)
              IN  boot.archive[n].size + (IF full THEN TextEnd(boot.archive[n + 1].name) ELSE 0)
        BY <2>1, <3>2, Printing
      <4>2. QED
        BY <1>2, <3>2, <4>1 DEF PrintsTheFile
    <3>3. QED
      BY <2>1, <3>1, <3>2
  <2>4. QED
    BY <2>1, <2>2, <2>3 DEF FileInv
<1>13. CASE UNCHANGED vars
  <2>1. pc' = pc /\ file' = file /\ offset' = offset /\ printed' = printed
    BY <1>13 DEF vars
  <2>2. Searching' <=> Searching
    BY <1>2, <2>1 DEF Searching, AtHeader
  <2>3. FindsTheFile' /\ PrintsTheFile'
    BY <1>1, <1>2, <2>1 DEF FindsTheFile, PrintsTheFile
  <2>4. QED
    BY <1>1, <2>1, <2>2, <2>3 DEF FileInv
<1>14. QED
  BY <1>7, <1>8, <1>10, <1>11, <1>12, <1>13 DEF Next

(* In the beginning nothing has been passed, found or printed.             *)
LEMMA InitHolds ==
  ASSUME BootAssumption, Init
  PROVE  IInv
<1>1. TypeOK
  BY DEF Init, TypeOK, BootAssumption, NULL, NoFile
<1>2. ModulesPassed = {}
  <2>1. DOMAIN boot.tags = 1 .. Len(boot.tags)
        /\ \A n \in 1 .. Len(boot.tags) : TagAddress[n] \in Nat
    BY <1>1, Tags
  <2>2. \A n \in 1 .. Len(boot.tags) : ~ (TagAddress[n] < tag)
    BY <2>1 DEF Init, NULL
  <2>3. QED
    BY <2>1, <2>2 DEF ModulesPassed
<1>3. Listed(ModulesPassed, TagAddress, __modules, __modules_count)
  <2>1. Cardinality(ModulesPassed) = 0
    BY <1>2, FS_EmptySet
  <2>2. MODULES_MAX_LOAD \in Nat
    BY DEF BootAssumption
  <2>3. QED
    BY <1>2, <2>1, <2>2 DEF Init, Listed
<1>4. TagInv
  BY <1>3, ListedIs DEF TagInv, Init
<1>5. FileInv
  BY DEF Init, FileInv, FindsTheFile, PrintsTheFile
<1>6. QED
  BY <1>1, <1>4, <1>5 DEF IInv

(* The inductive invariant holds. *)
THEOREM BootInvariant == Spec => []IInv
<1>1. Init => IInv
  BY BootAssumption, InitHolds
<1>2. IInv /\ [Next]_vars => IInv'
  BY BootAssumption, TypeStep, TagStep, FileStep DEF IInv
<1>3. QED
  BY <1>1, <1>2, PTL DEF Spec

(* Every variable has its type: __modules_count may be garbage, but the    *)
(* list never grows past its end.                                          *)
THEOREM TypesHold == Spec => []TypeOK
BY BootInvariant, PTL DEF IInv

(* Both walks stay on headers, whatever the sizes of the tags and of the   *)
(* files are.                                                              *)
THEOREM WalksStayOnHeaders == Spec => []WalksOnHeaders
<1>1. IInv => WalksOnHeaders
  BY Zenon DEF IInv, TagInv, FileInv, Searching, WalksOnHeaders
<1>2. QED
  BY <1>1, BootInvariant, PTL

(* The module list holds the modules in the order of the boot loader, all  *)
(* of them as long as there is room.                                       *)
THEOREM ModulesAreInOrder == Spec => []ModulesInOrder
<1>1. IInv => ModulesInOrder
  BY DEF IInv, TagInv
<1>2. QED
  BY <1>1, BootInvariant, PTL

(* tar_get_file finds the first member of the wanted name, and kmain logs  *)
(* it as far as it goes, and the next name behind a file that fills its    *)
(* last block.                                                             *)
THEOREM FileIsShown == Spec => []ShowsTheFile
<1>1. IInv => ShowsTheFile
  BY DEF IInv, FileInv, ShowsTheFile
<1>2. QED
  BY <1>1, BootInvariant, PTL

=============================================================================
