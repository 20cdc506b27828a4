--------------------------- MODULE MemInit_proofs ----------------------------
(***************************************************************************)
(* Proofs about mm_init, for every memory map, every layout and every size *)
(* of pages, bitmap words and the heap that the assumptions allow.         *)
(***************************************************************************)
EXTENDS MemInit, NatLemmas, FiniteSetTheorems, SequenceTheorems, TLAPS

-----------------------------------------------------------------------------
(* Machine words.                                                          *)

(* The bytes of whole bitmap words. *)
WholeWords(n) == \E k \in Int : n = k * WORD_SIZE

(* The assumptions on the constants, in the form in which they are used. *)
LEMMA Sizes ==
  /\ ADDR_MOD \in Nat \ {0} /\ ONE_MB \in Nat /\ kernel_end \in Nat /\ ONE_MB > 0
  /\ PAGE_SIZE \in Nat \ {0} /\ UINT32BITS \in Nat \ {0} /\ WORD_SIZE \in Nat \ {0}
  /\ MEM_DYNAMIC_MIN_SIZE \in Nat \ {0} /\ BITMAP_STACK_SIZE \in Nat \ {0}
  /\ kernel_start = ONE_MB /\ ONE_MB < kernel_end
  /\ kernel_end + MEM_DYNAMIC_MIN_SIZE + PAGE_SIZE <= ADDR_MOD
  /\ 2 * kernel_end < ADDR_MOD /\ 2 * MEM_DYNAMIC_MIN_SIZE < ADDR_MOD /\ 2 * PAGE_SIZE < ADDR_MOD
  /\ ADDR_MOD % 2 = 0
BY LayoutAssumption

(* A remainder of zero is a multiple. *)
LEMMA Multiple ==
  ASSUME NEW n \in Int, NEW c \in Nat \ {0}, n % c = 0
  PROVE  \E k \in Int : n = k * c
<1> DEFINE q == n \div c
<1>1. q \in Int /\ n = q * c + (n % c)
  BY SMT
<1> HIDE DEF q
<1>2. QED
  BY <1>1

(* The sizes of the layout are whole words. *)
LEMMA WholeSizes ==
  /\ WholeWords(ADDR_MOD) /\ WholeWords(ONE_MB) /\ WholeWords(kernel_end)
  /\ WholeWords(MEM_DYNAMIC_MIN_SIZE) /\ WholeWords(PAGE_SIZE)
<1>1. \A n \in {ADDR_MOD, ONE_MB, kernel_end, MEM_DYNAMIC_MIN_SIZE, PAGE_SIZE} :
         n \in Int /\ n % WORD_SIZE = 0
  BY Sizes, LayoutAssumption
<1>2. QED
  BY <1>1, Multiple, Sizes DEF WholeWords

(* Sums and differences of whole words are whole words. *)
LEMMA WholeSum ==
  ASSUME NEW m, NEW n, WholeWords(m), WholeWords(n)
  PROVE  WholeWords(m + n) /\ WholeWords(m - n)
<1>1. PICK k \in Int : m = k * WORD_SIZE
  BY DEF WholeWords
<1>2. PICK l \in Int : n = l * WORD_SIZE
  BY DEF WholeWords
<1>3. m + n = (k + l) * WORD_SIZE /\ m - n = (k - l) * WORD_SIZE
  BY <1>1, <1>2, Sizes
<1>4. k + l \in Int /\ k - l \in Int
  OBVIOUS
<1>5. QED
  BY <1>3, <1>4 DEF WholeWords

(* Some whole words are at least one. *)
LEMMA WholeWord ==
  ASSUME NEW n \in Nat \ {0}, WholeWords(n)
  PROVE  n >= WORD_SIZE
<1>1. PICK k \in Int : n = k * WORD_SIZE
  BY DEF WholeWords
<1>2. k > 0
  <2>1. SUFFICES ASSUME k <= 0 PROVE FALSE
    BY <1>1
  <2>2. k * WORD_SIZE <= 0 * WORD_SIZE
    BY <2>1, TimesMonotone, Sizes
  <2>3. QED
    BY <1>1, <2>2, Sizes
<1>3. 1 * WORD_SIZE <= k * WORD_SIZE
  BY <1>2, TimesMonotone, Sizes
<1>4. QED
  BY <1>1, <1>3, Sizes

(* Multiples of whole words. *)
LEMMA WholeTimes ==
  ASSUME NEW n, NEW k \in Int, WholeWords(n)
  PROVE  WholeWords(k * n)
<1>1. PICK l \in Int : n = l * WORD_SIZE
  BY DEF WholeWords
<1>2. k * (l * WORD_SIZE) = (k * l) * WORD_SIZE /\ k * l \in Int
  BY Sizes
<1>3. QED
  BY <1>1, <1>2 DEF WholeWords

(* Arithmetic modulo the machine word. *)
LEMMA WrapIs ==
  ASSUME NEW n \in Int
  PROVE  /\ Wrap(n) \in Address
         /\ 0 <= n /\ n < ADDR_MOD => Wrap(n) = n
         /\ ADDR_MOD <= n /\ n < 2 * ADDR_MOD => Wrap(n) = n - ADDR_MOD
         /\ -ADDR_MOD <= n /\ n < 0 => Wrap(n) = n + ADDR_MOD
         /\ \E q \in Int : Wrap(n) = n - q * ADDR_MOD
<1>1. ADDR_MOD \in Nat \ {0}
  BY Sizes
<1>2. n % ADDR_MOD \in 0 .. ADDR_MOD - 1
  BY <1>1, SMT
<1> DEFINE q == n \div ADDR_MOD
<1>3. q \in Int /\ n = q * ADDR_MOD + (n % ADDR_MOD)
  BY <1>1, SMT
<1> HIDE DEF q
<1>4. ASSUME NEW r \in Int, r * ADDR_MOD <= n, n < r * ADDR_MOD + ADDR_MOD
      PROVE  Wrap(n) = n - r * ADDR_MOD
  <2>1. r * ADDR_MOD \in Int
    BY <1>1
  <2> DEFINE k == n - r * ADDR_MOD
  <2>2. k \in 0 .. ADDR_MOD - 1 /\ n = r * ADDR_MOD + k
    BY <1>1, <1>4, <2>1
  <2> HIDE DEF k
  <2>3. (r * ADDR_MOD + k) % ADDR_MOD = k
    BY <1>1, <2>2, QuotientRemainder
  <2>4. QED
    BY <2>2, <2>3 DEF Wrap, k
<1>5. 0 * ADDR_MOD = 0 /\ 1 * ADDR_MOD = ADDR_MOD /\ (-1) * ADDR_MOD = -ADDR_MOD
  BY <1>1
<1>6. 0 <= n /\ n < ADDR_MOD => Wrap(n) = n
  BY <1>1, <1>4, <1>5
<1>7. ADDR_MOD <= n /\ n < 2 * ADDR_MOD => Wrap(n) = n - ADDR_MOD
  BY <1>1, <1>4, <1>5
<1>8. -ADDR_MOD <= n /\ n < 0 => Wrap(n) = n + ADDR_MOD
  BY <1>1, <1>4, <1>5
<1>9. \E p \in Int : Wrap(n) = n - p * ADDR_MOD
  <2>1. q * ADDR_MOD \in Int
    BY <1>1, <1>3
  <2>2. Wrap(n) = n - q * ADDR_MOD
    BY <1>2, <1>3, <2>1 DEF Wrap
  <2>3. QED
    BY <1>3, <2>2
<1>10. QED
  BY <1>2, <1>6, <1>7, <1>8, <1>9 DEF Wrap, Address

(* Whole words stay whole words. *)
LEMMA WholeWrap ==
  ASSUME NEW n \in Int, WholeWords(n)
  PROVE  WholeWords(Wrap(n))
<1>1. PICK q \in Int : Wrap(n) = n - q * ADDR_MOD
  BY WrapIs
<1>2. WholeWords(q * ADDR_MOD)
  BY WholeTimes, WholeSizes
<1>3. QED
  BY <1>1, <1>2, WholeSum

(* The next page border. *)
LEMMA Aligned ==
  ASSUME NEW a \in Nat, a + PAGE_SIZE <= ADDR_MOD
  PROVE  LET border == align_up(a, PAGE_SIZE)
         IN  /\ border \in Address /\ a <= border /\ border < a + PAGE_SIZE
             /\ border % PAGE_SIZE = 0
             /\ WholeWords(border)
             /\ \A n \in Int : a <= n /\ n % PAGE_SIZE = 0 => border <= n
<1> DEFINE border == align_up(a, PAGE_SIZE)
           q == a \div PAGE_SIZE
           r == a % PAGE_SIZE
<1>1. PAGE_SIZE \in Nat \ {0} /\ ADDR_MOD \in Nat \ {0}
  BY Sizes
<1>2. q \in Nat /\ r \in 0 .. PAGE_SIZE - 1 /\ a = q * PAGE_SIZE + r
  BY <1>1, SMT
<1>3. border = IF r = 0 THEN a ELSE Wrap((a + PAGE_SIZE) - r)
  BY <1>1, <1>2, SMT DEF align_up
<1> HIDE DEF q, r, border
<1>4. q * PAGE_SIZE \in Int /\ (q + 1) * PAGE_SIZE = q * PAGE_SIZE + PAGE_SIZE
  BY <1>1, <1>2
<1>5. r # 0 => Wrap((a + PAGE_SIZE) - r) = (a + PAGE_SIZE) - r
  BY <1>1, <1>2, WrapIs
<1>6. PICK k \in Int : border = k * PAGE_SIZE /\ (k = IF r = 0 THEN q ELSE q + 1)
  <2>1. r = 0 => border = q * PAGE_SIZE
    BY <1>2, <1>3, <1>4
  <2>2. r # 0 => border = (q + 1) * PAGE_SIZE
    BY <1>1, <1>2, <1>3, <1>4, <1>5
  <2>3. q \in Int /\ q + 1 \in Int
    BY <1>2
  <2>4. QED
    BY <2>1, <2>2, <2>3
<1>7. a <= border /\ border < a + PAGE_SIZE /\ border \in Address
  BY <1>1, <1>2, <1>3, <1>5 DEF Address
<1>8. border % PAGE_SIZE = 0
  <2>1. 0 \in 0 .. PAGE_SIZE - 1 /\ k * PAGE_SIZE \in Int
    BY <1>1
  <2>2. (k * PAGE_SIZE + 0) % PAGE_SIZE = 0
    BY <1>1, <2>1, QuotientRemainder
  <2>3. QED
    BY <1>6, <2>1, <2>2
<1>9. WholeWords(border)
  BY <1>6, WholeTimes, WholeSizes
<1>10. ASSUME NEW n \in Int, a <= n, n % PAGE_SIZE = 0
       PROVE  border <= n
  <2>1. PICK m \in Int : n = m * PAGE_SIZE
    BY <1>1, <1>10, Multiple
  <2>2. SUFFICES ASSUME n < border PROVE FALSE
    BY <1>7, <1>10 DEF Address
  <2>3. m < k
    <3>1. SUFFICES ASSUME k <= m PROVE FALSE
      OBVIOUS
    <3>2. k * PAGE_SIZE <= m * PAGE_SIZE
      BY <1>1, <3>1, TimesMonotone
    <3>3. QED
      BY <1>6, <1>7, <2>1, <2>2, <3>2 DEF Address
  <2>4. m * PAGE_SIZE + PAGE_SIZE <= k * PAGE_SIZE
    BY <1>1, <2>3, TimesStrict
  <2>5. QED
    BY <1>1, <1>6, <1>7, <1>10, <2>1, <2>4 DEF Address
<1>11. QED
  BY <1>7, <1>8, <1>9, <1>10 DEF border

-----------------------------------------------------------------------------
(* The number of frames.                                                   *)

(* The bytes of frames and their bitmap, without a machine word. *)
Need(blocks) == blocks * PAGE_SIZE + Bitmaps(blocks) * WORD_SIZE

(* A larger number has no smaller quotient. *)
LEMMA DivideMonotone ==
  ASSUME NEW m \in Nat, NEW n \in Nat, NEW c \in Nat \ {0}, m <= n
  PROVE  m \div c \in Nat /\ n \div c \in Nat /\ m \div c <= n \div c
<1> DEFINE p == m \div c
           q == n \div c
<1>1. /\ p \in Nat /\ p * c <= m /\ m < p * c + c
      /\ q \in Nat /\ q * c <= n /\ n < q * c + c
  BY DivideBounds
<1> HIDE DEF p, q
<1>2. p * c \in Int /\ q * c \in Int
  BY <1>1
<1>3. p <= q
  <2>1. SUFFICES ASSUME q < p PROVE FALSE
    BY <1>1
  <2>2. q * c + c <= p * c
    BY <1>1, <2>1, TimesStrict
  <2>3. QED
    BY <1>1, <1>2, <2>2
<1>4. QED
  BY <1>1, <1>3 DEF p, q

(* Fewer frames than the memory has room for: no machine word overflows. *)
LEMMA CountFits ==
  ASSUME NEW size \in Nat, size < ADDR_MOD - ONE_MB,
         NEW b \in Nat, b <= size \div PAGE_SIZE
  PROVE  /\ b * PAGE_SIZE \in Nat /\ b * PAGE_SIZE <= size
         /\ Bitmaps(b) * WORD_SIZE \in Nat
         /\ b \in Address
         /\ calcsize(b) = Need(b)
<1> DEFINE start == size \div PAGE_SIZE
           most == (ADDR_MOD - ONE_MB) \div PAGE_SIZE
<1>1. /\ PAGE_SIZE \in Nat \ {0} /\ ONE_MB \in Nat /\ ADDR_MOD \in Nat
      /\ UINT32BITS \in Nat \ {0} /\ WORD_SIZE \in Nat \ {0}
  BY Sizes
<1>2. start \in Nat /\ most \in Nat /\ start <= most /\ start * PAGE_SIZE <= size
  BY <1>1, DivideMonotone, DivideBounds
<1>3. b <= start /\ Bitmaps(most) * WORD_SIZE <= ONE_MB
  BY BitmapAssumption
<1> HIDE DEF start, most
<1>4. /\ b * PAGE_SIZE \in Nat /\ b * PAGE_SIZE <= start * PAGE_SIZE
      /\ start * PAGE_SIZE \in Nat /\ b * 1 <= b * PAGE_SIZE
  <2>1. b * PAGE_SIZE <= start * PAGE_SIZE
    BY <1>1, <1>2, <1>3, TimesMonotone
  <2>2. 1 * b <= PAGE_SIZE * b
    BY <1>1, TimesMonotone
  <2>3. QED
    BY <1>1, <1>2, <2>1, <2>2
<1>5. /\ Bitmaps(b) \in Nat /\ Bitmaps(most) \in Nat /\ Bitmaps(b) <= Bitmaps(most)
  <2>1. b \div UINT32BITS \in Nat /\ most \div UINT32BITS \in Nat
        /\ b \div UINT32BITS <= most \div UINT32BITS
    BY <1>1, <1>2, <1>3, DivideMonotone
  <2>2. QED
    BY <2>1 DEF Bitmaps
<1>6. Bitmaps(b) * WORD_SIZE \in Nat /\ Bitmaps(b) * WORD_SIZE <= ONE_MB
  <2>1. Bitmaps(b) * WORD_SIZE <= Bitmaps(most) * WORD_SIZE
    BY <1>1, <1>5, TimesMonotone
  <2>2. Bitmaps(b) * WORD_SIZE \in Nat /\ Bitmaps(most) * WORD_SIZE \in Nat
    BY <1>1, <1>5
  <2>3. QED
    BY <1>1, <1>3, <2>1, <2>2
<1>7. 0 <= Need(b) /\ Need(b) < ADDR_MOD /\ Need(b) \in Int
  BY <1>1, <1>2, <1>4, <1>6 DEF Need
<1>8. calcsize(b) = Need(b)
  BY <1>7, WrapIs DEF calcsize, Need
<1>9. QED
  BY <1>1, <1>2, <1>4, <1>6, <1>8 DEF Address

(* calc_blocks finds the largest number of frames that fits. *)
LEMMA CountIs ==
  ASSUME NEW size \in Nat, size < ADDR_MOD - ONE_MB, WORD_SIZE <= size
  PROVE  LET b == calc_blocks(size)
         IN  /\ b \in Nat /\ b \in Address
             /\ Need(b) \in Nat /\ Need(b) <= size
             /\ \A c \in Nat : Need(c) <= size => c <= b
<1> DEFINE start == size \div PAGE_SIZE
           fits == {k \in Address : calcsize(Wrap(start - k)) <= size}
           least == CHOOSE k \in fits : \A l \in fits : k <= l
<1>1. /\ PAGE_SIZE \in Nat \ {0} /\ ONE_MB \in Nat /\ ADDR_MOD \in Nat \ {0}
      /\ UINT32BITS \in Nat \ {0} /\ WORD_SIZE \in Nat \ {0}
  BY Sizes
<1>2. start \in Nat /\ start * PAGE_SIZE <= size /\ size < start * PAGE_SIZE + PAGE_SIZE
  BY <1>1, DivideBounds
<1>3. calc_blocks(size) = Wrap(start - least)
  BY DEF calc_blocks
<1>4. \A b \in Nat : b <= start =>
         /\ b * PAGE_SIZE \in Nat /\ Bitmaps(b) * WORD_SIZE \in Nat
         /\ b \in Address /\ calcsize(b) = Need(b)
  BY CountFits
<1> HIDE DEF start
<1>5. ASSUME NEW b \in Nat, b <= start
      PROVE  /\ start - b \in Address /\ Wrap(start - (start - b)) = b
             /\ start - b \in fits <=> Need(b) <= size
  <2>1. start - b \in Address /\ start - (start - b) = b /\ b \in Int
        /\ 0 <= b /\ b < ADDR_MOD
    BY <1>1, <1>2, <1>4, <1>5 DEF Address
  <2>2. Wrap(b) = b
    BY <2>1, WrapIs
  <2>3. calcsize(b) = Need(b)
    BY <1>4, <1>5
  <2>4. QED
    BY <2>1, <2>2, <2>3
<1>6. Need(0) = WORD_SIZE
  <2>1. 0 \div UINT32BITS = 0 /\ 0 * PAGE_SIZE = 0 /\ (0 + 1) * WORD_SIZE = WORD_SIZE
    <3>1. (0 * UINT32BITS) \div UINT32BITS = 0 /\ 0 * UINT32BITS = 0
      BY <1>1, DivideOffset
    <3>2. QED
      BY <1>1, <3>1
  <2>2. Need(0) = 0 + WORD_SIZE
    BY <2>1 DEF Need, Bitmaps
  <2>3. QED
    BY <1>1, <2>2
<1>7. start \in fits
  <2>1. start - 0 \in fits <=> Need(0) <= size
    BY <1>2, <1>5
  <2>2. start - 0 = start
    BY <1>2
  <2>3. QED
    BY <1>6, <2>1, <2>2
<1>8. least \in fits /\ \A l \in fits : least <= l
  <2>1. fits \in SUBSET Nat /\ fits # {}
    BY <1>1, <1>7 DEF Address
  <2> HIDE DEF fits
  <2>2. \E k \in fits : \A l \in fits : k <= l
    BY <2>1, LeastNatural
  <2>3. QED
    BY <2>2, Zenon
<1>9. least \in Nat /\ least <= start
  BY <1>1, <1>7, <1>8 DEF Address
<1> HIDE DEF least, fits
<1>10. PICK b \in Nat : b = start - least
  BY <1>2, <1>9
<1>11. b <= start /\ least = start - b
  BY <1>2, <1>9, <1>10
<1>12. calc_blocks(size) = b
  <2>1. Wrap(start - (start - b)) = b
    BY <1>5, <1>11
  <2>2. QED
    BY <1>3, <1>11, <2>1, Zenon
<1>13. Need(b) <= size
  BY <1>5, <1>8, <1>11
<1>14. Need(b) \in Nat
  BY <1>4, <1>11 DEF Need
<1>15. ASSUME NEW c \in Nat, Need(c) <= size
       PROVE  c <= b
  <2>1. c <= start
    <3>1. SUFFICES ASSUME start < c PROVE FALSE
      BY <1>2
    <3>2. start * PAGE_SIZE + PAGE_SIZE <= c * PAGE_SIZE
      BY <1>1, <1>2, <3>1, TimesStrict
    <3>3. Bitmaps(c) \in Nat
      <4>1. c \div UINT32BITS \in Nat
        BY <1>1, DivideBounds
      <4>2. QED
        BY <4>1 DEF Bitmaps
    <3>4. Bitmaps(c) * WORD_SIZE \in Nat /\ c * PAGE_SIZE \in Nat /\ start * PAGE_SIZE \in Nat
      BY <1>1, <1>2, <3>3
    <3>5. c * PAGE_SIZE <= size
      BY <1>15, <3>4 DEF Need
    <3>6. QED
      BY <1>1, <1>2, <3>2, <3>4, <3>5
  <2>2. start - c \in fits
    BY <1>5, <1>15, <2>1
  <2>3. least <= start - c
    BY <1>8, <2>2
  <2>4. QED
    BY <1>2, <1>9, <1>10, <2>3
<1>16. b \in Address
  BY <1>4, <1>11
<1>17. QED
  BY <1>12, <1>13, <1>14, <1>15, <1>16

-----------------------------------------------------------------------------
(* The parts that are cut off an entry.                                    *)

(* The distance the start of an entry moves by. *)
LEMMA DistanceIs ==
  ASSUME NEW new \in Address, NEW old \in Address
  PROVE  /\ SignedDistance(new, old) \in Nat
         /\ old <= new /\ 2 * (new - old) < ADDR_MOD => SignedDistance(new, old) = new - old
         /\ WholeWords(new) /\ WholeWords(old) => WholeWords(SignedDistance(new, old))
<1> DEFINE d == Wrap(new - old)
<1>1. ADDR_MOD \in Nat \ {0} /\ ADDR_MOD % 2 = 0
  BY Sizes
<1>2. new - old \in Int /\ -ADDR_MOD < new - old /\ new - old < ADDR_MOD
  BY <1>1 DEF Address
<1>3. d \in Address /\ (0 <= new - old => d = new - old)
  BY <1>1, <1>2, WrapIs
<1>4. WholeWords(new) /\ WholeWords(old) => WholeWords(d) /\ WholeWords(ADDR_MOD - d)
  BY <1>2, WholeSum, WholeWrap, WholeSizes
<1>5. SignedDistance(new, old) = IF d >= ADDR_MOD \div 2 THEN ADDR_MOD - d ELSE d
  BY DEF SignedDistance
<1> HIDE DEF d
<1>6. d \in Nat /\ ADDR_MOD - d \in Nat
  BY <1>1, <1>3 DEF Address
<1>7. 2 * d < ADDR_MOD => d < ADDR_MOD \div 2
  BY <1>1, <1>6
<1>8. old <= new => 0 <= new - old
  BY <1>1 DEF Address
<1>9. SignedDistance(new, old) \in Nat
  BY <1>5, <1>6
<1>10. ASSUME old <= new, 2 * (new - old) < ADDR_MOD
       PROVE  SignedDistance(new, old) = new - old
  <2>1. d = new - old
    BY <1>3, <1>8, <1>10
  <2>2. d < ADDR_MOD \div 2 /\ ADDR_MOD \div 2 \in Int
    BY <1>1, <1>7, <1>10, <2>1
  <2>3. ~ (d >= ADDR_MOD \div 2)
    BY <1>6, <2>2
  <2>4. QED
    BY <1>5, <2>1, <2>3
<1>11. WholeWords(new) /\ WholeWords(old) => WholeWords(SignedDistance(new, old))
  BY <1>4, <1>5
<1>12. QED
  BY <1>9, <1>10, <1>11

(* An entry whose start moves. *)
LEMMA SetStart ==
  ASSUME NEW b \in MapEntry, NEW new \in Address
  PROVE  LET c == block_setstart(b, new)
         IN  /\ c \in MapEntry /\ c.addr = new /\ c.high = b.high /\ c.type = b.type
             /\ (/\ b.addr <= new /\ 2 * (new - b.addr) < ADDR_MOD
                 /\ new <= b.addr + b.len)
                  => c.len = b.len - (new - b.addr)
             /\ WholeWords(new) /\ WholeWords(b.addr) /\ WholeWords(b.len) => WholeWords(c.len)
<1> DEFINE c == block_setstart(b, new)
           dist == SignedDistance(new, b.addr)
<1>1. /\ ADDR_MOD \in Nat \ {0} /\ b.addr \in Address /\ b.len \in Address
      /\ b.high \in {0, 1} /\ b.type \in {Available, Reserved}
  BY Sizes DEF MapEntry
<1>2. /\ dist \in Nat
      /\ b.addr <= new /\ 2 * (new - b.addr) < ADDR_MOD => dist = new - b.addr
      /\ WholeWords(new) /\ WholeWords(b.addr) => WholeWords(dist)
  BY <1>1, DistanceIs
<1>3. c = [b EXCEPT !.addr = new, !.len = Wrap(b.len - dist)]
  BY DEF block_setstart
<1> HIDE DEF dist
<1>4. b.len - dist \in Int
  BY <1>1, <1>2 DEF Address
<1>5. PICK n \in Address : n = Wrap(b.len - dist)
  BY <1>4, WrapIs
<1>6. c = [high |-> b.high, addr |-> new, len |-> n, type |-> b.type]
  BY <1>3, <1>5 DEF MapEntry
<1>7. (/\ b.addr <= new /\ 2 * (new - b.addr) < ADDR_MOD
       /\ new <= b.addr + b.len)
        => n = b.len - (new - b.addr)
  BY <1>1, <1>2, <1>4, <1>5, WrapIs, SMTT(30) DEF Address
<1>8. WholeWords(new) /\ WholeWords(b.addr) /\ WholeWords(b.len) => WholeWords(n)
  BY <1>2, <1>4, <1>5, WholeSum, WholeWrap
<1> HIDE DEF c
<1>9. c \in MapEntry
  BY <1>1, <1>5, <1>6 DEF MapEntry
<1>10. c.len = n /\ c.addr = new /\ c.high = b.high /\ c.type = b.type
  BY <1>6
<1>11. QED
  BY <1>7, <1>8, <1>9, <1>10 DEF c

(* What is left of an entry above 1 MB. *)
LEMMA LowIs ==
  ASSUME NEW me \in MapEntry, ~ is_block_under1mb(me), me.addr + me.len < ADDR_MOD + ONE_MB,
         WholeWords(me.addr), WholeWords(me.len)
  PROVE  LET low == CutLow(me)
         IN  /\ low \in MapEntry
             /\ low.addr = IF me.addr < ONE_MB THEN ONE_MB ELSE me.addr
             /\ low.addr + low.len = me.addr + me.len /\ me.addr + me.len < ADDR_MOD
             /\ WholeWords(low.addr) /\ WholeWords(low.len)
<1>1. /\ ADDR_MOD \in Nat /\ ONE_MB \in Nat /\ ONE_MB > 0 /\ 2 * ONE_MB < ADDR_MOD
      /\ me.addr \in Address /\ me.len \in Address /\ WholeWords(ONE_MB)
      /\ ONE_MB \in Address
  BY Sizes, WholeSizes DEF MapEntry, Address
<1>2. me.addr + me.len \in Nat /\ me.addr + me.len < 2 * ADDR_MOD
  BY <1>1 DEF Address
<1>3. block_getend(me) = Wrap(me.addr + me.len) /\ block_getend(me) >= ONE_MB
  BY <1>1, <1>2, WrapIs DEF is_block_under1mb, block_getend, Address
<1>4. me.addr + me.len < ADDR_MOD /\ me.addr + me.len >= ONE_MB
  BY <1>1, <1>2, <1>3, WrapIs
<1>5. CASE me.addr < ONE_MB
  <2>1. CutLow(me) = block_setstart(me, ONE_MB)
    BY <1>3, <1>5 DEF CutLow, is_partofblock_under1mb
  <2>2. me.addr <= ONE_MB /\ 2 * (ONE_MB - me.addr) < ADDR_MOD /\ ONE_MB <= me.addr + me.len
    BY <1>1, <1>4, <1>5 DEF Address
  <2> DEFINE low == block_setstart(me, ONE_MB)
  <2>3. /\ low \in MapEntry /\ low.addr = ONE_MB /\ low.len = me.len - (ONE_MB - me.addr)
        /\ WholeWords(low.len)
    BY <1>1, <2>2, SetStart
  <2> HIDE DEF low
  <2>4. low.addr + low.len = me.addr + me.len
    BY <1>1, <2>3 DEF Address
  <2>5. QED
    BY <1>1, <1>4, <1>5, <2>1, <2>3, <2>4 DEF low
<1>6. CASE me.addr >= ONE_MB
  <2>1. CutLow(me) = me /\ ~ (me.addr < ONE_MB)
    BY <1>1, <1>6 DEF CutLow, is_partofblock_under1mb, Address
  <2>2. QED
    BY <1>4, <2>1
<1>7. QED
  BY <1>1, <1>5, <1>6 DEF Address

(* What the kernel leaves: memory behind it, or memory in front of its end. *)
LEMMA KernelIs ==
  ASSUME NEW low \in MapEntry, ONE_MB <= low.addr, low.addr + low.len < ADDR_MOD,
         WholeWords(low.addr), WholeWords(low.len)
  PROVE  LET kept == CutKernel(low)
         IN  /\ kept \in MapEntry
             /\ ONE_MB <= kept.addr /\ kept.addr <= kernel_end
             /\ kept.addr = kernel_end \/ kept.addr + kept.len <= kernel_end
             /\ WholeWords(kept.addr) /\ WholeWords(kept.len)
             /\ low.addr + low.len <= kernel_end => kept = low
             /\ low.addr + low.len > kernel_end => kept.addr = kernel_end
             /\ low.addr + low.len > kernel_end /\ low.addr <= kernel_end =>
                  kept.addr = kernel_end /\ kept.len = low.addr + low.len - kernel_end
<1>1. /\ ADDR_MOD \in Nat /\ ONE_MB \in Nat /\ 2 * kernel_end < ADDR_MOD
      /\ low.addr \in Address /\ low.len \in Address /\ WholeWords(kernel_end)
      /\ kernel_end \in Address /\ kernel_start = ONE_MB /\ ONE_MB < kernel_end
  BY Sizes, WholeSizes DEF MapEntry, Address
<1>2. block_getend(low) = low.addr + low.len
  BY <1>1, WrapIs DEF block_getend, Address
<1>3. CASE low.addr + low.len > kernel_end
  <2>1. CutKernel(low) = block_setstart(low, kernel_end)
    BY <1>2, <1>3 DEF CutKernel
  <2> DEFINE kept == block_setstart(low, kernel_end)
  <2>2. /\ kept \in MapEntry /\ kept.addr = kernel_end /\ WholeWords(kept.len)
        /\ (/\ low.addr <= kernel_end /\ 2 * (kernel_end - low.addr) < ADDR_MOD
            /\ kernel_end <= low.addr + low.len)
             => kept.len = low.len - (kernel_end - low.addr)
    BY <1>1, SetStart
  <2> HIDE DEF kept
  <2>3. low.addr <= kernel_end => kept.len = low.addr + low.len - kernel_end
    BY <1>1, <1>3, <2>2 DEF Address
  <2>4. ~ (low.addr + low.len <= kernel_end) /\ ONE_MB <= kernel_end /\ kernel_end <= kernel_end
    BY <1>1, <1>3 DEF Address
  <2>5. QED
    BY <1>1, <2>1, <2>2, <2>3, <2>4 DEF kept
<1>4. CASE low.addr + low.len <= kernel_end
  <2>1. CutKernel(low) = low
    BY <1>1, <1>2, <1>4 DEF CutKernel, Address
  <2>2. low.addr <= kernel_end /\ ~ (low.addr + low.len > kernel_end)
    BY <1>1, <1>4 DEF Address
  <2>3. QED
    BY <1>4, <2>1, <2>2
<1>5. QED
  BY <1>1, <1>3, <1>4 DEF Address

(* What the heap leaves. *)
LEMMA HeapIs ==
  ASSUME NEW kept \in MapEntry, ONE_MB <= kept.addr, kept.addr <= kernel_end,
         WholeWords(kept.addr), WholeWords(kept.len)
  PROVE  LET rest == CutHeap(kept)
         IN  /\ rest \in MapEntry
             /\ rest.addr = IF TakesHeap(kept) THEN kept.addr + MEM_DYNAMIC_MIN_SIZE ELSE kept.addr
             /\ rest.len = IF TakesHeap(kept) THEN kept.len - MEM_DYNAMIC_MIN_SIZE ELSE kept.len
             /\ TakesHeap(kept) => kept.len >= MEM_DYNAMIC_MIN_SIZE
             /\ ONE_MB <= rest.addr /\ rest.addr + PAGE_SIZE <= ADDR_MOD
             /\ kept.addr + MEM_DYNAMIC_MIN_SIZE < ADDR_MOD
             /\ WholeWords(rest.addr) /\ WholeWords(rest.len)
<1>1. /\ ADDR_MOD \in Nat /\ ONE_MB \in Nat /\ kernel_end \in Nat
      /\ PAGE_SIZE \in Nat \ {0} /\ MEM_DYNAMIC_MIN_SIZE \in Nat \ {0}
      /\ kernel_end + MEM_DYNAMIC_MIN_SIZE + PAGE_SIZE <= ADDR_MOD
      /\ 2 * MEM_DYNAMIC_MIN_SIZE < ADDR_MOD /\ WholeWords(MEM_DYNAMIC_MIN_SIZE)
      /\ kept.addr \in Address /\ kept.len \in Address
  BY Sizes, WholeSizes DEF MapEntry
<1>2. /\ kept.addr + MEM_DYNAMIC_MIN_SIZE < ADDR_MOD
      /\ kept.addr + MEM_DYNAMIC_MIN_SIZE + PAGE_SIZE <= ADDR_MOD
      /\ kept.addr + PAGE_SIZE <= ADDR_MOD
      /\ kept.addr + MEM_DYNAMIC_MIN_SIZE \in Address
      /\ ONE_MB <= kept.addr + MEM_DYNAMIC_MIN_SIZE
  BY <1>1 DEF Address
<1>3. CASE TakesHeap(kept)
  <2> DEFINE new == kept.addr + MEM_DYNAMIC_MIN_SIZE
             rest == block_setstart(kept, new)
  <2>1. CutHeap(kept) = rest
    <3>1. Wrap(new) = new
      BY <1>2, WrapIs DEF Address
    <3>2. QED
      BY <1>3, <3>1 DEF CutHeap, block_addstart
  <2>2. kept.len >= MEM_DYNAMIC_MIN_SIZE
    BY <1>3 DEF TakesHeap
  <2>3. new \in Address /\ WholeWords(new) /\ new - kept.addr = MEM_DYNAMIC_MIN_SIZE
    BY <1>1, <1>2, WholeSum DEF Address
  <2>4. kept.addr <= new /\ 2 * (new - kept.addr) < ADDR_MOD /\ new <= kept.addr + kept.len
    BY <1>1, <2>2 DEF Address
  <2> HIDE DEF new
  <2>5. /\ rest \in MapEntry /\ rest.addr = new /\ rest.len = kept.len - (new - kept.addr)
        /\ WholeWords(rest.len)
    BY <2>3, <2>4, SetStart
  <2> HIDE DEF rest
  <2>6. rest.len = kept.len - MEM_DYNAMIC_MIN_SIZE
    BY <2>3, <2>5
  <2>7. QED
    BY <1>2, <1>3, <2>1, <2>2, <2>3, <2>5, <2>6 DEF new
<1>4. CASE ~ TakesHeap(kept)
  BY <1>2, <1>4 DEF CutHeap
<1>5. QED
  BY <1>3, <1>4

(* What is left of an entry from a page border on. *)
LEMMA PageIs ==
  ASSUME NEW rest \in MapEntry, ONE_MB <= rest.addr, rest.addr + PAGE_SIZE <= ADDR_MOD,
         WholeWords(rest.addr), WholeWords(rest.len), ~ NothingLeft(rest)
  PROVE  LET page == CutPage(rest)
         IN  /\ page \in MapEntry
             /\ page.addr = align_up(rest.addr, PAGE_SIZE)
             /\ rest.addr <= page.addr /\ page.addr % PAGE_SIZE = 0
             /\ rest.addr + rest.len < ADDR_MOD
             /\ page.addr + page.len = rest.addr + rest.len
             /\ page.len \in Nat \ {0} /\ page.len >= WORD_SIZE /\ page.len < ADDR_MOD - ONE_MB
<1> DEFINE border == align_up(rest.addr, PAGE_SIZE)
           page == block_setstart(rest, border)
<1>1. /\ ADDR_MOD \in Nat /\ ONE_MB \in Nat /\ PAGE_SIZE \in Nat \ {0} /\ 2 * PAGE_SIZE < ADDR_MOD
      /\ rest.addr \in Address /\ rest.len \in Address /\ rest.addr \in Nat
  BY Sizes DEF MapEntry, Address
<1>2. /\ border \in Address /\ rest.addr <= border /\ border < rest.addr + PAGE_SIZE
      /\ border % PAGE_SIZE = 0 /\ WholeWords(border)
  BY <1>1, Aligned
<1>3. CutPage(rest) = page
  BY DEF CutPage
<1>4. border < Wrap(rest.addr + rest.len)
  <2>1. rest.addr + rest.len \in Int
    BY <1>1 DEF Address
  <2>2. Wrap(rest.addr + rest.len) \in Address
    BY <2>1, WrapIs
  <2>3. ~ (border >= Wrap(rest.addr + rest.len))
    BY DEF NothingLeft, block_getend
  <2> HIDE DEF border
  <2>4. QED
    BY <1>1, <1>2, <2>2, <2>3 DEF Address
<1> HIDE DEF border
<1>5. rest.addr + rest.len < ADDR_MOD /\ border < rest.addr + rest.len
  <2>1. PICK sum \in Nat : sum = rest.addr + rest.len
    BY <1>1 DEF Address
  <2>2. sum < 2 * ADDR_MOD /\ sum < ADDR_MOD + rest.addr
    BY <1>1, <2>1 DEF Address
  <2>3. border < Wrap(sum)
    BY <1>4, <2>1
  <2>4. CASE sum < ADDR_MOD
    <3>1. Wrap(sum) = sum
      BY <2>4, WrapIs
    <3>2. QED
      BY <2>1, <2>3, <2>4, <3>1
  <2>5. CASE sum >= ADDR_MOD
    <3>1. Wrap(sum) = sum - ADDR_MOD
      BY <1>1, <2>2, <2>5, WrapIs
    <3>2. QED
      BY <1>1, <1>2, <2>2, <2>3, <3>1 DEF Address
  <2>6. QED
    BY <1>1, <2>1, <2>4, <2>5
<1>6. 2 * (border - rest.addr) < ADDR_MOD /\ border <= rest.addr + rest.len
  BY <1>1, <1>2, <1>5 DEF Address
<1>7. /\ page \in MapEntry /\ page.addr = border /\ page.len = rest.len - (border - rest.addr)
      /\ WholeWords(page.len)
  BY <1>2, <1>6, SetStart
<1> HIDE DEF page
<1>8. page.len \in Nat \ {0} /\ page.addr + page.len = rest.addr + rest.len
  BY <1>1, <1>2, <1>5, <1>7 DEF Address
<1>9. page.len >= WORD_SIZE
  BY <1>7, <1>8, WholeWord
<1>10. page.len < ADDR_MOD - ONE_MB
  BY <1>1, <1>2, <1>5, <1>7, <1>8 DEF Address
<1>11. QED
  BY <1>2, <1>3, <1>5, <1>7, <1>8, <1>9, <1>10 DEF border

-----------------------------------------------------------------------------
(* The invariant.                                                          *)

(* What mm_init has not looked at yet is what the boot loader has made. *)
MapInv == given \in Maps /\ \A e \in i .. Len(map) : map[e] = given[e]

(* A region starts at a page border above 1 MB and ends below the last     *)
(* address; there is room for a bitmap word, and the count fits.           *)
RegionInv ==
  \A r \in Region :
     LET b == bitmap_stack[r]
     IN  /\ ONE_MB <= b.first_block /\ b.first_block % PAGE_SIZE = 0
         /\ WORD_SIZE <= b.size /\ b.first_block + b.size < ADDR_MOD
         /\ b.blocks_count = calc_blocks(b.size)
         /\ b.entry < i

(* What is cleared and the heap lie above 1 MB. *)
LowInv ==
  /\ \A a \in cleared : a >= ONE_MB
  /\ m_dyn_base # NoHeap =>
       ONE_MB <= m_dyn_base /\ m_dyn_base + MEM_DYNAMIC_MIN_SIZE < ADDR_MOD

(* The heap and what is cleared lie behind the kernel, or in an entry that *)
(* ends inside it.                                                         *)
Behind(a, size) ==
  \/ kernel_end <= a
  \/ \E d \in 1 .. Len(given) :
        EndsInKernel(given[d]) /\ given[d].addr <= a /\ a + size <= given[d].addr + given[d].len

KernelInv ==
  /\ \A a \in cleared : Behind(a, 1)
  /\ m_dyn_base # NoHeap => Behind(m_dyn_base, MEM_DYNAMIC_MIN_SIZE)

(* Where the memory from addr to end lies that was made from entry e.      *)
PlacedIn(e, addr, end) ==
  IF e.addr <= kernel_end
  THEN e.addr <= addr /\ end <= e.addr + e.len
  ELSE \E start \in {kernel_end, kernel_end + MEM_DYNAMIC_MIN_SIZE} :
         addr = align_up(start, PAGE_SIZE)

PlacedInv ==
  \A r \in Region :
     LET b == bitmap_stack[r]
     IN  /\ PlacedIn(given[b.entry], b.first_block, b.first_block + b.size)
         /\ Behind(b.first_block, b.size)

(* The entries kept among the first e.                                     *)
KeptUpTo(e) == {d \in 1 .. e : Kept(d)}

(* No available entry lies between two entries.                            *)
NoneBetween(d, e) == \A c \in d + 1 .. e - 1 : given[c].type # Available

(* The chain: the regions come from entries in the order of the map, and a *)
(* region is hooked to the next one exactly if no available entry lies     *)
(* between theirs.                                                         *)
LinkInv ==
  LET n == Len(bitmap_stack)
  IN  /\ firstblock = IF bitmap_stack = <<>> THEN NULL ELSE 1
      /\ \A r, s \in 1 .. n : r < s => bitmap_stack[r].entry < bitmap_stack[s].entry
      /\ \A r \in 1 .. n : bitmap_stack[r].next \in {NULL, r + 1}
      /\ \A r \in 1 .. n :
           bitmap_stack[r].next = r + 1 <=>
             r < n /\ NoneBetween(bitmap_stack[r].entry, bitmap_stack[r + 1].entry)

(* newblock is the last region and its entry the last available one;       *)
(* without it there is an available entry behind the one of the last       *)
(* region.                                                                 *)
LastInv ==
  LET n == Len(bitmap_stack)
  IN  /\ newblock # NULL => newblock = n /\ NoneBetween(bitmap_stack[n].entry, i)
      /\ newblock = NULL /\ n > 0 => ~ NoneBetween(bitmap_stack[n].entry, i)

(* An entry has a region exactly if it is kept and bitmap_stack has a      *)
(* place left for it.                                                      *)
GaveRegion(e) == \E r \in 1 .. Len(bitmap_stack) : bitmap_stack[r].entry = e

CountInv ==
  LET n == Len(bitmap_stack)
  IN  \A last \in Nat : last = i - 1 =>
        /\ n <= Cardinality(KeptUpTo(last))
        /\ n < BITMAP_STACK_SIZE => Cardinality(KeptUpTo(last)) = n
        /\ \A e \in 1 .. last :
             GaveRegion(e) <=> Kept(e) /\ Cardinality(KeptUpTo(e)) <= BITMAP_STACK_SIZE

ChainInv == LinkInv /\ LastInv /\ CountInv

-----------------------------------------------------------------------------
(* One turn of the loop.                                                   *)

(* An entry that becomes a region. *)
PageOK(b) ==
  /\ b \in MapEntry /\ b.type = Available
  /\ ONE_MB <= b.addr /\ b.addr % PAGE_SIZE = 0
  /\ WORD_SIZE <= b.len /\ b.addr + b.len < ADDR_MOD

(* The heap stays where it is, or is put above 1 MB. *)
HeapTurn ==
  \/ m_dyn_base' = m_dyn_base
  \/ /\ m_dyn_base' \in Address /\ ONE_MB <= m_dyn_base'
     /\ m_dyn_base' + MEM_DYNAMIC_MIN_SIZE < ADDR_MOD

(* What the assumption on the memory maps says of the next entry. *)
LEMMA NextEntry ==
  ASSUME TypeOK, MapInv, i <= Len(map)
  PROVE  /\ i \in 1 .. Len(map) /\ Len(map) = Len(given) /\ i \in Nat
         /\ map[i] = given[i] /\ map[i] \in MapEntry
         /\ map[i].type = Available /\ ~ is_block_under1mb(map[i]) =>
              /\ map[i].addr + map[i].len < ADDR_MOD + ONE_MB
              /\ WholeWords(map[i].addr) /\ WholeWords(map[i].len)
<1>1. /\ i \in 1 .. Len(map) /\ Len(map) = Len(given) /\ given \in Seq(MapEntry)
      /\ map \in Seq(MapEntry) /\ given \in Maps /\ Len(map) \in Nat
  BY DEF TypeOK, MapInv
<1>2. PICK me \in MapEntry : me = given[i]
  BY <1>1
<1>3. map[i] = me
  BY <1>1, <1>2 DEF MapInv
<1>4. ASSUME me.type = Available, ~ is_block_under1mb(me)
      PROVE  /\ me.addr + me.len < ADDR_MOD + ONE_MB
             /\ WholeWords(me.addr) /\ WholeWords(me.len)
  <2>1. i \in DOMAIN given
    BY <1>1
  <2>2. /\ me.addr + me.len < ADDR_MOD + ONE_MB
        /\ me.addr % WORD_SIZE = 0 /\ me.len % WORD_SIZE = 0
    BY <1>1, <1>2, <1>4, <2>1, MapAssumption
  <2>3. me.addr \in Int /\ me.len \in Int /\ WORD_SIZE \in Nat \ {0}
    BY Sizes DEF MapEntry, Address
  <2>4. QED
    BY <2>2, <2>3, Multiple DEF WholeWords
<1>5. QED
  BY <1>1, <1>2, <1>3, <1>4

(* Whatever is cut off an entry, its type stays.                           *)
LEMMA SameType ==
  ASSUME NEW b \in MapEntry, NEW new
  PROVE  block_setstart(b, new).type = b.type /\ block_setend(b, new).type = b.type
BY DEF block_setstart, block_setend, MapEntry

(* What is left of an available entry after all cuts can become a region.  *)
LEMMA PageMade ==
  ASSUME NEW me \in MapEntry, me.type = Available, ~ is_block_under1mb(me),
         me.addr + me.len < ADDR_MOD + ONE_MB, WholeWords(me.addr), WholeWords(me.len)
  PROVE  LET rest == CutHeap(CutKernel(CutLow(me)))
         IN  ~ NothingLeft(rest) => PageOK(CutPage(rest)) /\ CutPage(rest) \in MapEntry
<1>1. PICK low \in MapEntry :
        /\ low = CutLow(me) /\ ONE_MB <= low.addr
        /\ low.addr + low.len < ADDR_MOD
        /\ WholeWords(low.addr) /\ WholeWords(low.len)
  <2>1. me.addr \in Nat /\ ONE_MB \in Nat
    BY Sizes DEF MapEntry, Address
  <2>2. QED
    BY <2>1, LowIs
<1>2. PICK kept \in MapEntry :
        /\ kept = CutKernel(low)
        /\ ONE_MB <= kept.addr /\ kept.addr <= kernel_end
        /\ WholeWords(kept.addr) /\ WholeWords(kept.len)
  BY <1>1, KernelIs
<1>3. PICK rest \in MapEntry :
        /\ rest = CutHeap(kept)
        /\ ONE_MB <= rest.addr /\ rest.addr + PAGE_SIZE <= ADDR_MOD
        /\ WholeWords(rest.addr) /\ WholeWords(rest.len)
  BY <1>2, HeapIs
<1>4. ASSUME ~ NothingLeft(rest)
      PROVE  PageOK(CutPage(rest)) /\ CutPage(rest) \in MapEntry
  <2>1. PICK page : page = CutPage(rest)
    OBVIOUS
  <2>2. /\ page \in MapEntry /\ rest.addr <= page.addr /\ page.addr % PAGE_SIZE = 0
        /\ rest.addr + rest.len < ADDR_MOD
        /\ page.addr + page.len = rest.addr + rest.len
        /\ page.len >= WORD_SIZE
    BY <1>3, <1>4, <2>1, PageIs
  <2>3. ONE_MB <= page.addr /\ WORD_SIZE <= page.len /\ page.addr + page.len < ADDR_MOD
    BY <1>3, <2>2, Sizes DEF MapEntry, Address
  <2>4. page.type = Available
    <3>1. page.type = rest.type
      BY <1>3, <2>1, SameType DEF CutPage
    <3>2. rest.type = kept.type
      BY <1>2, <1>3, SameType DEF CutHeap, block_addstart
    <3>3. kept.type = low.type
      BY <1>1, <1>2, SameType DEF CutKernel
    <3>4. low.type = me.type
      BY <1>1, SameType DEF CutLow
    <3>5. QED
      BY <3>1, <3>2, <3>3, <3>4
  <2>5. QED
    BY <2>1, <2>2, <2>3, <2>4 DEF PageOK
<1>5. QED
  BY <1>1, <1>2, <1>3, <1>4

(* A turn of the loop looks at a reserved entry, rejects an available one, *)
(* or makes a region of a part of it.                                      *)
LEMMA TurnIs ==
  ASSUME TypeOK, MapInv, mm_init
  PROVE  /\ i' = i + 1 /\ given' = given /\ i \in 1 .. Len(map) /\ i \in Nat
         /\ \/ /\ given[i].type # Available
               /\ UNCHANGED <<map, newblock, bitmap_stack, firstblock, m_dyn_base, cleared>>
            \/ /\ given[i].type = Available /\ HeapTurn
               /\ \E b \in MapEntry : Reject(b) \/ (PageOK(b) /\ MakeRegion(b))
<1>1. i' = i + 1 /\ given' = given /\ i <= Len(map)
  BY DEF mm_init
<1>2. PICK me \in MapEntry : me = map[i] /\ me = given[i]
  BY <1>1, NextEntry
<1>3. CASE me.type # Available
  BY <1>1, <1>2, <1>3, NextEntry DEF mm_init
<1>4. CASE me.type = Available
  <2> DEFINE kept == CutKernel(CutLow(me))
             rest == CutHeap(kept)
  <2>1. mm_initmemblock(me)
    BY <1>2, <1>4 DEF mm_init
  <2>2. CASE RejectLow(me)
    <3>1. HeapTurn /\ Reject(me)
      BY <2>2 DEF RejectLow, HeapTurn
    <3>2. QED
      BY <1>1, <1>2, <1>4, <3>1, NextEntry
  <2>3. CASE ~ RejectLow(me)
    <3>1. /\ ~ is_block_under1mb(me)
          /\ m_dyn_base' = IF TakesHeap(kept) THEN kept.addr ELSE m_dyn_base
          /\ RejectShort(rest) \/ (~ NothingLeft(rest) /\ MakeRegion(CutPage(rest)))
      BY <2>1, <2>3 DEF mm_initmemblock
    <3>2. /\ me.addr + me.len < ADDR_MOD + ONE_MB
          /\ WholeWords(me.addr) /\ WholeWords(me.len)
      BY <1>1, <1>2, <1>4, <3>1, NextEntry
    <3>3. PICK low \in MapEntry :
            /\ low = CutLow(me) /\ ONE_MB <= low.addr
            /\ low.addr + low.len < ADDR_MOD
            /\ WholeWords(low.addr) /\ WholeWords(low.len)
      <4>1. me.addr \in Nat /\ ONE_MB \in Nat
        BY Sizes DEF MapEntry, Address
      <4>2. QED
        BY <3>1, <3>2, <4>1, LowIs
    <3>4. /\ kept \in MapEntry
          /\ ONE_MB <= kept.addr /\ kept.addr <= kernel_end
          /\ WholeWords(kept.addr) /\ WholeWords(kept.len)
      BY <3>3, KernelIs
    <3> HIDE DEF kept
    <3>5. /\ rest \in MapEntry
          /\ ONE_MB <= rest.addr /\ rest.addr + PAGE_SIZE <= ADDR_MOD
          /\ kept.addr + MEM_DYNAMIC_MIN_SIZE < ADDR_MOD
          /\ WholeWords(rest.addr) /\ WholeWords(rest.len)
      BY <3>4, HeapIs
    <3> HIDE DEF rest
    <3>6. HeapTurn
      BY <3>1, <3>4, <3>5 DEF HeapTurn, MapEntry
    <3>7. RejectShort(rest) => Reject(rest)
      BY DEF RejectShort
    <3>8. ~ NothingLeft(rest) => PageOK(CutPage(rest)) /\ CutPage(rest) \in MapEntry
      BY <1>4, <3>1, <3>2, PageMade DEF kept, rest
    <3>9. QED
      BY <1>1, <1>2, <1>4, <3>1, <3>5, <3>6, <3>7, <3>8, NextEntry
  <2>4. QED
    BY <2>2, <2>3
<1>5. QED
  BY <1>3, <1>4

-----------------------------------------------------------------------------
(* Every turn keeps the invariant.                                         *)

RegionRecord(entries, regions) ==
  [first_block : Address, blocks_count : Address, size : Address,
   entry : 1 .. entries, next : 0 .. regions]

(* The type invariant with numbers for the regions. *)
LEMMA TypeIs ==
  TypeOK <=>
    /\ given \in Seq(MapEntry)
    /\ map \in Seq(MapEntry) /\ Len(map) = Len(given)
    /\ i \in 1 .. Len(map) + 1
    /\ bitmap_stack \in Seq(RegionRecord(Len(map), Len(bitmap_stack)))
    /\ Len(bitmap_stack) <= BITMAP_STACK_SIZE
    /\ newblock \in 0 .. Len(bitmap_stack) /\ firstblock \in 0 .. Len(bitmap_stack)
    /\ m_dyn_base \in Address \union {NoHeap}
    /\ cleared \subseteq Address
<1> DEFINE S == [first_block : Address, blocks_count : Address, size : Address,
                 entry : 1 .. Len(map), next : Region \union {NULL}]
<1>1. Len(bitmap_stack) \in Nat => S = RegionRecord(Len(map), Len(bitmap_stack))
  <2>1. Len(bitmap_stack) \in Nat =>
          (1 .. Len(bitmap_stack)) \union {NULL} = 0 .. Len(bitmap_stack)
    BY DEF NULL
  <2>2. QED
    BY <2>1 DEF Region, RegionRecord
<1>2. /\ bitmap_stack \in Seq(S) => Len(bitmap_stack) \in Nat
      /\ bitmap_stack \in Seq(RegionRecord(Len(map), Len(bitmap_stack)))
           => Len(bitmap_stack) \in Nat
  OBVIOUS
<1>3. Len(bitmap_stack) \in Nat =>
        /\ {newblock, firstblock} \subseteq Region \union {NULL}
             <=> newblock \in 0 .. Len(bitmap_stack) /\ firstblock \in 0 .. Len(bitmap_stack)
  BY DEF Region, NULL
<1>4. TypeOK <=>
        /\ given \in Seq(MapEntry)
        /\ map \in Seq(MapEntry) /\ Len(map) = Len(given)
        /\ i \in 1 .. Len(map) + 1
        /\ bitmap_stack \in Seq(S)
        /\ Len(bitmap_stack) <= BITMAP_STACK_SIZE
        /\ {newblock, firstblock} \subseteq Region \union {NULL}
        /\ m_dyn_base \in Address \union {NoHeap}
        /\ cleared \subseteq Address
  BY Zenon DEF TypeOK
<1> HIDE DEF S
<1>5. QED
  BY <1>1, <1>2, <1>3, <1>4

(* A new region at the top of the stack, hooked to the one of the entry    *)
(* before, if that one gave any.                                           *)
LEMMA RegionMade ==
  ASSUME TypeOK, NEW b \in MapEntry, i \in 1 .. Len(map), MakeRegion(b), ~ StackFull,
         calc_blocks(b.len) \in Address
  PROVE  LET n == Len(bitmap_stack)
         IN  /\ n \in Nat
             /\ bitmap_stack' \in Seq(RegionRecord(Len(map), n + 1))
             /\ Len(bitmap_stack') = n + 1 /\ newblock' = n + 1
             /\ firstblock' = IF firstblock = NULL THEN n + 1 ELSE firstblock
             /\ bitmap_stack'[n + 1] =
                  [first_block |-> b.addr, blocks_count |-> calc_blocks(b.len),
                   size |-> b.len, entry |-> i, next |-> NULL]
             /\ \A r \in 1 .. n :
                  bitmap_stack'[r] =
                    [bitmap_stack[r] EXCEPT !.next = IF r = newblock THEN n + 1 ELSE @]
<1> DEFINE n == Len(bitmap_stack)
           S == RegionRecord(Len(map), n)
           T == RegionRecord(Len(map), n + 1)
           region == [first_block |-> b.addr, blocks_count |-> calc_blocks(b.len),
                      size |-> b.len, entry |-> i, next |-> NULL]
           stack == Append(bitmap_stack, region)
<1>1. /\ bitmap_stack \in Seq(S) /\ n \in Nat /\ newblock \in 0 .. n
      /\ NULL = 0
  BY TypeIs DEF NULL
<1>2. /\ newblock' = n + 1
      /\ bitmap_stack' = Hooked(stack, n + 1)
      /\ firstblock' = IF firstblock = NULL THEN n + 1 ELSE firstblock
  BY DEF MakeRegion
<1>3. region \in T
  <2>1. b.addr \in Address /\ b.len \in Address
    BY DEF MapEntry
  <2>2. 0 \in 0 .. n + 1
    BY <1>1
  <2>3. QED
    BY <1>1, <2>1, <2>2 DEF RegionRecord
<1>4. bitmap_stack \in Seq(T)
  <2>1. S \subseteq T
    <3>1. 0 .. n \subseteq 0 .. n + 1
      BY <1>1
    <3>2. QED
      BY <3>1 DEF RegionRecord
  <2>2. QED
    BY <1>1, <2>1, SeqMonotonic
<1> HIDE DEF T
<1>5. /\ stack \in Seq(T) /\ Len(stack) = n + 1 /\ stack[n + 1] = region
      /\ \A r \in 1 .. n : stack[r] = bitmap_stack[r]
      /\ \A r \in 1 .. n + 1 : stack[r] \in T
  <2> HIDE DEF region
  <2>1. QED
    BY <1>1, <1>3, <1>4
<1> HIDE DEF stack, region, n
<1>6. CASE newblock = NULL
  <2>1. bitmap_stack' = stack
    BY <1>2, <1>6 DEF Hooked
  <2>2. ASSUME NEW r \in 1 .. n
        PROVE  stack[r] = [bitmap_stack[r] EXCEPT !.next = IF r = newblock THEN n + 1 ELSE @]
    <3>1. r # newblock /\ stack[r] = bitmap_stack[r] /\ r \in 1 .. n + 1
      BY <1>1, <1>5, <1>6, <2>2
    <3>2. bitmap_stack[r] \in T
      BY <1>5, <3>1
    <3>3. [bitmap_stack[r] EXCEPT !.next = @] = bitmap_stack[r]
      BY <3>2 DEF T, RegionRecord
    <3>4. QED
      BY <3>1, <3>3
  <2>3. QED
    BY <1>1, <1>2, <1>5, <2>1, <2>2 DEF region, n, T
<1>7. CASE newblock # NULL
  <2> DEFINE hooked == [stack[newblock] EXCEPT !.next = n + 1]
  <2>1. newblock \in 1 .. Len(stack) /\ newblock \in 1 .. n /\ stack[newblock] \in T
    BY <1>1, <1>5, <1>7
  <2>2. hooked \in T
    <3>1. PICK x \in T : x = stack[newblock]
      BY <2>1
    <3>2. n + 1 \in 0 .. n + 1
      BY <1>1
    <3>3. [x EXCEPT !.next = n + 1] \in T
      BY <3>2 DEF T, RegionRecord
    <3>4. QED
      BY <3>1, <3>3
  <2>3. bitmap_stack' = [stack EXCEPT ![newblock] = hooked]
    BY <1>2, <1>7 DEF Hooked
  <2> HIDE DEF hooked
  <2>4. /\ bitmap_stack' \in Seq(T) /\ Len(bitmap_stack') = n + 1
        /\ \A r \in 1 .. n + 1 : bitmap_stack'[r] = IF r = newblock THEN hooked ELSE stack[r]
    BY <1>1, <1>5, <2>1, <2>2, <2>3, ExceptSeq
  <2>5. ASSUME NEW r \in 1 .. n
        PROVE  bitmap_stack'[r] =
                 [bitmap_stack[r] EXCEPT !.next = IF r = newblock THEN n + 1 ELSE @]
    <3>1. r \in 1 .. n + 1 /\ stack[r] = bitmap_stack[r]
      BY <1>1, <1>5, <2>5
    <3>2. CASE r = newblock
      BY <2>4, <3>1, <3>2 DEF hooked
    <3>3. CASE r # newblock
      <4>1. bitmap_stack[r] \in T
        BY <1>5, <3>1
      <4>2. [bitmap_stack[r] EXCEPT !.next = @] = bitmap_stack[r]
        BY <4>1 DEF T, RegionRecord
      <4>3. QED
        BY <2>4, <3>1, <3>3, <4>2
    <3>4. QED
      BY <3>2, <3>3
  <2>6. bitmap_stack'[n + 1] = region
    BY <1>1, <1>5, <2>1, <2>4
  <2>7. QED
    BY <1>1, <1>2, <2>4, <2>5, <2>6 DEF region, n, T
<1>8. QED
  BY <1>6, <1>7

(* The number of frames of a region. *)
LEMMA PageCount ==
  ASSUME NEW b, PageOK(b)
  PROVE  LET n == calc_blocks(b.len)
         IN  /\ n \in Nat /\ n \in Address
             /\ Need(n) \in Nat /\ Need(n) <= b.len
             /\ \A c \in Nat : Need(c) <= b.len => c <= n
<1>1. b.len \in Nat /\ b.len < ADDR_MOD - ONE_MB /\ WORD_SIZE <= b.len
  BY Sizes DEF PageOK, MapEntry, Address
<1>2. QED
  BY <1>1, CountIs

(* Bytes that end below the last address are an interval. *)
LEMMA BytesIs ==
  ASSUME NEW addr \in Nat, NEW n \in Nat, addr + n <= ADDR_MOD
  PROVE  Bytes(addr, n) = addr .. addr + n - 1
<1>1. ADDR_MOD \in Nat
  BY Sizes
<1>2. \A k \in 0 .. n - 1 : Wrap(addr + k) = addr + k
  BY <1>1, WrapIs
<1>3. \A a \in addr .. addr + n - 1 : a - addr \in 0 .. n - 1 /\ addr + (a - addr) = a
  OBVIOUS
<1>4. ASSUME NEW a \in Bytes(addr, n)
      PROVE  a \in addr .. addr + n - 1
  BY <1>2 DEF Bytes
<1>5. ASSUME NEW a \in addr .. addr + n - 1
      PROVE  a \in Bytes(addr, n)
  <2>1. Wrap(addr + (a - addr)) = a
    BY <1>2, <1>3
  <2>2. QED
    BY <1>3, <2>1 DEF Bytes
<1>6. QED
  BY <1>4, <1>5

(* What MakeRegion clears. *)
LEMMA Cleared ==
  ASSUME NEW b, PageOK(b), MakeRegion(b)
  PROVE  cleared' = cleared \union (b.addr .. b.addr + b.len - 1)
<1>1. b.addr \in Nat /\ b.len \in Nat /\ b.addr + b.len <= ADDR_MOD
  BY Sizes DEF PageOK, MapEntry, Address
<1>2. cleared' = cleared \union Bytes(b.addr, b.len)
  BY DEF MakeRegion
<1>3. QED
  BY <1>1, <1>2, BytesIs

(* Types. *)
LEMMA TypeStep ==
  ASSUME TypeOK, MapInv, mm_init
  PROVE  TypeOK'
<1>1. /\ i' = i + 1 /\ given' = given /\ i \in 1 .. Len(map) /\ i \in Nat
      /\ \/ /\ given[i].type # Available
            /\ UNCHANGED <<map, newblock, bitmap_stack, firstblock, m_dyn_base, cleared>>
         \/ /\ given[i].type = Available /\ HeapTurn
            /\ \E b \in MapEntry : Reject(b) \/ (PageOK(b) /\ MakeRegion(b))
  BY TurnIs
<1> DEFINE n == Len(bitmap_stack)
           entries == Len(map)
<1>2. /\ given \in Seq(MapEntry) /\ map \in Seq(MapEntry) /\ entries = Len(given)
      /\ entries \in Nat /\ n \in Nat /\ n <= BITMAP_STACK_SIZE
      /\ bitmap_stack \in Seq(RegionRecord(entries, n))
      /\ newblock \in 0 .. n /\ firstblock \in 0 .. n
      /\ m_dyn_base \in Address \union {NoHeap} /\ cleared \subseteq Address
  BY TypeIs
<1>3. i' \in 1 .. entries + 1
  BY <1>1, <1>2
<1> HIDE DEF n, entries
<1>4. ASSUME NEW e \in MapEntry, map' = [map EXCEPT ![i] = e]
      PROVE  map' \in Seq(MapEntry) /\ Len(map') = entries
  BY <1>1, <1>2, <1>4, ExceptSeq DEF entries
<1>5. HeapTurn => m_dyn_base' \in Address \union {NoHeap}
  BY <1>2 DEF HeapTurn
<1>6. ASSUME map' \in Seq(MapEntry), Len(map') = entries, cleared' \subseteq Address,
             m_dyn_base' \in Address \union {NoHeap},
             NEW m \in Nat, Len(bitmap_stack') = m, m <= BITMAP_STACK_SIZE,
             bitmap_stack' \in Seq(RegionRecord(entries, m)),
             newblock' \in 0 .. m, firstblock' \in 0 .. m
      PROVE  TypeOK'
  <2>1. (TypeOK <=>
           /\ given \in Seq(MapEntry)
           /\ map \in Seq(MapEntry) /\ Len(map) = Len(given)
           /\ i \in 1 .. Len(map) + 1
           /\ bitmap_stack \in Seq(RegionRecord(Len(map), Len(bitmap_stack)))
           /\ Len(bitmap_stack) <= BITMAP_STACK_SIZE
           /\ newblock \in 0 .. Len(bitmap_stack) /\ firstblock \in 0 .. Len(bitmap_stack)
           /\ m_dyn_base \in Address \union {NoHeap}
           /\ cleared \subseteq Address)'
    BY TypeIs, PTL
  <2>2. QED
    BY <1>1, <1>2, <1>3, <1>6, <2>1
<1>7. CASE UNCHANGED <<map, newblock, bitmap_stack, firstblock, m_dyn_base, cleared>>
  BY <1>2, <1>6, <1>7 DEF n, entries
<1>8. ASSUME NEW b \in MapEntry, HeapTurn, Reject(b)
      PROVE  TypeOK'
  <2>1. PICK e \in MapEntry : e = [b EXCEPT !.type = Reserved]
    BY DEF MapEntry
  <2>2. map' = [map EXCEPT ![i] = e] /\ newblock' = 0
        /\ UNCHANGED <<bitmap_stack, firstblock, cleared>>
    BY <1>8, <2>1 DEF Reject, NULL
  <2>3. map' \in Seq(MapEntry) /\ Len(map') = entries
    BY <1>4, <2>2
  <2>4. newblock' \in 0 .. n /\ Len(bitmap_stack') = n
    BY <1>2, <2>2 DEF n
  <2>5. QED
    BY <1>2, <1>5, <1>6, <1>8, <2>2, <2>3, <2>4
<1>9. ASSUME NEW b \in MapEntry, HeapTurn, PageOK(b), MakeRegion(b)
      PROVE  TypeOK'
  <2>1. map' \in Seq(MapEntry) /\ Len(map') = entries
    <3>1. map' = [map EXCEPT ![i] = b]
      BY <1>9 DEF MakeRegion
    <3>2. QED
      BY <1>4, <3>1
  <2>2. cleared' \subseteq Address
    <3>1. cleared' = cleared \union (b.addr .. b.addr + b.len - 1)
      BY <1>9, Cleared
    <3>2. b.addr .. b.addr + b.len - 1 \subseteq Address
      BY <1>9, Sizes DEF PageOK, MapEntry, Address
    <3>3. QED
      BY <1>2, <3>1, <3>2
  <2>3. CASE StackFull
    <3>1. newblock' = 0 /\ UNCHANGED <<bitmap_stack, firstblock>>
      BY <1>9, <2>3 DEF MakeRegion, NULL
    <3>2. newblock' \in 0 .. n /\ Len(bitmap_stack') = n
      BY <1>2, <3>1 DEF n
    <3>3. QED
      BY <1>2, <1>5, <1>6, <1>9, <2>1, <2>2, <3>1, <3>2
  <2>4. CASE ~ StackFull
    <3>1. /\ bitmap_stack' \in Seq(RegionRecord(entries, n + 1))
          /\ Len(bitmap_stack') = n + 1 /\ newblock' = n + 1
          /\ firstblock' = IF firstblock = NULL THEN n + 1 ELSE firstblock
      BY <1>1, <1>9, <2>4, PageCount, RegionMade DEF n, entries
    <3>2. n + 1 \in Nat /\ newblock' \in 0 .. n + 1 /\ firstblock' \in 0 .. n + 1
      BY <1>2, <3>1
    <3>3. n + 1 <= BITMAP_STACK_SIZE
      BY <1>2, <2>4, Sizes DEF StackFull, n
    <3>4. QED
      BY <1>5, <1>6, <1>9, <2>1, <2>2, <3>1, <3>2, <3>3
  <2>5. QED
    BY <2>3, <2>4
<1>10. QED
  BY <1>1, <1>7, <1>8, <1>9

(* What mm_init has not looked at stays what it is. *)
LEMMA MapStep ==
  ASSUME TypeOK, MapInv, mm_init
  PROVE  MapInv'
<1>1. /\ i' = i + 1 /\ given' = given /\ i \in 1 .. Len(map) /\ i \in Nat
      /\ \/ /\ given[i].type # Available
            /\ UNCHANGED <<map, newblock, bitmap_stack, firstblock, m_dyn_base, cleared>>
         \/ /\ given[i].type = Available /\ HeapTurn
            /\ \E b \in MapEntry : Reject(b) \/ (PageOK(b) /\ MakeRegion(b))
  BY TurnIs
<1>2. map' = map \/ \E e \in MapEntry : map' = [map EXCEPT ![i] = e]
  <2>1. \A b \in MapEntry : [b EXCEPT !.type = Reserved] \in MapEntry
    BY DEF MapEntry
  <2>2. QED
    BY <1>1, <2>1 DEF Reject, MakeRegion
<1>3. map \in Seq(MapEntry) /\ Len(map) \in Nat
  BY DEF TypeOK
<1>4. Len(map') = Len(map) /\ \A e \in i + 1 .. Len(map) : map'[e] = map[e]
  BY <1>1, <1>2, <1>3
<1>5. QED
  BY <1>1, <1>3, <1>4 DEF MapInv

(* Regions keep their place above 1 MB. *)
LEMMA RegionStep ==
  ASSUME TypeOK, MapInv, RegionInv, mm_init
  PROVE  RegionInv'
<1>1. /\ i' = i + 1 /\ given' = given /\ i \in 1 .. Len(map) /\ i \in Nat
      /\ \/ /\ given[i].type # Available
            /\ UNCHANGED <<map, newblock, bitmap_stack, firstblock, m_dyn_base, cleared>>
         \/ /\ given[i].type = Available /\ HeapTurn
            /\ \E b \in MapEntry : Reject(b) \/ (PageOK(b) /\ MakeRegion(b))
  BY TurnIs
<1> DEFINE n == Len(bitmap_stack)
           Good(b, m) ==
             /\ ONE_MB <= b.first_block /\ b.first_block % PAGE_SIZE = 0
             /\ WORD_SIZE <= b.size /\ b.first_block + b.size < ADDR_MOD
             /\ b.blocks_count = calc_blocks(b.size)
             /\ b.entry < m
<1>2. /\ n \in Nat /\ \A r \in 1 .. n : Good(bitmap_stack[r], i)
      /\ \A r \in 1 .. n : bitmap_stack[r] \in RegionRecord(Len(map), n)
  BY TypeIs DEF RegionInv, Region
<1>3. \A r \in 1 .. n : Good(bitmap_stack[r], i + 1)
  BY <1>1, <1>2, SMTT(30) DEF RegionRecord
<1>4. (\A r \in 1 .. Len(bitmap_stack') : Good(bitmap_stack'[r], i + 1)) => RegionInv'
  BY <1>1 DEF RegionInv, Region
<1>5. bitmap_stack' = bitmap_stack => RegionInv'
  BY <1>3, <1>4
<1>6. ASSUME NEW b \in MapEntry, PageOK(b), MakeRegion(b), ~ StackFull
      PROVE  RegionInv'
  <2>1. /\ Len(bitmap_stack') = n + 1
        /\ bitmap_stack'[n + 1] =
             [first_block |-> b.addr, blocks_count |-> calc_blocks(b.len),
              size |-> b.len, entry |-> i, next |-> NULL]
        /\ \A r \in 1 .. n :
             bitmap_stack'[r] =
               [bitmap_stack[r] EXCEPT !.next = IF r = newblock THEN n + 1 ELSE @]
    BY <1>1, <1>6, PageCount, RegionMade
  <2> HIDE DEF n
  <2>2. Good(bitmap_stack'[n + 1], i + 1)
    BY <1>1, <1>6, <2>1 DEF PageOK
  <2>3. ASSUME NEW r \in 1 .. n
        PROVE  Good(bitmap_stack'[r], i + 1)
    <3>1. PICK old \in RegionRecord(Len(map), n) : old = bitmap_stack[r] /\ Good(old, i + 1)
      BY <1>2, <1>3
    <3>2. bitmap_stack'[r] = [old EXCEPT !.next = IF r = newblock THEN n + 1 ELSE @]
      BY <2>1, <3>1
    <3>3. /\ bitmap_stack'[r].first_block = old.first_block
          /\ bitmap_stack'[r].size = old.size
          /\ bitmap_stack'[r].blocks_count = old.blocks_count
          /\ bitmap_stack'[r].entry = old.entry
      BY <3>2 DEF RegionRecord
    <3>4. QED
      BY <3>1, <3>3
  <2>4. QED
    BY <1>2, <1>4, <2>1, <2>2, <2>3
<1>7. QED
  BY <1>1, <1>5, <1>6 DEF Reject, MakeRegion

(* Where the heap and the memory of a region come from in an entry.        *)
LEMMA CutsAre ==
  ASSUME NEW me \in MapEntry, me.type = Available, ~ is_block_under1mb(me),
         me.addr + me.len < ADDR_MOD + ONE_MB, WholeWords(me.addr), WholeWords(me.len)
  PROVE  LET kept == CutKernel(CutLow(me))
             rest == CutHeap(kept)
             page == CutPage(rest)
             end  == me.addr + me.len
         IN  /\ kept.addr \in Nat
             /\ \/ kernel_end <= kept.addr
                \/ /\ end <= kernel_end /\ me.addr <= kept.addr
                   /\ TakesHeap(kept) => kept.addr + MEM_DYNAMIC_MIN_SIZE <= end
             /\ ~ NothingLeft(rest) =>
                  /\ PlacedIn(me, page.addr, page.addr + page.len)
                  /\ \/ kernel_end <= page.addr
                     \/ end <= kernel_end /\ me.addr <= page.addr /\ page.addr + page.len <= end
<1>1. /\ me.addr \in Nat /\ me.len \in Nat /\ ONE_MB \in Nat /\ kernel_end \in Nat
      /\ ONE_MB < kernel_end /\ MEM_DYNAMIC_MIN_SIZE \in Nat /\ ADDR_MOD \in Nat
  BY Sizes DEF MapEntry, Address
<1>2. PICK low : low = CutLow(me)
  OBVIOUS
<1>3. /\ low \in MapEntry /\ low.addr \in Nat /\ low.len \in Nat
      /\ low.addr = IF me.addr < ONE_MB THEN ONE_MB ELSE me.addr
      /\ low.addr + low.len = me.addr + me.len /\ low.addr + low.len < ADDR_MOD
      /\ WholeWords(low.addr) /\ WholeWords(low.len)
  <2>1. /\ low \in MapEntry
        /\ low.addr = IF me.addr < ONE_MB THEN ONE_MB ELSE me.addr
        /\ low.addr + low.len = me.addr + me.len /\ me.addr + me.len < ADDR_MOD
        /\ WholeWords(low.addr) /\ WholeWords(low.len)
    BY <1>2, LowIs
  <2>2. low.addr \in Nat /\ low.len \in Nat
    BY <1>1, <2>1 DEF MapEntry, Address
  <2>3. QED
    BY <2>1, <2>2
<1>4. ONE_MB <= low.addr /\ me.addr <= low.addr
  BY <1>1, <1>3
<1>5. PICK kept : kept = CutKernel(low)
  OBVIOUS
<1>6. /\ kept \in MapEntry
      /\ ONE_MB <= kept.addr /\ kept.addr <= kernel_end
      /\ WholeWords(kept.addr) /\ WholeWords(kept.len)
      /\ low.addr + low.len <= kernel_end => kept = low
      /\ low.addr + low.len > kernel_end => kept.addr = kernel_end
      /\ low.addr + low.len > kernel_end /\ low.addr <= kernel_end =>
           kept.addr = kernel_end /\ kept.len = low.addr + low.len - kernel_end
  BY <1>3, <1>4, <1>5, KernelIs
<1>7. kept.addr \in Nat /\ kept.len \in Nat
  BY <1>1, <1>6 DEF MapEntry, Address
<1>8. PICK rest : rest = CutHeap(kept)
  OBVIOUS
<1>9. /\ rest \in MapEntry
      /\ rest.addr = IF TakesHeap(kept) THEN kept.addr + MEM_DYNAMIC_MIN_SIZE ELSE kept.addr
      /\ rest.len = IF TakesHeap(kept) THEN kept.len - MEM_DYNAMIC_MIN_SIZE ELSE kept.len
      /\ TakesHeap(kept) => kept.len >= MEM_DYNAMIC_MIN_SIZE
      /\ ONE_MB <= rest.addr /\ rest.addr + PAGE_SIZE <= ADDR_MOD
      /\ WholeWords(rest.addr) /\ WholeWords(rest.len)
  BY <1>6, <1>8, HeapIs
<1>10. /\ kept.addr <= rest.addr /\ rest.addr + rest.len = kept.addr + kept.len
       /\ rest.addr \in Nat /\ rest.len \in Nat
  BY <1>1, <1>7, <1>9
<1>11. PICK page : page = CutPage(rest)
  OBVIOUS
<1>12. ASSUME ~ NothingLeft(rest)
       PROVE  /\ page.addr = align_up(rest.addr, PAGE_SIZE) /\ rest.addr <= page.addr
              /\ page.addr + page.len = rest.addr + rest.len
              /\ page.addr \in Nat /\ page.len \in Nat
  <2>1. /\ page \in MapEntry /\ page.addr = align_up(rest.addr, PAGE_SIZE)
        /\ rest.addr <= page.addr /\ page.addr + page.len = rest.addr + rest.len
    BY <1>9, <1>11, <1>12, PageIs
  <2>2. QED
    BY <1>1, <2>1 DEF MapEntry, Address
<1>13. CASE me.addr + me.len <= kernel_end
  <2>1. kept = low /\ me.addr <= kernel_end
    <3>1. low.addr + low.len <= kernel_end
      BY <1>3, <1>13
    <3>2. me.addr <= kernel_end
      BY <1>1, <1>13
    <3>3. QED
      BY <1>6, <3>1, <3>2
  <2>2. me.addr <= kept.addr /\ kept.addr + kept.len = me.addr + me.len
    BY <1>3, <1>4, <2>1
  <2>3. TakesHeap(kept) => kept.addr + MEM_DYNAMIC_MIN_SIZE <= me.addr + me.len
    BY <1>1, <1>7, <1>9, <2>2
  <2>4. ~ NothingLeft(rest) => me.addr <= page.addr /\ page.addr + page.len <= me.addr + me.len
    BY <1>1, <1>7, <1>10, <1>12, <2>2
  <2>5. ~ NothingLeft(rest) => PlacedIn(me, page.addr, page.addr + page.len)
    BY <2>1, <2>4 DEF PlacedIn
  <2>6. QED
    BY <1>2, <1>5, <1>7, <1>8, <1>11, <1>13, <2>2, <2>3, <2>4, <2>5
<1>14. CASE me.addr + me.len > kernel_end
  <2>1. kept.addr = kernel_end
    BY <1>3, <1>6, <1>14
  <2>2. ~ NothingLeft(rest) => kernel_end <= page.addr
    BY <1>1, <1>10, <1>12, <2>1
  <2>3. ASSUME ~ NothingLeft(rest), me.addr <= kernel_end
        PROVE  me.addr <= page.addr /\ page.addr + page.len <= me.addr + me.len
    <3>1. low.addr <= kernel_end
      BY <1>1, <1>3, <2>3
    <3>2. kept.addr + kept.len = me.addr + me.len
      BY <1>1, <1>3, <1>6, <1>14, <3>1
    <3>3. QED
      BY <1>1, <1>10, <1>12, <2>2, <2>3, <3>2
  <2>4. ASSUME ~ NothingLeft(rest), ~ (me.addr <= kernel_end)
        PROVE  \E start \in {kernel_end, kernel_end + MEM_DYNAMIC_MIN_SIZE} :
                 page.addr = align_up(start, PAGE_SIZE)
    BY <1>9, <1>12, <2>1, <2>4
  <2>5. ~ NothingLeft(rest) => PlacedIn(me, page.addr, page.addr + page.len)
    BY <2>3, <2>4 DEF PlacedIn
  <2>6. kernel_end <= kept.addr
    BY <1>1, <2>1
  <2>7. QED
    BY <1>2, <1>5, <1>7, <1>8, <1>11, <2>2, <2>5, <2>6
<1>15. QED
  BY <1>1, <1>13, <1>14

(* What a turn of the loop takes out of an entry, it takes from behind the *)
(* kernel or from an entry that ends inside it.                            *)
LEMMA TurnPlaces ==
  ASSUME TypeOK, MapInv, mm_init
  PROVE  /\ m_dyn_base' = m_dyn_base \/ Behind(m_dyn_base', MEM_DYNAMIC_MIN_SIZE)
         /\ \/ UNCHANGED <<bitmap_stack, cleared>>
            \/ \E b \in MapEntry :
                 /\ PageOK(b) /\ MakeRegion(b)
                 /\ PlacedIn(given[i], b.addr, b.addr + b.len)
                 /\ Behind(b.addr, b.len)
<1>1. i \in 1 .. Len(given) /\ i <= Len(map)
  BY NextEntry DEF mm_init
<1>2. PICK me \in MapEntry : me = map[i] /\ me = given[i]
  BY <1>1, NextEntry
<1>3. CASE me.type # Available \/ RejectLow(me)
  BY <1>2, <1>3 DEF mm_init, RejectLow, Reject
<1>4. CASE me.type = Available /\ ~ RejectLow(me)
  <2> DEFINE kept == CutKernel(CutLow(me))
             rest == CutHeap(kept)
             page == CutPage(rest)
             end == me.addr + me.len
  <2>1. mm_initmemblock(me)
    BY <1>2, <1>4 DEF mm_init
  <2>2. /\ ~ is_block_under1mb(me)
        /\ m_dyn_base' = IF TakesHeap(kept) THEN kept.addr ELSE m_dyn_base
        /\ RejectShort(rest) \/ (~ NothingLeft(rest) /\ MakeRegion(page))
    BY <1>4, <2>1 DEF mm_initmemblock
  <2>3. /\ me.addr + me.len < ADDR_MOD + ONE_MB
        /\ WholeWords(me.addr) /\ WholeWords(me.len)
    BY <1>1, <1>2, <1>4, <2>2, NextEntry
  <2>4. /\ kept.addr \in Nat
        /\ \/ kernel_end <= kept.addr
           \/ /\ end <= kernel_end /\ me.addr <= kept.addr
              /\ TakesHeap(kept) => kept.addr + MEM_DYNAMIC_MIN_SIZE <= end
        /\ ~ NothingLeft(rest) =>
             /\ PlacedIn(me, page.addr, page.addr + page.len)
             /\ \/ kernel_end <= page.addr
                \/ end <= kernel_end /\ me.addr <= page.addr /\ page.addr + page.len <= end
    BY <1>4, <2>2, <2>3, CutsAre
  <2>5. ASSUME NEW a, NEW size,
               \/ kernel_end <= a
               \/ end <= kernel_end /\ me.addr <= a /\ a + size <= end
        PROVE  Behind(a, size)
    BY <1>1, <1>2, <1>4, <2>5, Zenon DEF Behind, EndsInKernel
  <2> HIDE DEF kept, rest, page, end
  <2>6. TakesHeap(kept) => Behind(kept.addr, MEM_DYNAMIC_MIN_SIZE)
    BY <2>4, <2>5
  <2>7. ~ NothingLeft(rest) => Behind(page.addr, page.len)
    BY <2>4, <2>5
  <2>8. CASE RejectShort(rest)
    BY <2>2, <2>6, <2>8 DEF RejectShort, Reject
  <2>9. CASE ~ NothingLeft(rest) /\ MakeRegion(page)
    <3>1. PageOK(page) /\ page \in MapEntry
      BY <1>2, <1>4, <2>2, <2>3, <2>9, PageMade DEF kept, rest, page
    <3>2. QED
      BY <1>2, <2>2, <2>4, <2>6, <2>7, <2>9, <3>1
  <2>10. QED
    BY <2>2, <2>8, <2>9
<1>5. QED
  BY <1>3, <1>4

(* The kernel loses only what lies in an entry that ends inside it. *)
LEMMA KernelStep ==
  ASSUME TypeOK, MapInv, KernelInv, mm_init
  PROVE  KernelInv'
<1>1. given' = given /\ given \in Seq(MapEntry)
  BY TurnIs DEF TypeOK
<1>2. /\ m_dyn_base' = m_dyn_base \/ Behind(m_dyn_base', MEM_DYNAMIC_MIN_SIZE)
      /\ \/ UNCHANGED <<bitmap_stack, cleared>>
         \/ \E b \in MapEntry :
              /\ PageOK(b) /\ MakeRegion(b)
              /\ PlacedIn(given[i], b.addr, b.addr + b.len)
              /\ Behind(b.addr, b.len)
  BY TurnPlaces
<1>3. m_dyn_base' # NoHeap => Behind(m_dyn_base', MEM_DYNAMIC_MIN_SIZE)
  BY <1>2 DEF KernelInv
<1>4. ASSUME NEW b \in MapEntry, PageOK(b), MakeRegion(b), Behind(b.addr, b.len), NEW a \in cleared'
      PROVE  Behind(a, 1)
  <2>1. a \in cleared \/ a \in b.addr .. b.addr + b.len - 1
    BY <1>4, Cleared
  <2>2. CASE a \in b.addr .. b.addr + b.len - 1
    <3>1. b.addr \in Nat /\ b.len \in Nat /\ kernel_end \in Nat /\ a \in Nat
          /\ b.addr <= a /\ a + 1 <= b.addr + b.len
      BY <2>2, Sizes DEF MapEntry, Address
    <3>2. CASE kernel_end <= b.addr
      BY <3>1, <3>2 DEF Behind
    <3>3. ASSUME NEW d \in 1 .. Len(given), EndsInKernel(given[d]), given[d].addr <= b.addr,
                 b.addr + b.len <= given[d].addr + given[d].len
          PROVE  Behind(a, 1)
      <4>1. given[d].addr \in Nat /\ given[d].len \in Nat
        <5>1. given[d] \in MapEntry
          BY <1>1
        <5>2. QED
          BY <5>1, Sizes DEF MapEntry, Address
      <4>2. given[d].addr <= a /\ a + 1 <= given[d].addr + given[d].len
        BY <3>1, <3>3, <4>1
      <4>3. QED
        BY <3>3, <4>2 DEF Behind
    <3>4. QED
      BY <1>4, <3>2, <3>3 DEF Behind
  <2>3. QED
    BY <2>1, <2>2 DEF KernelInv
<1>5. \A a \in cleared' : Behind(a, 1)
  BY <1>2, <1>4 DEF KernelInv
<1>6. QED
  BY <1>1, <1>3, <1>5 DEF KernelInv, Behind

(* Regions stay where their entries have put them. *)
LEMMA PlacedStep ==
  ASSUME TypeOK, MapInv, PlacedInv, mm_init
  PROVE  PlacedInv'
<1> DEFINE n == Len(bitmap_stack)
           Good(b) == /\ PlacedIn(given[b.entry], b.first_block, b.first_block + b.size)
                      /\ Behind(b.first_block, b.size)
<1>1. given' = given /\ i \in 1 .. Len(map)
  BY TurnIs
<1>2. \/ bitmap_stack' = bitmap_stack
      \/ \E b \in MapEntry :
           /\ PageOK(b) /\ MakeRegion(b)
           /\ PlacedIn(given[i], b.addr, b.addr + b.len) /\ Behind(b.addr, b.len)
  BY TurnPlaces
<1>3. /\ n \in Nat /\ \A r \in 1 .. n : Good(bitmap_stack[r])
      /\ \A r \in 1 .. n : bitmap_stack[r] \in RegionRecord(Len(map), n)
  BY TypeIs DEF PlacedInv, Region
<1>4. (\A r \in 1 .. Len(bitmap_stack') : Good(bitmap_stack'[r])) => PlacedInv'
  <2>1. \A addr, size : Behind(addr, size)' <=> Behind(addr, size)
    BY <1>1 DEF Behind
  <2>2. QED
    BY <1>1, <2>1 DEF PlacedInv, Region, Behind
<1> HIDE DEF Good
<1>5. bitmap_stack' = bitmap_stack => PlacedInv'
  BY <1>3, <1>4
<1>6. ASSUME NEW b \in MapEntry, PageOK(b), MakeRegion(b), ~ StackFull,
             PlacedIn(given[i], b.addr, b.addr + b.len), Behind(b.addr, b.len)
      PROVE  PlacedInv'
  <2>1. /\ Len(bitmap_stack') = n + 1
        /\ bitmap_stack'[n + 1] =
             [first_block |-> b.addr, blocks_count |-> calc_blocks(b.len),
              size |-> b.len, entry |-> i, next |-> NULL]
        /\ \A r \in 1 .. n :
             bitmap_stack'[r] =
               [bitmap_stack[r] EXCEPT !.next = IF r = newblock THEN n + 1 ELSE @]
    BY <1>1, <1>6, PageCount, RegionMade
  <2> HIDE DEF n
  <2>2. Good(bitmap_stack'[n + 1])
    <3>1. PICK new : new = bitmap_stack'[n + 1]
      OBVIOUS
    <3>2. new.first_block = b.addr /\ new.size = b.len /\ new.entry = i
      BY <2>1, <3>1
    <3>3. QED
      BY <1>6, <3>1, <3>2 DEF Good
  <2>3. ASSUME NEW r \in 1 .. n
        PROVE  Good(bitmap_stack'[r])
    <3>1. PICK old \in RegionRecord(Len(map), n) : old = bitmap_stack[r] /\ Good(old)
      BY <1>3
    <3>2. PICK new : new = bitmap_stack'[r]
      OBVIOUS
    <3>3. new = [old EXCEPT !.next = IF r = newblock THEN n + 1 ELSE @]
      BY <2>1, <3>1, <3>2
    <3>4. new.first_block = old.first_block /\ new.size = old.size /\ new.entry = old.entry
      BY <3>3 DEF RegionRecord
    <3>5. QED
      BY <3>1, <3>2, <3>4 DEF Good
  <2>4. QED
    BY <1>3, <1>4, <2>1, <2>2, <2>3
<1>7. QED
  BY <1>2, <1>5, <1>6 DEF MakeRegion

(* Nothing under 1 MB is cleared or given to the heap. *)
LEMMA LowStep ==
  ASSUME TypeOK, MapInv, LowInv, mm_init
  PROVE  LowInv'
<1>1. \/ UNCHANGED <<m_dyn_base, cleared>>
      \/ HeapTurn /\ \E b \in MapEntry : Reject(b) \/ (PageOK(b) /\ MakeRegion(b))
  BY TurnIs
<1>2. HeapTurn => (m_dyn_base' # NoHeap =>
                     ONE_MB <= m_dyn_base' /\ m_dyn_base' + MEM_DYNAMIC_MIN_SIZE < ADDR_MOD)
  BY DEF HeapTurn, LowInv
<1>3. ASSUME NEW b \in MapEntry, Reject(b) \/ (PageOK(b) /\ MakeRegion(b))
      PROVE  \A a \in cleared' : a >= ONE_MB
  <2>1. CASE Reject(b)
    BY <2>1 DEF Reject, LowInv
  <2>2. CASE PageOK(b) /\ MakeRegion(b)
    <3>1. cleared' = cleared \union (b.addr .. b.addr + b.len - 1)
      BY <2>2, Cleared
    <3>2. \A a \in b.addr .. b.addr + b.len - 1 : a >= ONE_MB
      BY <2>2, Sizes DEF PageOK, MapEntry, Address
    <3>3. QED
      BY <3>1, <3>2 DEF LowInv
  <2>3. QED
    BY <1>3, <2>1, <2>2
<1>4. QED
  BY <1>1, <1>2, <1>3 DEF LowInv

(* Looking at entry i does not change which of the entries before were     *)
(* kept.                                                                   *)
LEMMA KeptStep ==
  ASSUME TypeOK, NEW k \in Nat, k = i, i \in 1 .. Len(map), i' = i + 1, given' = given,
         \E b \in MapEntry : map' = map \/ map' = [map EXCEPT ![i] = b]
  PROVE  /\ i \in Nat /\ i - 1 \in Nat
         /\ \A e \in 1 .. i - 1 : (Kept(e)' <=> Kept(e)) /\ KeptUpTo(e)' = KeptUpTo(e)
         /\ KeptUpTo(k - 1)' = KeptUpTo(i - 1)
         /\ IsFiniteSet(KeptUpTo(i - 1)) /\ i \notin KeptUpTo(i - 1)
         /\ Cardinality(KeptUpTo(i - 1)) \in Nat
         /\ Kept(k)' => KeptUpTo(k)' = KeptUpTo(i - 1) \union {i}
         /\ ~ Kept(k)' => KeptUpTo(k)' = KeptUpTo(i - 1)
<1>1. i \in Nat \ {0} /\ i - 1 \in Nat /\ map \in Seq(MapEntry) /\ Len(map) \in Nat
  BY DEF TypeOK
<1>2. \A e \in 1 .. i - 1 : map'[e] = map[e]
  BY <1>1
<1>3. \A e \in 1 .. i - 1 : Kept(e)' <=> Kept(e)
  BY <1>1, <1>2 DEF Kept
<1>4. \A e \in 0 .. i - 1 : \A d \in 1 .. e : d \in 1 .. i - 1
  BY <1>1
<1>5. \A e \in 0 .. i - 1 : KeptUpTo(e)' = KeptUpTo(e)
  BY <1>3, <1>4 DEF KeptUpTo
<1>6. IsFiniteSet(KeptUpTo(i - 1)) /\ Cardinality(KeptUpTo(i - 1)) \in Nat
  <2>1. IsFiniteSet(1 .. i - 1)
    BY <1>1, FS_Interval
  <2>2. KeptUpTo(i - 1) \subseteq 1 .. i - 1
    BY DEF KeptUpTo
  <2>3. QED
    BY <2>1, <2>2, FS_Subset, FS_CardinalityType
<1>7. i \notin KeptUpTo(i - 1)
  BY <1>1 DEF KeptUpTo
<1>8. 1 .. i = (1 .. i - 1) \union {i}
  BY <1>1
<1>9. KeptUpTo(k)' = {d \in (1 .. i - 1) \union {i} : Kept(d)'}
  BY <1>8 DEF KeptUpTo
<1>10. KeptUpTo(k - 1)' = {d \in 1 .. i - 1 : Kept(d)'}
  BY DEF KeptUpTo
<1>11. /\ Kept(k)' => KeptUpTo(k)' = KeptUpTo(k - 1)' \union {i}
       /\ ~ Kept(k)' => KeptUpTo(k)' = KeptUpTo(k - 1)'
  BY <1>9, <1>10
<1>12. i - 1 \in 0 .. i - 1 /\ \A e \in 1 .. i - 1 : e \in 0 .. i - 1
  BY <1>1
<1>13. QED
  BY <1>1, <1>3, <1>5, <1>6, <1>7, <1>11, <1>12

(* The chain breaks exactly where an available entry gave no region.       *)
LEMMA ChainStep ==
  ASSUME TypeOK, MapInv, RegionInv, ChainInv, mm_init
  PROVE  ChainInv'
<1> DEFINE n == Len(bitmap_stack)
           NoTurn == /\ given[i].type # Available
                     /\ UNCHANGED <<map, newblock, bitmap_stack, firstblock, m_dyn_base, cleared>>
           Turn(b) == given[i].type = Available /\ (Reject(b) \/ (PageOK(b) /\ MakeRegion(b)))
<1> PICK k \in Nat : k = i
  BY TypeIs DEF TypeOK
<1>1. /\ i' = i + 1 /\ given' = given /\ i \in 1 .. Len(map) /\ i \in Nat \ {0}
      /\ map \in Seq(MapEntry) /\ Len(map) \in Nat
      /\ NoTurn \/ \E b \in MapEntry : Turn(b)
  BY TurnIs DEF TypeOK
<1>2. /\ n \in Nat /\ newblock \in 0 .. n /\ firstblock \in 0 .. n /\ NULL = 0
      /\ n <= BITMAP_STACK_SIZE /\ BITMAP_STACK_SIZE \in Nat
      /\ \A r \in 1 .. n : bitmap_stack[r] \in RegionRecord(Len(map), n)
      /\ \A r \in 1 .. n : bitmap_stack[r].entry < i /\ bitmap_stack[r].entry \in Nat \ {0}
      /\ bitmap_stack = <<>> <=> n = 0
      /\ Region = 1 .. n
  <2>1. /\ n \in Nat /\ bitmap_stack \in Seq(RegionRecord(Len(map), n))
        /\ newblock \in 0 .. n /\ firstblock \in 0 .. n
    BY TypeIs
  <2>2. bitmap_stack = <<>> <=> n = 0
    BY <2>1
  <2>3. \A r \in 1 .. n : bitmap_stack[r] \in RegionRecord(Len(map), n)
    BY <2>1
  <2>4. \A r \in 1 .. n : bitmap_stack[r].entry < i
    BY DEF RegionInv, Region
  <2>5. \A r \in 1 .. n : bitmap_stack[r].entry \in Nat \ {0}
    BY <2>3 DEF RegionRecord
  <2>6. n <= BITMAP_STACK_SIZE /\ BITMAP_STACK_SIZE \in Nat
    BY Sizes DEF TypeOK
  <2>7. QED
    BY <2>1, <2>2, <2>3, <2>4, <2>5, <2>6 DEF Region, NULL
<1>3. /\ i - 1 \in Nat
      /\ \A e \in 1 .. i - 1 : (Kept(e)' <=> Kept(e)) /\ KeptUpTo(e)' = KeptUpTo(e)
      /\ IsFiniteSet(KeptUpTo(i - 1)) /\ i \notin KeptUpTo(i - 1)
      /\ Cardinality(KeptUpTo(i - 1)) \in Nat
      /\ Kept(k)' => KeptUpTo(k)' = KeptUpTo(i - 1) \union {i}
      /\ ~ Kept(k)' => KeptUpTo(k)' = KeptUpTo(i - 1)
  <2>1. \E b \in MapEntry : map' = map \/ map' = [map EXCEPT ![i] = b]
    <3>1. CASE NoTurn
      <4>1. map' = map /\ map[i] \in MapEntry
        BY <1>1, <3>1
      <4>2. QED
        BY <4>1
    <3>2. ASSUME NEW b \in MapEntry, Turn(b)
          PROVE  \E c \in MapEntry : map' = [map EXCEPT ![i] = c]
      <4>1. [b EXCEPT !.type = Reserved] \in MapEntry
        BY DEF MapEntry, Available, Reserved
      <4>2. QED
        BY <3>2, <4>1 DEF Reject, MakeRegion
    <3>3. QED
      BY <1>1, <3>1, <3>2
  <2>2. QED
    BY <1>1, <2>1, KeptStep
<1>4. Kept(k)' => Cardinality(KeptUpTo(k)') = Cardinality(KeptUpTo(i - 1)) + 1
  <2>1. Cardinality(KeptUpTo(i - 1) \union {i}) = Cardinality(KeptUpTo(i - 1)) + 1
    BY <1>3, FS_AddElement
  <2>2. Kept(k)' => KeptUpTo(k)' = KeptUpTo(i - 1) \union {i}
    BY <1>3
  <2>3. QED
    BY <2>1, <2>2
<1>5. (i + 1) - 1 = i /\ i \in Int /\ \A e \in 1 .. i : e = i \/ e \in 1 .. i - 1
  BY <1>1
<1>6. \A d, e : NoneBetween(d, e)' <=> NoneBetween(d, e)
  BY <1>1 DEF NoneBetween
<1>7. \A d \in Nat : d < i => (NoneBetween(d, i + 1) <=> NoneBetween(d, i) /\ given[i].type # Available)
  BY <1>1 DEF NoneBetween
<1>8. NoneBetween(i, i + 1)
  BY <1>1 DEF NoneBetween
(* Nothing is added to the chain. *)
<1>9. ASSUME bitmap_stack' = bitmap_stack, firstblock' = firstblock,
             \/ given[i].type # Available /\ newblock' = newblock
             \/ given[i].type = Available /\ newblock' = NULL,
             Kept(k)' => n >= BITMAP_STACK_SIZE
      PROVE  ChainInv'
  <2>1. LinkInv'
    BY <1>6, <1>9 DEF ChainInv, LinkInv, NoneBetween
  <2>2. LastInv'
    <3>1. n > 0 => n \in 1 .. n /\ bitmap_stack[n].entry \in Nat /\ bitmap_stack[n].entry < i
      BY <1>2
    <3>2. /\ newblock' # NULL => newblock' = n /\ NoneBetween(bitmap_stack[n].entry, i + 1)
          /\ newblock' = NULL /\ n > 0 => ~ NoneBetween(bitmap_stack[n].entry, i + 1)
      BY <1>2, <1>7, <1>9, <3>1 DEF ChainInv, LastInv
    <3>3. QED
      BY <1>1, <1>6, <1>9, <3>2 DEF LastInv, NoneBetween
  <2>3. CountInv'
    <3>1. \A e : GaveRegion(e)' <=> GaveRegion(e)
      BY <1>9 DEF GaveRegion
    <3>2. ~ GaveRegion(i)
      BY <1>2 DEF GaveRegion
    <3>3. /\ n <= Cardinality(KeptUpTo(i - 1))
          /\ n < BITMAP_STACK_SIZE => Cardinality(KeptUpTo(i - 1)) = n
          /\ \A e \in 1 .. i - 1 :
               GaveRegion(e) <=> Kept(e) /\ Cardinality(KeptUpTo(e)) <= BITMAP_STACK_SIZE
      BY <1>3 DEF ChainInv, CountInv
    <3>4. /\ n <= Cardinality(KeptUpTo(k)')
          /\ n < BITMAP_STACK_SIZE => Cardinality(KeptUpTo(k)') = n
          /\ Kept(k)' => Cardinality(KeptUpTo(k)') > BITMAP_STACK_SIZE
      <4>1. CASE Kept(k)'
        BY <1>2, <1>3, <1>4, <1>9, <3>3, <4>1
      <4>2. CASE ~ Kept(k)'
        BY <1>3, <3>3, <4>2
      <4>3. QED
        BY <4>1, <4>2
    <3>5. Cardinality(KeptUpTo(k)') \in Nat
      <4>1. CASE Kept(k)'
        BY <1>3, <1>4, <4>1
      <4>2. CASE ~ Kept(k)'
        BY <1>3, <4>2
      <4>3. QED
        BY <4>1, <4>2
    <3>6. \A e \in 1 .. i :
            GaveRegion(e)' <=> Kept(e)' /\ Cardinality(KeptUpTo(e)') <= BITMAP_STACK_SIZE
      <4>1. GaveRegion(k)' <=> Kept(k)' /\ Cardinality(KeptUpTo(k)') <= BITMAP_STACK_SIZE
        BY <1>2, <3>1, <3>2, <3>4, <3>5
      <4>2. \A e \in 1 .. i - 1 :
              GaveRegion(e)' <=> Kept(e)' /\ Cardinality(KeptUpTo(e)') <= BITMAP_STACK_SIZE
        BY <1>3, <3>1, <3>3
      <4>3. QED
        BY <1>5, <4>1, <4>2
    <3>7. \A last \in Nat : last = i' - 1 => last = k
      BY <1>1, <1>5
    <3>8. QED
      BY <1>9, <3>4, <3>6, <3>7 DEF CountInv
  <2>4. QED
    BY <2>1, <2>2, <2>3 DEF ChainInv

(* A region is added. *)
<1>10. ASSUME NEW b \in MapEntry, given[i].type = Available, PageOK(b), MakeRegion(b), ~ StackFull
       PROVE  ChainInv'
  <2>1. /\ Len(bitmap_stack') = n + 1 /\ newblock' = n + 1
        /\ firstblock' = IF firstblock = NULL THEN n + 1 ELSE firstblock
        /\ bitmap_stack'[n + 1] =
             [first_block |-> b.addr, blocks_count |-> calc_blocks(b.len),
              size |-> b.len, entry |-> i, next |-> NULL]
        /\ \A r \in 1 .. n :
             bitmap_stack'[r] =
               [bitmap_stack[r] EXCEPT !.next = IF r = newblock THEN n + 1 ELSE @]
        /\ bitmap_stack' \in Seq(RegionRecord(Len(map), n + 1))
    BY <1>1, <1>10, PageCount, RegionMade
  <2>2. n < BITMAP_STACK_SIZE
    BY <1>2, <1>10 DEF StackFull
  <2>3. Kept(k)'
    <3>1. map' = [map EXCEPT ![i] = b] /\ b.type = Available
      BY <1>10 DEF PageOK, MakeRegion
    <3>2. map'[i] = b
      BY <1>1, <3>1
    <3>3. QED
      BY <1>1, <1>10, <3>1, <3>2 DEF Kept
  <2> HIDE DEF n
  <2>4. /\ bitmap_stack'[n + 1].entry = i /\ bitmap_stack'[n + 1].next = NULL
        /\ \A r \in 1 .. n :
             /\ bitmap_stack'[r].entry = bitmap_stack[r].entry
             /\ bitmap_stack'[r].next = IF r = newblock THEN n + 1 ELSE bitmap_stack[r].next
    <3>1. bitmap_stack'[n + 1].entry = i /\ bitmap_stack'[n + 1].next = NULL
      BY <2>1
    <3>2. ASSUME NEW r \in 1 .. n
          PROVE  /\ bitmap_stack'[r].entry = bitmap_stack[r].entry
                 /\ bitmap_stack'[r].next = IF r = newblock THEN n + 1 ELSE bitmap_stack[r].next
      <4>1. PICK old \in RegionRecord(Len(map), n) : old = bitmap_stack[r]
        BY <1>2
      <4>2. bitmap_stack'[r] = [old EXCEPT !.next = IF r = newblock THEN n + 1 ELSE @]
        BY <2>1, <4>1
      <4>3. /\ bitmap_stack'[r].entry = old.entry
            /\ bitmap_stack'[r].next = IF r = newblock THEN n + 1 ELSE old.next
        BY <4>2 DEF RegionRecord
      <4>4. QED
        BY <4>1, <4>3
    <3>3. QED
      BY <3>1, <3>2
  <2>5. /\ firstblock = IF n = 0 THEN NULL ELSE 1
        /\ \A r, s \in 1 .. n : r < s => bitmap_stack[r].entry < bitmap_stack[s].entry
        /\ \A r \in 1 .. n : bitmap_stack[r].next \in {NULL, r + 1}
        /\ \A r \in 1 .. n :
             bitmap_stack[r].next = r + 1 <=>
               r < n /\ NoneBetween(bitmap_stack[r].entry, bitmap_stack[r + 1].entry)
    BY <1>2 DEF ChainInv, LinkInv, n
  <2>6. /\ newblock # NULL => newblock = n /\ NoneBetween(bitmap_stack[n].entry, i)
        /\ newblock = NULL /\ n > 0 => ~ NoneBetween(bitmap_stack[n].entry, i)
    BY DEF ChainInv, LastInv, n
  <2>7. \A r \in 1 .. n + 1 : r = n + 1 \/ (r \in 1 .. n /\ r # n + 1)
    BY <1>2
  <2>8. LinkInv'
    <3>1. firstblock' = 1 /\ bitmap_stack' # <<>>
      BY <1>2, <2>1, <2>5
    <3>2. ASSUME NEW r \in 1 .. n + 1, NEW s \in 1 .. n + 1, r < s
          PROVE  bitmap_stack'[r].entry < bitmap_stack'[s].entry
      <4>1. r \in 1 .. n /\ bitmap_stack'[r].entry = bitmap_stack[r].entry
        BY <1>2, <2>4, <3>2
      <4>2. CASE s = n + 1
        BY <1>2, <2>4, <4>1, <4>2
      <4>3. CASE s \in 1 .. n
        BY <2>4, <2>5, <3>2, <4>1, <4>3
      <4>4. QED
        BY <2>7, <4>2, <4>3
    <3>3. ASSUME NEW r \in 1 .. n + 1
          PROVE  bitmap_stack'[r].next \in {NULL, r + 1}
      <4>1. CASE r = n + 1
        BY <2>4, <4>1
      <4>2. CASE r \in 1 .. n /\ r # newblock
        BY <2>4, <2>5, <4>2
      <4>3. CASE r \in 1 .. n /\ r = newblock
        BY <1>2, <2>4, <2>6, <4>3
      <4>4. QED
        BY <2>7, <4>1, <4>2, <4>3
    <3>4. ASSUME NEW r \in 1 .. n + 1
          PROVE  bitmap_stack'[r].next = r + 1 <=>
                   /\ r < n + 1
                   /\ NoneBetween(bitmap_stack'[r].entry, bitmap_stack'[r + 1].entry)
      <4>1. CASE r = n + 1
        BY <1>2, <2>4, <4>1
      <4>2. CASE r = n /\ n > 0
        <5>1. bitmap_stack'[n].entry = bitmap_stack[n].entry /\ bitmap_stack'[n + 1].entry = i
          BY <1>2, <2>4, <4>2
        <5>2. bitmap_stack'[n].next = n + 1 <=> newblock = n
          BY <1>2, <2>4, <2>5, <4>2
        <5>3. newblock = n <=> NoneBetween(bitmap_stack[n].entry, i)
          BY <1>2, <2>6, <4>2
        <5>4. QED
          BY <1>2, <4>2, <5>1, <5>2, <5>3
      <4>3. CASE r \in 1 .. n - 1
        <5>1. r \in 1 .. n /\ r + 1 \in 1 .. n /\ r < n /\ r < n + 1 /\ r # newblock
          BY <1>2, <2>6, <4>3
        <5>2. /\ bitmap_stack'[r].entry = bitmap_stack[r].entry
              /\ bitmap_stack'[r + 1].entry = bitmap_stack[r + 1].entry
              /\ bitmap_stack'[r].next = bitmap_stack[r].next
          BY <2>4, <5>1
        <5>3. QED
          BY <2>5, <5>1, <5>2
      <4>4. QED
        BY <1>2, <4>1, <4>2, <4>3
    <3>5. Len(bitmap_stack') = n + 1
      BY <2>1
    <3>6. \A r \in 1 .. n + 1 :
            bitmap_stack'[r].next = r + 1 <=>
              /\ r < n + 1
              /\ NoneBetween(bitmap_stack[r].entry, bitmap_stack[r + 1].entry)'
      BY <1>1, <3>4 DEF NoneBetween
    <3>7. QED
      BY <3>1, <3>2, <3>3, <3>5, <3>6 DEF LinkInv
  <2>9. LastInv'
    <3>1. newblock' # NULL /\ newblock' = Len(bitmap_stack')
      BY <1>2, <2>1
    <3>2. NoneBetween(bitmap_stack'[n + 1].entry, i + 1)
      BY <1>8, <2>4
    <3>3. QED
      BY <1>1, <2>1, <3>1, <3>2 DEF LastInv, NoneBetween
  <2>10. CountInv'
    <3>1. \A e \in 1 .. i - 1 : GaveRegion(e)' <=> GaveRegion(e)
      <4>1. \A r \in 1 .. n : bitmap_stack'[r].entry = bitmap_stack[r].entry
        BY <2>4
      <4>2. bitmap_stack'[n + 1].entry = i /\ i \notin 1 .. i - 1
        BY <1>1, <2>4
      <4>3. 1 .. n + 1 = (1 .. n) \union {n + 1}
        BY <1>2
      <4>4. Len(bitmap_stack') = n + 1
        BY <2>1
      <4>5. ASSUME NEW e \in 1 .. i - 1
            PROVE  GaveRegion(e)' <=> GaveRegion(e)
        <5>1. GaveRegion(e)' <=> \E r \in (1 .. n) \union {n + 1} : bitmap_stack'[r].entry = e
          BY <4>3, <4>4 DEF GaveRegion
        <5>2. (\E r \in (1 .. n) \union {n + 1} : bitmap_stack'[r].entry = e)
                <=> \E r \in 1 .. n : bitmap_stack[r].entry = e
          BY <4>1, <4>2
        <5>3. QED
          BY <5>1, <5>2 DEF GaveRegion, n
      <4>6. QED
        BY <4>5
    <3>2. GaveRegion(k)'
      <4>1. n + 1 \in 1 .. n + 1
        BY <1>2
      <4>2. QED
        BY <2>1, <2>4, <4>1 DEF GaveRegion
    <3>3. /\ n <= Cardinality(KeptUpTo(i - 1))
          /\ n < BITMAP_STACK_SIZE => Cardinality(KeptUpTo(i - 1)) = n
          /\ \A e \in 1 .. i - 1 :
               GaveRegion(e) <=> Kept(e) /\ Cardinality(KeptUpTo(e)) <= BITMAP_STACK_SIZE
      BY <1>3 DEF ChainInv, CountInv, n
    <3>4. Cardinality(KeptUpTo(k)') = n + 1
      BY <1>3, <1>4, <2>2, <2>3, <3>3
    <3>5. n + 1 <= BITMAP_STACK_SIZE /\ n + 1 \in Nat
      BY <1>2, <2>2
    <3>6. \A e \in 1 .. i :
            GaveRegion(e)' <=> Kept(e)' /\ Cardinality(KeptUpTo(e)') <= BITMAP_STACK_SIZE
      <4>1. GaveRegion(k)' <=> Kept(k)' /\ Cardinality(KeptUpTo(k)') <= BITMAP_STACK_SIZE
        BY <2>3, <3>2, <3>4, <3>5
      <4>2. \A e \in 1 .. i - 1 :
              GaveRegion(e)' <=> Kept(e)' /\ Cardinality(KeptUpTo(e)') <= BITMAP_STACK_SIZE
        BY <1>3, <3>1, <3>3
      <4>3. QED
        BY <1>5, <4>1, <4>2
    <3>7. \A last \in Nat : last = i' - 1 => last = k
      BY <1>1, <1>5
    <3>8. Len(bitmap_stack') = n + 1
      BY <2>1
    <3>9. /\ n + 1 <= Cardinality(KeptUpTo(k)')
          /\ n + 1 < BITMAP_STACK_SIZE => Cardinality(KeptUpTo(k)') = n + 1
      BY <1>2, <3>4
    <3>10. QED
      BY <3>6, <3>7, <3>8, <3>9 DEF CountInv
  <2>11. QED
    BY <2>8, <2>9, <2>10 DEF ChainInv
<1>11. CASE NoTurn
  <2>1. ~ Kept(k)'
    BY <1>1, <1>11 DEF Kept
  <2>2. QED
    BY <1>9, <1>11, <2>1
<1>12. ASSUME NEW b \in MapEntry, Turn(b)
       PROVE  ChainInv'
  <2>1. CASE Reject(b)
    <3>1. map' = [map EXCEPT ![i] = [b EXCEPT !.type = Reserved]]
      BY <2>1 DEF Reject
    <3>2. map'[i].type = Reserved
      BY <1>1, <3>1 DEF MapEntry
    <3>3. ~ Kept(k)'
      BY <3>2 DEF Kept, Available, Reserved
    <3>4. QED
      BY <1>9, <1>12, <2>1, <3>3 DEF Reject
  <2>2. CASE PageOK(b) /\ MakeRegion(b) /\ ~ StackFull
    BY <1>10, <1>12, <2>2
  <2>3. CASE MakeRegion(b) /\ StackFull
    BY <1>2, <1>9, <1>12, <2>3 DEF MakeRegion, StackFull
  <2>4. QED
    BY <1>12, <2>1, <2>2, <2>3
<1>13. QED
  BY <1>1, <1>11, <1>12

-----------------------------------------------------------------------------
(* The map of a PC.                                                        *)

(* h is the one available entry that reaches above 1 MB, and it holds the  *)
(* kernel image.                                                           *)
PCEntry(h) ==
  /\ \A e \in 1 .. Len(given) :
       given[e].type = Available /\ given[e].addr + given[e].len > ONE_MB <=> e = h
  /\ kernel_start .. kernel_end \subseteq EntryMemory(given[h])

EntryEnd(h) == given[h].addr + given[h].len

RoomForHeap(h) == EntryEnd(h) - kernel_end >= MEM_DYNAMIC_MIN_SIZE

Start(h) == IF RoomForHeap(h) THEN kernel_end + MEM_DYNAMIC_MIN_SIZE ELSE kernel_end

Border(h) == align_up(Start(h), PAGE_SIZE)

(* Before mm_init comes to entry h, or if it rejects it. *)
NothingYet == bitmap_stack = <<>> /\ m_dyn_base = NoHeap /\ cleared = {}

(* The heap behind the kernel, and the only region behind the heap. *)
HeapAndRegion(h) ==
  /\ m_dyn_base = IF RoomForHeap(h) THEN kernel_end ELSE NoHeap
  /\ IF Border(h) < EntryEnd(h)
     THEN /\ Len(bitmap_stack) = 1
          /\ bitmap_stack[1].first_block = Border(h)
          /\ bitmap_stack[1].size = EntryEnd(h) - Border(h)
          /\ bitmap_stack[1].entry = h
          /\ cleared = Border(h) .. EntryEnd(h) - 1
     ELSE bitmap_stack = <<>> /\ cleared = {}

HighInv ==
  \A h \in 1 .. Len(given) :
     PCEntry(h) =>
       IF i <= h \/ EntryEnd(h) >= ADDR_MOD THEN NothingYet ELSE HeapAndRegion(h)

(* The inductive invariant. *)
IInv ==
  /\ TypeOK /\ MapInv /\ RegionInv /\ LowInv /\ KernelInv /\ PlacedInv
  /\ ChainInv /\ HighInv

(* Below 4 GB the memory of an entry is an interval. *)
LEMMA EntryMemoryIs ==
  ASSUME NEW e \in MapEntry, e.high = 0
  PROVE  EntryMemory(e) = e.addr .. e.addr + e.len - 1
<1>1. e.addr \in Nat /\ e.len \in Nat /\ ADDR_MOD \in Nat
  BY Sizes DEF MapEntry, Address
<1>2. EntryMemory(e) = {e.addr + k : k \in 0 .. e.len - 1}
  <2>1. e.high * ADDR_MOD = 0
    BY <1>1
  <2>2. QED
    BY <1>1, <2>1 DEF EntryMemory
<1>3. \A a \in e.addr .. e.addr + e.len - 1 :
         a - e.addr \in 0 .. e.len - 1 /\ e.addr + (a - e.addr) = a
  BY <1>1
<1>4. ASSUME NEW a \in e.addr .. e.addr + e.len - 1
      PROVE  a \in EntryMemory(e)
  BY <1>2, <1>3
<1>5. ASSUME NEW a \in EntryMemory(e)
      PROVE  a \in e.addr .. e.addr + e.len - 1
  BY <1>1, <1>2
<1>6. QED
  BY <1>4, <1>5

(* The entry with the kernel image in it, and the entries without it. *)
LEMMA PCEntryIs ==
  ASSUME TypeOK, NEW h \in 1 .. Len(given), PCEntry(h)
  PROVE  /\ given[h] \in MapEntry /\ given[h].type = Available /\ given[h].high = 0
         /\ given[h].addr \in Nat /\ given[h].len \in Nat /\ given[h].len < ADDR_MOD
         /\ given[h].addr <= ONE_MB /\ EntryEnd(h) > kernel_end /\ EntryEnd(h) \in Nat
         /\ EntryMemory(given[h]) = given[h].addr .. EntryEnd(h) - 1
         /\ \A e \in 1 .. Len(given) :
              given[e].type = Available /\ e # h =>
                given[e] \in MapEntry /\ given[e].addr + given[e].len <= ONE_MB
<1>1. given \in Seq(MapEntry)
  BY DEF TypeOK
<1>2. /\ ADDR_MOD \in Nat /\ ONE_MB \in Nat /\ kernel_end \in Nat
      /\ kernel_start = ONE_MB /\ ONE_MB < kernel_end /\ kernel_end < ADDR_MOD
  BY Sizes
<1>3. PICK me \in MapEntry : me = given[h]
  BY <1>1
<1>4. /\ me.addr \in Nat /\ me.len \in Nat /\ me.len < ADDR_MOD /\ me.high \in {0, 1}
      /\ me.type = Available
  <2>1. me.type = Available
    BY <1>3 DEF PCEntry
  <2>2. QED
    BY <1>2, <2>1 DEF MapEntry, Address
<1>5. kernel_start \in EntryMemory(me) /\ kernel_end \in EntryMemory(me)
  BY <1>2, <1>3 DEF PCEntry
<1>6. me.high = 0
  <2>1. PICK k \in 0 .. me.len - 1 : kernel_start = me.high * ADDR_MOD + me.addr + k
    BY <1>5 DEF EntryMemory
  <2>2. me.high = 1 => kernel_start = ADDR_MOD + me.addr + k
    BY <1>2, <2>1
  <2>3. QED
    BY <1>2, <1>4, <2>2
<1>7. EntryMemory(me) = me.addr .. me.addr + me.len - 1
  BY <1>6, EntryMemoryIs
<1>8. me.addr <= ONE_MB /\ me.addr + me.len > kernel_end
  BY <1>2, <1>4, <1>5, <1>7
<1>9. ASSUME NEW e \in 1 .. Len(given), given[e].type = Available, e # h
      PROVE  given[e] \in MapEntry /\ given[e].addr + given[e].len <= ONE_MB
  <2>1. PICK other \in MapEntry : other = given[e]
    BY <1>1
  <2>2. ~ (other.addr + other.len > ONE_MB)
    BY <1>9, <2>1 DEF PCEntry
  <2>3. other.addr + other.len <= ONE_MB
    BY <1>2, <2>2 DEF MapEntry, Address
  <2>4. QED
    BY <2>1, <2>3
<1>10. QED
  BY <1>3, <1>4, <1>6, <1>7, <1>8, <1>9 DEF EntryEnd

(* The heap and the first page border behind the kernel. *)
LEMMA BorderIs ==
  ASSUME NEW h
  PROVE  /\ Start(h) \in Nat /\ Border(h) \in Nat
         /\ kernel_end <= Start(h) /\ Start(h) <= Border(h)
         /\ Border(h) % PAGE_SIZE = 0
         /\ \A n \in Int : Start(h) <= n /\ n % PAGE_SIZE = 0 => Border(h) <= n
<1>1. /\ Start(h) \in Nat /\ kernel_end <= Start(h) /\ Start(h) + PAGE_SIZE <= ADDR_MOD
  BY Sizes DEF Start
<1>2. ADDR_MOD \in Nat
  BY Sizes
<1>3. /\ Border(h) \in Address /\ Start(h) <= Border(h) /\ Border(h) % PAGE_SIZE = 0
      /\ \A n \in Int : Start(h) <= n /\ n % PAGE_SIZE = 0 => Border(h) <= n
  BY <1>1, Aligned DEF Border
<1>4. QED
  BY <1>1, <1>2, <1>3 DEF Address

(* An entry that ends at 1 MB or below gives nothing. *)
LEMMA LowTurn ==
  ASSUME TypeOK, MapInv, mm_init,
         given[i].type = Available, given[i].addr + given[i].len <= ONE_MB
  PROVE  UNCHANGED <<bitmap_stack, m_dyn_base, cleared>>
<1>1. PICK me \in MapEntry : me = map[i] /\ me = given[i]
  BY NextEntry DEF mm_init
<1>2. mm_initmemblock(me)
  BY <1>1 DEF mm_init
<1> DEFINE kept == CutKernel(CutLow(me))
           rest == CutHeap(kept)
<1>3. CASE RejectLow(me)
  BY <1>3 DEF RejectLow, Reject
<1>4. CASE ~ RejectLow(me)
  <2>1. /\ ~ is_block_under1mb(me)
        /\ m_dyn_base' = IF TakesHeap(kept) THEN kept.addr ELSE m_dyn_base
        /\ RejectShort(rest) \/ (~ NothingLeft(rest) /\ MakeRegion(CutPage(rest)))
    BY <1>2, <1>4 DEF mm_initmemblock
  <2>2. /\ me.addr \in Nat /\ me.len \in Nat /\ ADDR_MOD \in Nat /\ ONE_MB \in Nat
        /\ me.addr + me.len <= ONE_MB /\ ONE_MB < kernel_end /\ kernel_end \in Nat
        /\ ONE_MB < ADDR_MOD /\ WholeWords(ONE_MB) /\ MEM_DYNAMIC_MIN_SIZE \in Nat \ {0}
    BY <1>1, Sizes, WholeSizes DEF MapEntry, Address
  <2>3. WholeWords(me.addr) /\ WholeWords(me.len) /\ me.addr + me.len < ADDR_MOD + ONE_MB
    BY <1>1, <2>1, NextEntry DEF mm_init
  <2>4. PICK low \in MapEntry :
          /\ low = CutLow(me)
          /\ low.addr = IF me.addr < ONE_MB THEN ONE_MB ELSE me.addr
          /\ low.addr + low.len = me.addr + me.len /\ low.addr + low.len < ADDR_MOD
          /\ WholeWords(low.addr) /\ WholeWords(low.len)
    BY <2>1, <2>3, LowIs
  <2>5. low.len \in Nat /\ ONE_MB <= low.addr /\ low.addr \in Nat
    BY <2>2, <2>4, Sizes DEF MapEntry, Address
  <2>6. low.addr = ONE_MB /\ low.len = 0
    BY <2>2, <2>4, <2>5
  <2>7. kept = low
    <3>1. low.addr + low.len <= kernel_end
      BY <2>2, <2>6
    <3>2. QED
      BY <2>4, <2>5, <3>1, KernelIs
  <2> HIDE DEF kept
  <2>8. ~ TakesHeap(kept) /\ rest = low
    BY <2>2, <2>6, <2>7 DEF TakesHeap, CutHeap
  <2> HIDE DEF rest
  <2>9. NothingLeft(low)
    <3>1. ONE_MB + PAGE_SIZE <= ADDR_MOD
      BY Sizes
    <3>2. align_up(ONE_MB, PAGE_SIZE) \in Address /\ ONE_MB <= align_up(ONE_MB, PAGE_SIZE)
      BY <2>2, <3>1, Aligned
    <3>3. Wrap(low.addr + low.len) = ONE_MB
      <4>1. low.addr + low.len = ONE_MB /\ Wrap(ONE_MB) = ONE_MB
        BY <2>2, <2>6, WrapIs
      <4>2. QED
        BY <4>1
    <3>4. align_up(ONE_MB, PAGE_SIZE) >= ONE_MB
      BY <2>2, <3>2 DEF Address
    <3>5. QED
      BY <2>6, <3>3, <3>4 DEF NothingLeft, block_getend
  <2>10. QED
    BY <2>1, <2>8, <2>9 DEF RejectShort, Reject
<1>5. QED
  BY <1>3, <1>4

(* The entry with the kernel image in it gives the heap and one region, or *)
(* nothing if it goes on behind the last address.                          *)
LEMMA HighTurn ==
  ASSUME TypeOK, MapInv, mm_init, PCEntry(i), NothingYet
  PROVE  IF EntryEnd(i) >= ADDR_MOD THEN UNCHANGED <<bitmap_stack, m_dyn_base, cleared>>
         ELSE /\ m_dyn_base' = IF RoomForHeap(i) THEN kernel_end ELSE NoHeap
              /\ IF Border(i) < EntryEnd(i)
                 THEN /\ Len(bitmap_stack') = 1
                      /\ bitmap_stack'[1].first_block = Border(i)
                      /\ bitmap_stack'[1].size = EntryEnd(i) - Border(i)
                      /\ bitmap_stack'[1].entry = i
                      /\ cleared' = Border(i) .. EntryEnd(i) - 1
                 ELSE bitmap_stack' = <<>> /\ cleared' = {}
<1>1. i \in 1 .. Len(map) /\ i \in 1 .. Len(given) /\ map[i] = given[i]
  BY NextEntry DEF mm_init
<1>2. PICK me \in MapEntry : me = map[i] /\ me = given[i]
  BY <1>1, PCEntryIs
<1>3. /\ me.type = Available /\ me.addr \in Nat /\ me.len \in Nat /\ me.len < ADDR_MOD
      /\ me.addr <= ONE_MB /\ me.addr + me.len > kernel_end
  BY <1>1, <1>2, PCEntryIs DEF EntryEnd
<1>4. /\ ADDR_MOD \in Nat \ {0} /\ ONE_MB \in Nat /\ kernel_end \in Nat
      /\ ONE_MB < kernel_end /\ MEM_DYNAMIC_MIN_SIZE \in Nat \ {0} /\ PAGE_SIZE \in Nat \ {0}
      /\ BITMAP_STACK_SIZE \in Nat \ {0} /\ kernel_end < ADDR_MOD
      /\ kernel_end + MEM_DYNAMIC_MIN_SIZE + PAGE_SIZE <= ADDR_MOD
  BY Sizes
<1>5. mm_initmemblock(me)
  BY <1>2, <1>3 DEF mm_init
<1> DEFINE kept == CutKernel(CutLow(me))
           rest == CutHeap(kept)
<1>6. CASE EntryEnd(i) >= ADDR_MOD
  <2>1. PICK sum \in Nat : sum = me.addr + me.len
    BY <1>3
  <2>2. Wrap(sum) = sum - ADDR_MOD
    <3>1. ADDR_MOD <= sum /\ sum < 2 * ADDR_MOD
      BY <1>2, <1>3, <1>4, <1>6, <2>1 DEF EntryEnd
    <3>2. QED
      BY <3>1, WrapIs
  <2>3. is_block_under1mb(me)
    BY <1>3, <1>4, <2>1, <2>2 DEF is_block_under1mb, block_getend
  <2>4. RejectLow(me)
    BY <1>5, <2>3 DEF mm_initmemblock
  <2>5. QED
    BY <1>6, <2>4 DEF RejectLow, Reject
<1>7. CASE EntryEnd(i) < ADDR_MOD
  <2>1. me.addr + me.len < ADDR_MOD /\ me.addr + me.len \in Nat
    BY <1>2, <1>3, <1>7 DEF EntryEnd
  <2>2. ~ is_block_under1mb(me)
    <3>1. Wrap(me.addr + me.len) = me.addr + me.len
      BY <2>1, WrapIs
    <3>2. QED
      BY <1>3, <1>4, <3>1 DEF is_block_under1mb, block_getend
  <2>3. /\ m_dyn_base' = IF TakesHeap(kept) THEN kept.addr ELSE m_dyn_base
        /\ RejectShort(rest) \/ (~ NothingLeft(rest) /\ MakeRegion(CutPage(rest)))
    BY <1>5, <2>2 DEF mm_initmemblock, RejectLow
  <2>4. WholeWords(me.addr) /\ WholeWords(me.len) /\ me.addr + me.len < ADDR_MOD + ONE_MB
    BY <1>2, <1>3, <2>2, NextEntry DEF mm_init
  <2>5. PICK low \in MapEntry :
          /\ low = CutLow(me)
          /\ low.addr = IF me.addr < ONE_MB THEN ONE_MB ELSE me.addr
          /\ low.addr + low.len = me.addr + me.len /\ low.addr + low.len < ADDR_MOD
          /\ WholeWords(low.addr) /\ WholeWords(low.len)
    BY <2>2, <2>4, LowIs
  <2>6. low.addr = ONE_MB /\ ONE_MB <= ONE_MB /\ ONE_MB <= kernel_end
    BY <1>3, <1>4, <2>5
  <2>7. /\ kept \in MapEntry /\ kept.addr = kernel_end
        /\ kept.len = me.addr + me.len - kernel_end
        /\ WholeWords(kept.addr) /\ WholeWords(kept.len)
    <3>1. low.addr + low.len > kernel_end
      BY <1>3, <2>5
    <3>2. kept = CutKernel(low)
      BY <2>5
    <3>3. /\ kept \in MapEntry /\ kept.addr = kernel_end
          /\ kept.len = low.addr + low.len - kernel_end
          /\ WholeWords(kept.addr) /\ WholeWords(kept.len)
      BY <2>5, <2>6, <3>1, <3>2, KernelIs
    <3>4. low.addr + low.len - kernel_end = me.addr + me.len - kernel_end
      <4>1. low.addr \in Int /\ low.len \in Int
        BY Sizes DEF MapEntry, Address
      <4>2. QED
        BY <1>3, <1>4, <2>5, <4>1
    <3> HIDE DEF kept
    <3>5. QED
      BY <3>3, <3>4
  <2> HIDE DEF kept
  <2>8. TakesHeap(kept) <=> RoomForHeap(i)
    <3>1. kept.len = EntryEnd(i) - kernel_end
      BY <1>2, <1>3, <1>4, <2>7 DEF EntryEnd
    <3>2. m_dyn_base = NoHeap
      BY DEF NothingYet
    <3>3. QED
      BY <3>1, <3>2 DEF TakesHeap, RoomForHeap
  <2>9. m_dyn_base' = IF RoomForHeap(i) THEN kernel_end ELSE NoHeap
    BY <2>3, <2>7, <2>8 DEF NothingYet
  <2>10. /\ rest \in MapEntry /\ rest.addr = Start(i)
         /\ rest.addr + rest.len = EntryEnd(i)
         /\ ONE_MB <= rest.addr /\ rest.addr + PAGE_SIZE <= ADDR_MOD
         /\ WholeWords(rest.addr) /\ WholeWords(rest.len)
    <3>1. /\ rest \in MapEntry
          /\ rest.addr = IF TakesHeap(kept) THEN kept.addr + MEM_DYNAMIC_MIN_SIZE ELSE kept.addr
          /\ rest.len = IF TakesHeap(kept) THEN kept.len - MEM_DYNAMIC_MIN_SIZE ELSE kept.len
          /\ ONE_MB <= rest.addr /\ rest.addr + PAGE_SIZE <= ADDR_MOD
          /\ WholeWords(rest.addr) /\ WholeWords(rest.len)
      <4>1. ONE_MB <= kept.addr /\ kept.addr <= kernel_end
        BY <1>4, <2>7
      <4>2. QED
        BY <2>7, <4>1, HeapIs
    <3> HIDE DEF rest
    <3>2. rest.addr + rest.len = kept.addr + kept.len
      BY <1>3, <1>4, <2>1, <2>7, <3>1
    <3>3. kept.addr + kept.len = EntryEnd(i)
      BY <1>2, <1>3, <1>4, <2>1, <2>7 DEF EntryEnd
    <3>4. rest.addr = Start(i)
      BY <2>7, <2>8, <3>1 DEF Start
    <3>5. QED
      BY <3>1, <3>2, <3>3, <3>4
  <2> HIDE DEF rest
  <2>11. PICK end \in Nat : end = EntryEnd(i)
    BY <1>2, <2>1 DEF EntryEnd
  <2>12. NothingLeft(rest) <=> ~ (Border(i) < EntryEnd(i))
    <3>1. block_getend(rest) = end
      BY <1>7, <2>10, <2>11, WrapIs DEF block_getend
    <3>2. Border(i) \in Nat
      BY BorderIs
    <3>3. QED
      BY <2>10, <2>11, <3>1, <3>2 DEF NothingLeft, Border
  <2>13. CASE NothingLeft(rest)
    <3>1. UNCHANGED <<bitmap_stack, cleared>>
      BY <2>3, <2>13 DEF RejectShort, Reject
    <3>2. QED
      BY <1>4, <1>7, <2>9, <2>11, <2>12, <2>13, <3>1 DEF NothingYet
  <2>14. CASE ~ NothingLeft(rest)
    <3>1. PICK page \in MapEntry :
            /\ page = CutPage(rest) /\ page.addr = Border(i)
            /\ rest.addr <= page.addr /\ page.addr % PAGE_SIZE = 0
            /\ page.addr + page.len = end
            /\ page.len \in Nat /\ page.len >= WORD_SIZE /\ end < ADDR_MOD
      BY <2>10, <2>11, <2>14, PageIs DEF Border
    <3>2. MakeRegion(page)
      BY <2>3, <2>14, <3>1 DEF RejectShort
    <3>3. PageOK(page)
      <4>1. page.type = rest.type
        BY <2>10, <3>1, SameType DEF CutPage
      <4>2. rest.type = kept.type
        BY <2>7, SameType DEF CutHeap, block_addstart, rest
      <4>3. kept.type = low.type
        BY <2>5, SameType DEF CutKernel, kept
      <4>4. low.type = me.type
        BY <1>2, <2>5, SameType DEF CutLow
      <4>5. page.type = Available
        BY <1>3, <4>1, <4>2, <4>3, <4>4
      <4>6. QED
        BY <2>10, <2>11, <3>1, <4>5, Sizes DEF PageOK, MapEntry, Address
    <3>4. Len(bitmap_stack) = 0 /\ ~ StackFull
      BY <1>4 DEF NothingYet, StackFull
    <3>5. /\ Len(bitmap_stack') = 1
          /\ bitmap_stack'[1].first_block = page.addr
          /\ bitmap_stack'[1].size = page.len
          /\ bitmap_stack'[1].entry = i
      <4>1. calc_blocks(page.len) \in Address
        BY <3>3, PageCount
      <4>2. /\ Len(bitmap_stack') = 0 + 1
            /\ bitmap_stack'[0 + 1] =
                 [first_block |-> page.addr, blocks_count |-> calc_blocks(page.len),
                  size |-> page.len, entry |-> i, next |-> NULL]
        BY <1>1, <3>2, <3>4, <4>1, RegionMade
      <4>3. 0 + 1 = 1
        OBVIOUS
      <4>4. QED
        BY <4>2, <4>3
    <3>6. cleared' = Border(i) .. EntryEnd(i) - 1
      <4>1. cleared' = cleared \union (page.addr .. page.addr + page.len - 1)
        BY <3>2, <3>3, Cleared
      <4>2. page.addr + page.len - 1 = EntryEnd(i) - 1 /\ page.addr = Border(i)
        <5>1. page.addr \in Int
          BY Sizes DEF MapEntry, Address
        <5>2. QED
          BY <2>11, <3>1, <5>1
      <4>3. cleared = {}
        BY DEF NothingYet
      <4>4. QED
        BY <4>1, <4>2, <4>3
    <3>7. page.len = EntryEnd(i) - Border(i)
      <4>1. Border(i) \in Nat
        BY BorderIs
      <4>2. QED
        BY <2>11, <3>1, <4>1
    <3>8. QED
      BY <1>4, <1>7, <2>9, <2>11, <2>12, <2>14, <3>1, <3>5, <3>6, <3>7
  <2>15. QED
    BY <2>13, <2>14
<1>8. QED
  <2>1. EntryEnd(i) \in Nat
    BY <1>2, <1>3 DEF EntryEnd
  <2>2. QED
    BY <1>4, <1>6, <1>7, <2>1

(* Only the turn of the entry with the kernel image gives anything. *)
LEMMA HighStep ==
  ASSUME TypeOK, MapInv, HighInv, mm_init
  PROVE  HighInv'
<1>1. /\ i' = i + 1 /\ given' = given /\ i \in 1 .. Len(map) /\ i \in Nat
      /\ \/ /\ given[i].type # Available
            /\ UNCHANGED <<map, newblock, bitmap_stack, firstblock, m_dyn_base, cleared>>
         \/ given[i].type = Available
  BY TurnIs
<1>2. i \in 1 .. Len(given) /\ ADDR_MOD \in Nat
  BY NextEntry, Sizes DEF mm_init
<1>3. SUFFICES ASSUME NEW h \in 1 .. Len(given), PCEntry(h)
               PROVE  (IF i <= h \/ EntryEnd(h) >= ADDR_MOD THEN NothingYet ELSE HeapAndRegion(h))'
  BY <1>1 DEF HighInv, PCEntry
<1>4. IF i <= h \/ EntryEnd(h) >= ADDR_MOD THEN NothingYet ELSE HeapAndRegion(h)
  BY <1>3 DEF HighInv
<1>5. /\ EntryEnd(h)' = EntryEnd(h) /\ EntryEnd(h) \in Nat
      /\ RoomForHeap(h)' = RoomForHeap(h) /\ Border(h)' = Border(h)
  BY <1>1, <1>3, PCEntryIs DEF EntryEnd, RoomForHeap, Border, Start
<1>6. CASE i # h
  <2>1. UNCHANGED <<bitmap_stack, m_dyn_base, cleared>>
    <3>1. CASE given[i].type # Available
      BY <1>1, <3>1
    <3>2. CASE given[i].type = Available
      <4>1. given[i].addr + given[i].len <= ONE_MB
        BY <1>2, <1>3, <1>6, <3>2, PCEntryIs
      <4>2. QED
        BY <3>2, <4>1, LowTurn
    <3>3. QED
      BY <3>1, <3>2
  <2>2. i' <= h <=> i <= h
    BY <1>1, <1>3, <1>6
  <2>3. NothingYet' = NothingYet /\ HeapAndRegion(h)' = HeapAndRegion(h)
    BY <1>5, <2>1 DEF NothingYet, HeapAndRegion
  <2>4. QED
    BY <1>4, <1>5, <2>2, <2>3
<1>7. CASE i = h
  <2>1. NothingYet /\ ~ (i' <= h)
    BY <1>1, <1>2, <1>4, <1>7
  <2>2. IF EntryEnd(i) >= ADDR_MOD THEN UNCHANGED <<bitmap_stack, m_dyn_base, cleared>>
        ELSE /\ m_dyn_base' = IF RoomForHeap(i) THEN kernel_end ELSE NoHeap
             /\ IF Border(i) < EntryEnd(i)
                THEN /\ Len(bitmap_stack') = 1
                     /\ bitmap_stack'[1].first_block = Border(i)
                     /\ bitmap_stack'[1].size = EntryEnd(i) - Border(i)
                     /\ bitmap_stack'[1].entry = i
                     /\ cleared' = Border(i) .. EntryEnd(i) - 1
                ELSE bitmap_stack' = <<>> /\ cleared' = {}
    BY <1>3, <1>7, <2>1, HighTurn
  <2>3. CASE EntryEnd(h) >= ADDR_MOD
    BY <1>5, <1>7, <2>1, <2>2, <2>3 DEF NothingYet
  <2>4. CASE ~ (EntryEnd(h) >= ADDR_MOD)
    BY <1>5, <1>7, <2>1, <2>2, <2>4 DEF HeapAndRegion
  <2>5. QED
    BY <2>3, <2>4
<1>8. QED
  BY <1>6, <1>7

-----------------------------------------------------------------------------
(* The invariant holds.                                                    *)

(* It holds before the first entry. *)
LEMMA InitInv == Init => IInv
<1> SUFFICES ASSUME Init PROVE IInv
  OBVIOUS
<1>1. /\ given \in Maps /\ map = given /\ i = 1 /\ newblock = 0 /\ bitmap_stack = <<>>
      /\ firstblock = 0 /\ m_dyn_base = NoHeap /\ cleared = {}
  BY DEF Init, NULL
<1>2. given \in Seq(MapEntry) /\ Len(given) \in Nat
  BY <1>1, LayoutAssumption
<1>3. Len(bitmap_stack) = 0
  BY <1>1
<1>4. TypeOK
  <2>1. bitmap_stack \in Seq(RegionRecord(Len(map), Len(bitmap_stack)))
    BY <1>1
  <2>2. 0 \in 0 .. Len(bitmap_stack) /\ Len(bitmap_stack) <= BITMAP_STACK_SIZE
    BY <1>3, Sizes
  <2>3. QED
    BY <1>1, <1>2, <2>1, <2>2, TypeIs
<1>5. MapInv
  BY <1>1 DEF MapInv
<1>6. RegionInv
  BY <1>3 DEF RegionInv, Region
<1>7. LowInv
  BY <1>1 DEF LowInv
<1>8. ChainInv
  <2>1. KeptUpTo(i - 1) = {}
    BY <1>1 DEF KeptUpTo
  <2>2. Cardinality(KeptUpTo(i - 1)) = 0
    BY <2>1, FS_EmptySet
  <2>3. CountInv
    BY <1>1, <1>3, <2>2 DEF CountInv
  <2>4. LinkInv /\ LastInv
    BY <1>1, <1>3 DEF LinkInv, LastInv, NULL
  <2>5. QED
    BY <2>3, <2>4 DEF ChainInv
<1>9. HighInv
  BY <1>1, <1>2 DEF HighInv, NothingYet
<1>10. KernelInv /\ PlacedInv
  BY <1>1, <1>3 DEF KernelInv, PlacedInv, Region
<1>11. QED
  BY <1>4, <1>5, <1>6, <1>7, <1>8, <1>9, <1>10 DEF IInv

(* Every turn keeps it. *)
LEMMA StepInv == IInv /\ [Next]_vars => IInv'
<1> SUFFICES ASSUME IInv, [Next]_vars PROVE IInv'
  OBVIOUS
<1>1. CASE mm_init
  BY <1>1, TypeStep, MapStep, RegionStep, LowStep, KernelStep, PlacedStep, ChainStep, HighStep
     DEF IInv
<1>2. CASE UNCHANGED vars
  <2>1. UNCHANGED <<given, map, i, newblock, bitmap_stack, firstblock, m_dyn_base, cleared>>
    BY <1>2 DEF vars
  <2>2. TypeOK' /\ MapInv'
    BY <2>1 DEF IInv, TypeOK, Region, MapInv
  <2>3. RegionInv' /\ LowInv'
    BY <2>1 DEF IInv, Region, RegionInv, LowInv
  <2>4. \A e : KeptUpTo(e)' = KeptUpTo(e) /\ (Kept(e)' <=> Kept(e)) /\ (GaveRegion(e)' <=> GaveRegion(e))
    BY <2>1 DEF KeptUpTo, Kept, GaveRegion
  <2>5. \A d, e : NoneBetween(d, e)' <=> NoneBetween(d, e)
    BY <2>1 DEF NoneBetween
  <2>6. ChainInv'
    <3>1. LinkInv' /\ LastInv'
      BY <2>1, <2>5 DEF IInv, ChainInv, LinkInv, LastInv, NoneBetween
    <3>2. CountInv'
      BY <2>1, <2>4 DEF IInv, ChainInv, CountInv
    <3>3. QED
      BY <3>1, <3>2 DEF ChainInv
  <2>7. ASSUME NEW h \in 1 .. Len(given), PCEntry(h)'
        PROVE  (IF i <= h \/ EntryEnd(h) >= ADDR_MOD THEN NothingYet ELSE HeapAndRegion(h))'
    <3>1. PCEntry(h)
      BY <2>1, <2>7 DEF PCEntry
    <3>2. IF i <= h \/ EntryEnd(h) >= ADDR_MOD THEN NothingYet ELSE HeapAndRegion(h)
      BY <3>1 DEF IInv, HighInv
    <3>3. /\ EntryEnd(h)' = EntryEnd(h) /\ RoomForHeap(h)' = RoomForHeap(h)
          /\ Border(h)' = Border(h)
      BY <2>1 DEF EntryEnd, RoomForHeap, Border, Start
    <3>4. NothingYet' = NothingYet /\ HeapAndRegion(h)' = HeapAndRegion(h)
      BY <2>1, <3>3 DEF NothingYet, HeapAndRegion
    <3>5. QED
      BY <2>1, <3>2, <3>3, <3>4
  <2>8. HighInv'
    BY <2>1, <2>7 DEF HighInv
  <2>9. KernelInv' /\ PlacedInv'
    <3>1. KernelInv' = KernelInv
      BY <2>1 DEF KernelInv, Behind
    <3>2. PlacedInv' = PlacedInv
      BY <2>1 DEF PlacedInv, Region, Behind
    <3>3. QED
      BY <3>1, <3>2 DEF IInv
  <2>10. QED
    BY <2>2, <2>3, <2>6, <2>8, <2>9 DEF IInv
<1>3. QED
  BY <1>1, <1>2 DEF Next

(* The frames and the bitmap of a region lie in the part of the entry that *)
(* it was made from, and no more frames would fit.                         *)
LEMMA RegionIs ==
  ASSUME IInv, NEW r \in Region
  PROVE  LET b == bitmap_stack[r]
         IN  /\ b.first_block \in Nat /\ b.size \in Nat /\ b.blocks_count \in Nat
             /\ ONE_MB <= b.first_block /\ b.first_block % PAGE_SIZE = 0
             /\ RegionMemory(r) \subseteq b.first_block .. b.first_block + b.size - 1
             /\ Need(b.blocks_count) <= b.size
             /\ \A c \in Nat : Need(c) <= b.size => c <= b.blocks_count
<1>1. /\ ADDR_MOD \in Nat /\ ONE_MB \in Nat
      /\ bitmap_stack \in Seq(RegionRecord(Len(map), Len(bitmap_stack)))
  BY Sizes, TypeIs DEF IInv
<1>2. PICK b \in RegionRecord(Len(map), Len(bitmap_stack)) : b = bitmap_stack[r]
  BY <1>1 DEF Region
<1>3. /\ b.first_block \in Nat /\ b.size \in Nat
      /\ ONE_MB <= b.first_block /\ b.first_block % PAGE_SIZE = 0
      /\ WORD_SIZE <= b.size /\ b.first_block + b.size < ADDR_MOD
      /\ b.blocks_count = calc_blocks(b.size)
  BY <1>1, <1>2 DEF IInv, RegionInv, RegionRecord, Address
<1>4. /\ b.blocks_count \in Nat /\ Need(b.blocks_count) \in Nat
      /\ Need(b.blocks_count) <= b.size
      /\ \A c \in Nat : Need(c) <= b.size => c <= b.blocks_count
  <2>1. b.size < ADDR_MOD - ONE_MB
    BY <1>1, <1>3
  <2>2. QED
    BY <1>3, <2>1, CountIs
<1>5. RegionMemory(r) = Bytes(b.first_block, Need(b.blocks_count))
  BY <1>2 DEF RegionMemory, Need
<1>6. Bytes(b.first_block, Need(b.blocks_count)) =
        b.first_block .. b.first_block + Need(b.blocks_count) - 1
  <2>1. b.first_block + Need(b.blocks_count) <= ADDR_MOD
    BY <1>1, <1>3, <1>4
  <2>2. QED
    BY <1>3, <1>4, <2>1, BytesIs
<1>7. b.first_block .. b.first_block + Need(b.blocks_count) - 1
        \subseteq b.first_block .. b.first_block + b.size - 1
  BY <1>3, <1>4, SMTT(30)
<1>8. QED
  BY <1>2, <1>3, <1>4, <1>5, <1>6, <1>7

(* The heap is an interval behind its base. *)
LEMMA HeapMemoryIs ==
  ASSUME IInv
  PROVE  /\ HeapMemory = IF m_dyn_base = NoHeap THEN {}
                         ELSE m_dyn_base .. m_dyn_base + MEM_DYNAMIC_MIN_SIZE - 1
         /\ m_dyn_base # NoHeap => m_dyn_base \in Nat /\ ONE_MB <= m_dyn_base
<1>1. ASSUME m_dyn_base # NoHeap
      PROVE  /\ m_dyn_base \in Nat /\ ONE_MB <= m_dyn_base
             /\ m_dyn_base + MEM_DYNAMIC_MIN_SIZE <= ADDR_MOD
  BY <1>1, Sizes DEF IInv, TypeOK, LowInv, Address
<1>2. m_dyn_base # NoHeap =>
        Bytes(m_dyn_base, MEM_DYNAMIC_MIN_SIZE) = m_dyn_base .. m_dyn_base + MEM_DYNAMIC_MIN_SIZE - 1
  BY <1>1, Sizes, BytesIs
<1>3. QED
  BY <1>1, <1>2 DEF HeapMemory

(* What the map of a PC leads to. *)
LEMMA PCMap ==
  ASSUME IInv, OneHighEntry
  PROVE  \E h \in 1 .. Len(given) :
           /\ PCEntry(h)
           /\ IF i <= h \/ EntryEnd(h) >= ADDR_MOD THEN NothingYet ELSE HeapAndRegion(h)
<1> DEFINE high == {e \in 1 .. Len(given) : /\ given[e].type = Available
                                           /\ given[e].addr + given[e].len > ONE_MB}
<1>1. PICK h \in high : high = {h} /\ kernel_start .. kernel_end \subseteq EntryMemory(given[h])
  BY DEF OneHighEntry
<1>2. h \in 1 .. Len(given) /\ PCEntry(h)
  BY <1>1 DEF PCEntry
<1>3. QED
  BY <1>2 DEF IInv, HighInv

-----------------------------------------------------------------------------
(* Theorems.                                                               *)

(* The regions, the map and the chain are what they should be, whatever    *)
(* entries the boot loader hands over: no count of frames wraps around.    *)
THEOREM TypeCorrect == Spec => []TypeOK
<1>1. IInv => TypeOK
  BY DEF IInv
<1>2. QED
  BY <1>1, InitInv, StepInv, PTL DEF Spec

(* frame_alloc gets to a region exactly if every region before it is       *)
(* hooked to the next.                                                     *)
LEMMA ReachableIs ==
  ASSUME IInv, NEW r \in Region
  PROVE  Reachable(r) <=> \A s \in 1 .. r - 1 : bitmap_stack[s].next = s + 1
<1> DEFINE n == Len(bitmap_stack)
           Linked(q) == \A s \in 1 .. q - 1 : bitmap_stack[s].next = s + 1
<1>1. /\ n \in Nat /\ Region = 1 .. n /\ r \in 1 .. n /\ NULL = 0
      /\ firstblock = 1
      /\ \A s \in 1 .. n : /\ bitmap_stack[s].next \in {0, s + 1}
                           /\ bitmap_stack[s].next = s + 1 => s < n
  <2>1. n \in Nat /\ Region = 1 .. n
    BY TypeIs DEF IInv, Region
  <2>2. bitmap_stack # <<>>
    BY <2>1
  <2>3. QED
    BY <2>1, <2>2 DEF IInv, ChainInv, LinkInv, NULL
<1> HIDE DEF n
<1>2. ASSUME Reachable(r) PROVE Linked(r)
  <2> DEFINE S == {q \in 1 .. n : Linked(q)}
  <2>1. S \in SUBSET Region /\ firstblock \in S
    BY <1>1
  <2>2. ASSUME NEW s \in S
        PROVE  bitmap_stack[s].next \in S \union {NULL}
    <3>1. CASE bitmap_stack[s].next = 0
      BY <1>1, <3>1
    <3>2. CASE bitmap_stack[s].next = s + 1
      <4>1. s + 1 \in 1 .. n /\ (s + 1) - 1 = s
        BY <1>1, <3>2
      <4>2. Linked(s + 1)
        <5> SUFFICES ASSUME NEW q \in 1 .. s PROVE bitmap_stack[q].next = q + 1
          BY <4>1
        <5>1. q = s \/ q \in 1 .. s - 1
          BY <1>1
        <5>2. QED
          BY <3>2, <5>1
      <4>3. QED
        BY <3>2, <4>1, <4>2
    <3>3. QED
      BY <1>1, <3>1, <3>2
  <2> HIDE DEF S
  <2>3. r \in S
    BY <1>2, <2>1, <2>2 DEF Reachable
  <2>4. QED
    BY <2>3 DEF S
<1>3. ASSUME Linked(r) PROVE Reachable(r)
  <2> SUFFICES ASSUME NEW S \in SUBSET Region, firstblock \in S,
                      \A s \in S : bitmap_stack[s].next \in S \union {NULL},
                      r \notin S
               PROVE  FALSE
    BY DEF Reachable
  <2> DEFINE Out == {q \in 1 .. r : q \notin S}
  <2>1. Out \in SUBSET Nat /\ Out # {}
    BY <1>1
  <2>2. PICK q \in Out : \A p \in Out : q <= p
    BY <2>1, LeastNatural
  <2>3. q \in 1 .. r /\ q # 1 /\ q - 1 \in 1 .. r - 1 /\ (q - 1) + 1 = q
    BY <1>1, <2>2
  <2>4. q - 1 \in S
    BY <1>1, <2>2, <2>3
  <2>5. bitmap_stack[q - 1].next = q
    BY <1>3, <2>3
  <2>6. QED
    BY <1>1, <2>2, <2>3, <2>4, <2>5
<1>4. QED
  BY <1>2, <1>3

(* The chain breaks between two regions exactly if an available entry that *)
(* was not kept lies between theirs.                                       *)
LEMMA LinkedIs ==
  ASSUME IInv, NEW r \in Region, Cardinality(KeptUpTo(bitmap_stack[r].entry)) <= BITMAP_STACK_SIZE
  PROVE  (\A s \in 1 .. r - 1 : bitmap_stack[s].next = s + 1) <=>
           \A d \in 1 .. bitmap_stack[r].entry - 1 :
              given[d].type = Available /\ ~ Kept(d) => \A c \in 1 .. d - 1 : ~ Kept(c)
<1> DEFINE n == Len(bitmap_stack)
           entry(s) == bitmap_stack[s].entry
           e == entry(r)
<1>1. /\ n \in Nat /\ Region = 1 .. n /\ r \in 1 .. n /\ i \in Nat
      /\ \A s \in 1 .. n : entry(s) \in Nat \ {0} /\ entry(s) < i
  <2>1. n \in Nat /\ bitmap_stack \in Seq(RegionRecord(Len(map), n)) /\ Region = 1 .. n
    BY TypeIs DEF IInv, Region
  <2>2. \A s \in 1 .. n : bitmap_stack[s] \in RegionRecord(Len(map), n)
    BY <2>1
  <2>3. \A s \in 1 .. n : entry(s) \in 1 .. Len(map)
    BY <2>2 DEF RegionRecord
  <2>4. i \in Nat
    BY DEF IInv, TypeOK
  <2>5. QED
    BY <2>1, <2>3, <2>4 DEF IInv, RegionInv
<1>2. /\ \A p, s \in 1 .. n : p < s => entry(p) < entry(s)
      /\ \A s \in 1 .. n : bitmap_stack[s].next = s + 1 <=>
                             s < n /\ NoneBetween(entry(s), entry(s + 1))
  BY DEF IInv, ChainInv, LinkInv
<1>3. \A d \in 1 .. i - 1 :
        (\E s \in 1 .. n : entry(s) = d) <=>
          Kept(d) /\ Cardinality(KeptUpTo(d)) <= BITMAP_STACK_SIZE
  <2>1. i - 1 \in Nat
    BY DEF IInv, TypeOK
  <2>2. QED
    BY <2>1 DEF IInv, ChainInv, CountInv, GaveRegion
<1>4. ASSUME NEW d \in 1 .. e, Kept(d)
      PROVE  \E s \in 1 .. n : entry(s) = d
  <2>1. e \in Nat /\ e < i
    BY <1>1
  <2>2. d \in 1 .. i - 1
    BY <1>1, <2>1
  <2>3. IsFiniteSet(KeptUpTo(e)) /\ KeptUpTo(d) \subseteq KeptUpTo(e)
    <3>1. IsFiniteSet(1 .. e) /\ KeptUpTo(e) \subseteq 1 .. e
      BY <2>1, FS_Interval DEF KeptUpTo
    <3>2. KeptUpTo(d) \subseteq KeptUpTo(e)
      BY <2>1 DEF KeptUpTo
    <3>3. QED
      BY <3>1, <3>2, FS_Subset
  <2>4. Cardinality(KeptUpTo(d)) <= Cardinality(KeptUpTo(e)) /\ IsFiniteSet(KeptUpTo(d))
    BY <2>3, FS_Subset
  <2>5. /\ Cardinality(KeptUpTo(d)) \in Nat /\ Cardinality(KeptUpTo(e)) \in Nat
        /\ BITMAP_STACK_SIZE \in Nat
    BY <2>3, <2>4, FS_CardinalityType, Sizes
  <2>6. Cardinality(KeptUpTo(d)) <= BITMAP_STACK_SIZE
    BY <2>4, <2>5
  <2>7. QED
    BY <1>3, <1>4, <2>2, <2>6
<1> HIDE DEF n, entry, e
<1>5. e = entry(r)
  BY DEF e
<1>6. ASSUME \A s \in 1 .. r - 1 : bitmap_stack[s].next = s + 1,
             NEW d \in 1 .. e - 1, given[d].type = Available, ~ Kept(d),
             NEW c \in 1 .. d - 1, Kept(c)
      PROVE  FALSE
  <2>1. e \in Nat /\ d \in Nat /\ c \in Nat /\ c < d /\ d < e /\ c \in 1 .. e
    BY <1>1, <1>5
  <2>2. PICK p \in 1 .. n : entry(p) = c
    BY <1>4, <1>6, <2>1
  <2> DEFINE After == {q \in 1 .. r : entry(q) >= d}
  <2>3. After \in SUBSET Nat /\ r \in After
    BY <1>1, <1>5, <2>1
  <2>4. PICK q \in After : \A o \in After : q <= o
    BY <2>3, LeastNatural
  <2>5. q \in 1 .. n /\ q \in 1 .. r /\ entry(q) >= d
    BY <1>1, <2>4
  <2>6. p < q
    <3>1. ~ (q < p) /\ q # p
      BY <1>1, <1>2, <2>1, <2>2, <2>5
    <3>2. QED
      BY <2>2, <2>5, <3>1
  <2>7. q - 1 \in 1 .. r - 1 /\ q - 1 \in 1 .. n /\ (q - 1) + 1 = q
    BY <1>1, <2>2, <2>5, <2>6
  <2>8. entry(q - 1) < d
    <3>1. q - 1 \notin After
      BY <2>4, <2>5
    <3>2. QED
      BY <1>1, <2>1, <2>5, <2>7, <3>1
  <2>9. NoneBetween(entry(q - 1), entry(q))
    BY <1>2, <1>6, <2>7
  <2>10. entry(q) = d
    <3>1. entry(q - 1) \in Nat /\ entry(q) \in Nat
      BY <1>1, <2>5, <2>7
    <3>2. d \notin entry(q - 1) + 1 .. entry(q) - 1
      BY <1>6, <2>9 DEF NoneBetween
    <3>3. QED
      BY <2>1, <2>5, <2>8, <3>1, <3>2
  <2>11. d \in 1 .. i - 1
    BY <1>1, <2>1, <2>5, <2>10
  <2>12. QED
    BY <1>3, <1>6, <2>5, <2>10, <2>11
<1>7. ASSUME \A d \in 1 .. e - 1 :
                given[d].type = Available /\ ~ Kept(d) => \A c \in 1 .. d - 1 : ~ Kept(c),
             NEW s \in 1 .. r - 1
      PROVE  bitmap_stack[s].next = s + 1
  <2>1. s \in 1 .. n /\ s + 1 \in 1 .. n /\ s < n /\ s < s + 1 /\ (s + 1 = r \/ s + 1 < r)
    BY <1>1
  <2>2. /\ entry(s) < entry(s + 1) /\ entry(s + 1) <= e
        /\ entry(s) \in Nat \ {0} /\ entry(s + 1) \in Nat /\ e \in Nat
    BY <1>1, <1>2, <1>5, <2>1
  <2>3. ASSUME NEW d \in entry(s) + 1 .. entry(s + 1) - 1, given[d].type = Available
        PROVE  FALSE
    <3>1. d \in 1 .. e - 1 /\ d \in 1 .. e /\ entry(s) \in 1 .. d - 1
      BY <2>2
    <3>2. Kept(entry(s))
      <4>1. entry(s) \in 1 .. i - 1
        BY <1>1, <2>1
      <4>2. QED
        BY <1>3, <2>1, <4>1
    <3>3. Kept(d)
      BY <1>7, <2>3, <3>1, <3>2
    <3>4. PICK p \in 1 .. n : entry(p) = d
      BY <1>4, <3>1, <3>3
    <3>5. ~ (p <= s) /\ ~ (s + 1 <= p)
      <4>1. d \in Nat /\ entry(s) < d /\ d < entry(s + 1)
        BY <2>2
      <4>2. p < s => entry(p) < entry(s)
        BY <1>2, <2>1
      <4>3. s + 1 < p => entry(s + 1) < entry(p)
        BY <1>2, <2>1
      <4>4. ~ (p < s) /\ p # s /\ p # s + 1 /\ ~ (s + 1 < p)
        BY <2>2, <3>4, <4>1, <4>2, <4>3
      <4>5. p \in Nat /\ s \in Nat
        BY <1>1, <2>1
      <4>6. QED
        BY <4>4, <4>5
    <3>6. QED
      BY <2>1, <3>4, <3>5
  <2>4. NoneBetween(entry(s), entry(s + 1))
    BY <2>3 DEF NoneBetween
  <2>5. QED
    BY <1>2, <2>1, <2>4
<1>8. QED
  BY <1>6, <1>7 DEF e, entry

(* The frame allocator gets to the memory of exactly the entries that were *)
(* kept, before bitmap_stack was used up and before the first rejection    *)
(* behind a region.                                                        *)
THEOREM ChainKept == Spec => []ChainComplete
<1>1. IInv => ChainComplete
  <2> SUFFICES ASSUME IInv, NEW e \in 1 .. i - 1
               PROVE  (\E r \in Region : bitmap_stack[r].entry = e /\ Reachable(r)) <=>
                        /\ Kept(e)
                        /\ \A d \in 1 .. e - 1 : given[d].type = Available /\ ~ Kept(d) =>
                                                  \A c \in 1 .. d - 1 : ~ Kept(c)
                        /\ Cardinality(KeptUpTo(e)) <= BITMAP_STACK_SIZE
    BY DEF ChainComplete, KeptUpTo
  <2>1. (\E r \in Region : bitmap_stack[r].entry = e) <=>
          Kept(e) /\ Cardinality(KeptUpTo(e)) <= BITMAP_STACK_SIZE
    <3>1. i - 1 \in Nat
      BY DEF IInv, TypeOK
    <3>2. QED
      BY <3>1 DEF IInv, ChainInv, CountInv, GaveRegion, Region
  <2>2. \A r \in Region :
          bitmap_stack[r].entry = e /\ Cardinality(KeptUpTo(e)) <= BITMAP_STACK_SIZE =>
            (Reachable(r) <=>
               \A d \in 1 .. e - 1 : given[d].type = Available /\ ~ Kept(d) =>
                                      \A c \in 1 .. d - 1 : ~ Kept(c))
    BY ReachableIs, LinkedIs
  <2>3. QED
    BY <2>1, <2>2
<1>2. QED
  BY <1>1, InitInv, StepInv, PTL DEF Spec

(* calc_blocks_and_bitmaps gives every region as many frames as fit.       *)
THEOREM CountedRight == Spec => []MostFrames
<1>1. IInv => MostFrames
  <2> SUFFICES ASSUME IInv, NEW r \in Region
               PROVE  LET size == bitmap_stack[r].size
                          fit  == {b \in 0 .. size : b * PAGE_SIZE + Bitmaps(b) * WORD_SIZE <= size}
                      IN  /\ bitmap_stack[r].blocks_count \in fit
                          /\ \A b \in fit : b <= bitmap_stack[r].blocks_count
    BY DEF MostFrames
  <2>1. PICK size \in Nat : size = bitmap_stack[r].size
    BY RegionIs
  <2>2. PICK n \in Nat : n = bitmap_stack[r].blocks_count
    BY RegionIs
  <2>3. /\ n * PAGE_SIZE + Bitmaps(n) * WORD_SIZE <= size
        /\ \A c \in Nat : c * PAGE_SIZE + Bitmaps(c) * WORD_SIZE <= size => c <= n
    BY <2>1, <2>2, RegionIs DEF Need
  <2>4. n \in 0 .. size
    <3>1. n * 1 <= n * PAGE_SIZE /\ n * PAGE_SIZE \in Nat
      <4>1. 1 * n <= PAGE_SIZE * n
        BY Sizes, TimesMonotone
      <4>2. QED
        BY <4>1, Sizes
    <3>2. Bitmaps(n) * WORD_SIZE \in Nat
      <4>1. n \div UINT32BITS \in Nat
        BY Sizes, DivideBounds
      <4>2. Bitmaps(n) \in Nat
        BY <4>1 DEF Bitmaps
      <4>3. QED
        BY <4>2, Sizes
    <3>3. QED
      BY <2>3, <3>1, <3>2
  <2>5. QED
    BY <2>1, <2>2, <2>3, <2>4
<1>2. QED
  BY <1>1, InitInv, StepInv, PTL DEF Spec

(* In every memory map, frames start at page borders, and frames and       *)
(* bitmaps lie in the memory of the entry they come from, without the high word of its address, unless that       *)
(* starts above the kernel: then mm_init has moved them down to the first  *)
(* page border behind the kernel or the heap.                              *)
THEOREM RegionsFit == Spec => []RegionsPlaced
<1>1. IInv => RegionsPlaced
  <2> SUFFICES ASSUME IInv, NEW r \in Region
               PROVE  LET e == given[bitmap_stack[r].entry]
                      IN  /\ bitmap_stack[r].first_block % PAGE_SIZE = 0
                          /\ IF e.addr <= kernel_end
                             THEN RegionMemory(r) \subseteq EntryMemory([e EXCEPT !.high = 0])
                             ELSE \E start \in {kernel_end, kernel_end + MEM_DYNAMIC_MIN_SIZE} :
                                    bitmap_stack[r].first_block = align_up(start, PAGE_SIZE)
    BY DEF RegionsPlaced
  <2>1. /\ bitmap_stack \in Seq(RegionRecord(Len(map), Len(bitmap_stack)))
        /\ given \in Seq(MapEntry) /\ Len(map) = Len(given)
    BY TypeIs DEF IInv
  <2>2. PICK b \in RegionRecord(Len(map), Len(bitmap_stack)) : b = bitmap_stack[r]
    BY <2>1 DEF Region
  <2>3. PICK e \in MapEntry : e = given[b.entry]
    BY <2>1 DEF RegionRecord
  <2>4. PlacedIn(e, b.first_block, b.first_block + b.size)
    BY <2>2, <2>3 DEF IInv, PlacedInv
  <2>5. ASSUME e.addr <= kernel_end
        PROVE  RegionMemory(r) \subseteq EntryMemory([e EXCEPT !.high = 0])
    <3>1. e.addr <= b.first_block /\ b.first_block + b.size <= e.addr + e.len
      BY <2>4, <2>5 DEF PlacedIn
    <3>2. b.first_block \in Nat /\ b.size \in Nat /\ e.addr \in Nat /\ e.len \in Nat
      BY <2>2, RegionIs, Sizes DEF MapEntry, Address
    <3>3. RegionMemory(r) \subseteq b.first_block .. b.first_block + b.size - 1
      BY <2>2, RegionIs
    <3>4. b.first_block .. b.first_block + b.size - 1 \subseteq e.addr .. e.addr + e.len - 1
      BY <3>1, <3>2, SMTT(30)
    <3>5. EntryMemory([e EXCEPT !.high = 0]) = e.addr .. e.addr + e.len - 1
      <4>1. [e EXCEPT !.high = 0] =
              [high |-> 0, addr |-> e.addr, len |-> e.len, type |-> e.type]
        BY DEF MapEntry
      <4>2. PICK low \in MapEntry : low = [e EXCEPT !.high = 0] /\ low.high = 0
        BY <4>1 DEF MapEntry
      <4>3. low.addr = e.addr /\ low.len = e.len
        BY <4>1, <4>2
      <4>4. QED
        BY <4>2, <4>3, EntryMemoryIs
    <3>6. QED
      BY <3>3, <3>4, <3>5
  <2>6. ~ (e.addr <= kernel_end) =>
          \E start \in {kernel_end, kernel_end + MEM_DYNAMIC_MIN_SIZE} :
             b.first_block = align_up(start, PAGE_SIZE)
    BY <2>4 DEF PlacedIn
  <2>7. b.first_block % PAGE_SIZE = 0
    BY <2>2, RegionIs
  <2>8. QED
    BY <2>2, <2>3, <2>5, <2>6, <2>7
<1>2. QED
  BY <1>1, InitInv, StepInv, PTL DEF Spec

(* In every memory map, mm_init neither clears nor hands out anything      *)
(* below the end of the kernel image, but for what lies above 1 MB in an   *)
(* available entry that ends inside the image.                             *)
THEOREM ImageKept == Spec => []KernelKept
<1>1. IInv => KernelKept
  <2> DEFINE Given(a) == \E d \in 1 .. Len(given) :
                            /\ EndsInKernel(given[d])
                            /\ a \in given[d].addr .. given[d].addr + given[d].len - 1
  <2> SUFFICES ASSUME IInv, NEW a, a < kernel_end,
                      a \in cleared \union HeapMemory \union UNION {RegionMemory(r) : r \in Region}
               PROVE  a >= ONE_MB /\ Given(a)
    BY DEF KernelKept
  <2>1. /\ kernel_end \in Nat /\ ONE_MB \in Nat /\ MEM_DYNAMIC_MIN_SIZE \in Nat
        /\ given \in Seq(MapEntry)
    BY Sizes DEF IInv, TypeOK
  <2>2. ASSUME NEW base \in Nat, NEW size \in Nat, Behind(base, size),
               a \in base .. base + size - 1
        PROVE  Given(a)
    <3>1. ~ (kernel_end <= base)
      BY <2>1, <2>2
    <3>2. PICK d \in 1 .. Len(given) :
            /\ EndsInKernel(given[d]) /\ given[d].addr <= base
            /\ base + size <= given[d].addr + given[d].len
      BY <2>2, <3>1 DEF Behind
    <3>3. given[d].addr \in Nat /\ given[d].len \in Nat
      <4>1. given[d] \in MapEntry
        BY <2>1
      <4>2. QED
        BY <4>1, Sizes DEF MapEntry, Address
    <3>4. \A addr, len \in Nat :
            addr <= base /\ base + size <= addr + len => a \in addr .. addr + len - 1
      BY <2>1, <2>2
    <3>5. a \in given[d].addr .. given[d].addr + given[d].len - 1
      BY <3>2, <3>3, <3>4
    <3>6. QED
      BY <3>2, <3>5
  <2> HIDE DEF Given
  <2>3. CASE a \in cleared
    <3>1. a \in Nat /\ a >= ONE_MB /\ Behind(a, 1)
      BY <2>3, Sizes DEF IInv, TypeOK, LowInv, KernelInv, Address
    <3>2. a \in a .. a + 1 - 1
      BY <3>1
    <3>3. QED
      BY <2>2, <3>1, <3>2
  <2>4. CASE a \in HeapMemory
    <3>1. /\ m_dyn_base # NoHeap /\ m_dyn_base \in Nat /\ ONE_MB <= m_dyn_base
          /\ a \in m_dyn_base .. m_dyn_base + MEM_DYNAMIC_MIN_SIZE - 1
      BY <2>4, HeapMemoryIs
    <3>2. Behind(m_dyn_base, MEM_DYNAMIC_MIN_SIZE)
      BY <3>1 DEF IInv, KernelInv
    <3>3. a >= ONE_MB
      BY <2>1, <3>1
    <3>4. QED
      BY <2>1, <2>2, <3>1, <3>2, <3>3
  <2>5. ASSUME NEW r \in Region, a \in RegionMemory(r)
        PROVE  a >= ONE_MB /\ Given(a)
    <3>1. PICK base \in Nat, size \in Nat :
            /\ base = bitmap_stack[r].first_block /\ size = bitmap_stack[r].size
            /\ ONE_MB <= base /\ a \in base .. base + size - 1
      BY <2>5, RegionIs
    <3>2. Behind(base, size)
      BY <3>1 DEF IInv, PlacedInv
    <3>3. a >= ONE_MB
      BY <2>1, <3>1
    <3>4. QED
      BY <2>2, <3>1, <3>2, <3>3
  <2>6. QED
    BY <2>3, <2>4, <2>5
<1>2. QED
  BY <1>1, InitInv, StepInv, PTL DEF Spec

(* In the map of a PC, mm_init clears no byte of the kernel, puts none of  *)
(* it into a region or the heap, and keeps the heap out of the regions.    *)
THEOREM NothingOverwritten == Spec => []KernelAndHeapKept
<1>1. IInv => KernelAndHeapKept
  <2> SUFFICES ASSUME IInv, OneHighEntry
               PROVE  /\ KernelMemory \intersect (cleared \union HeapMemory) = {}
                      /\ HeapMemory \intersect cleared = {}
                      /\ \A r \in Region : (KernelMemory \union HeapMemory) \intersect RegionMemory(r) = {}
                      /\ HeapMemory \subseteq
                           UNION {EntryMemory(given[e]) :
                                    e \in {d \in 1 .. Len(given) : given[d].type = Available}}
    BY DEF KernelAndHeapKept
  <2>1. PICK h \in 1 .. Len(given) :
          /\ PCEntry(h)
          /\ IF i <= h \/ EntryEnd(h) >= ADDR_MOD THEN NothingYet ELSE HeapAndRegion(h)
    BY PCMap
  <2>2. /\ EntryMemory(given[h]) = given[h].addr .. EntryEnd(h) - 1 /\ given[h].type = Available
        /\ given[h].addr \in Nat /\ given[h].addr <= ONE_MB /\ EntryEnd(h) \in Nat
    BY <2>1, PCEntryIs DEF IInv
  <2>3. /\ kernel_end \in Nat /\ ONE_MB \in Nat /\ kernel_start = ONE_MB /\ ONE_MB < kernel_end
        /\ MEM_DYNAMIC_MIN_SIZE \in Nat /\ ADDR_MOD \in Nat /\ kernel_end < ADDR_MOD
    BY Sizes
  <2>4. /\ Start(h) \in Nat /\ Border(h) \in Nat /\ kernel_end <= Start(h) /\ Start(h) <= Border(h)
        /\ RoomForHeap(h) => Start(h) = kernel_end + MEM_DYNAMIC_MIN_SIZE
    BY BorderIs DEF Start
  <2>5. \A a \in cleared : a \in Nat /\ a >= Border(h)
    <3>1. cleared = {} \/ cleared = Border(h) .. EntryEnd(h) - 1
      BY <2>1 DEF NothingYet, HeapAndRegion
    <3>2. QED
      BY <2>2, <2>4, <3>1
  <2>6. \A r \in Region : \A a \in RegionMemory(r) : a \in Nat /\ a >= Border(h)
    <3>1. SUFFICES ASSUME NEW r \in Region, NEW a \in RegionMemory(r)
                   PROVE  a \in Nat /\ a >= Border(h)
      OBVIOUS
    <3>2. bitmap_stack # <<>>
      <4>1. Len(<<>>) = 0
        OBVIOUS
      <4>2. QED
        BY <4>1 DEF Region
    <3>3. bitmap_stack[r].first_block = Border(h)
      BY <2>1, <3>2 DEF NothingYet, HeapAndRegion, Region
    <3>4. QED
      BY <2>4, <3>3, RegionIs
  <2>7. \A a \in HeapMemory :
           a \in Nat /\ RoomForHeap(h) /\ kernel_end <= a /\ a < kernel_end + MEM_DYNAMIC_MIN_SIZE
    BY <2>1, <2>3, HeapMemoryIs DEF NothingYet, HeapAndRegion
  <2>8. \A a \in KernelMemory : a \in Nat /\ a < kernel_end
    BY <2>3 DEF KernelMemory
  <2>9. KernelMemory \intersect (cleared \union HeapMemory) = {}
    BY <2>3, <2>4, <2>5, <2>7, <2>8
  <2>10. HeapMemory \intersect cleared = {}
    BY <2>3, <2>4, <2>5, <2>7
  <2>11. \A r \in Region : (KernelMemory \union HeapMemory) \intersect RegionMemory(r) = {}
    BY <2>3, <2>4, <2>6, <2>7, <2>8
  <2>12. HeapMemory \subseteq EntryMemory(given[h])
    BY <2>2, <2>3, <2>7 DEF RoomForHeap
  <2>13. QED
    BY <2>2, <2>9, <2>10, <2>11, <2>12
<1>2. QED
  BY <1>1, InitInv, StepInv, PTL DEF Spec

(* In the map of a PC, frame_alloc has a region to look at exactly if a    *)
(* page border is left behind the kernel and the heap, and the memory ends *)
(* below the last address.                                                 *)
THEOREM ReadyForFrames == Spec => []FrameAllocatorReady
<1>1. IInv => FrameAllocatorReady
  <2> SUFFICES ASSUME IInv, OneHighEntry, i > Len(map)
               PROVE  firstblock # NULL <=>
                        \E e \in 1 .. Len(given) : /\ given[e].type = Available
                                                  /\ kernel_end \in EntryMemory(given[e])
                                                  /\ RoomForFrames(given[e])
    BY DEF FrameAllocatorReady
  <2>1. PICK h \in 1 .. Len(given) :
          /\ PCEntry(h)
          /\ IF i <= h \/ EntryEnd(h) >= ADDR_MOD THEN NothingYet ELSE HeapAndRegion(h)
    BY PCMap
  <2>2. /\ EntryMemory(given[h]) = given[h].addr .. EntryEnd(h) - 1 /\ given[h].type = Available
        /\ given[h].addr \in Nat /\ given[h].addr <= ONE_MB /\ EntryEnd(h) \in Nat
        /\ EntryEnd(h) > kernel_end
        /\ \A e \in 1 .. Len(given) :
              given[e].type = Available /\ e # h =>
                given[e] \in MapEntry /\ given[e].addr + given[e].len <= ONE_MB
    BY <2>1, PCEntryIs DEF IInv
  <2>3. /\ kernel_end \in Nat /\ ONE_MB \in Nat /\ ONE_MB < kernel_end
        /\ ADDR_MOD \in Nat /\ kernel_end < ADDR_MOD
    BY Sizes
  <2>4. ~ (i <= h)
    BY DEF IInv, TypeOK
  <2>5. firstblock # NULL <=> EntryEnd(h) < ADDR_MOD /\ Border(h) < EntryEnd(h)
    <3>1. firstblock # NULL <=> bitmap_stack # <<>>
      BY DEF IInv, ChainInv, LinkInv, NULL
    <3>2. Len(<<>>) = 0
      OBVIOUS
    <3>3. Border(h) \in Nat
      BY BorderIs
    <3>4. QED
      BY <2>1, <2>2, <2>3, <2>4, <3>1, <3>2, <3>3 DEF NothingYet, HeapAndRegion
  <2>6. kernel_end \in EntryMemory(given[h])
    BY <2>2, <2>3
  <2>7. RoomForFrames(given[h]) <=> EntryEnd(h) < ADDR_MOD /\ Border(h) < EntryEnd(h)
    <3>1. RoomForFrames(given[h]) <=>
            EntryEnd(h) < ADDR_MOD /\ \E border \in Start(h) .. EntryEnd(h) - 1 : border % PAGE_SIZE = 0
      BY DEF RoomForFrames, EntryEnd, Start, RoomForHeap
    <3>2. /\ Start(h) \in Nat /\ Border(h) \in Nat /\ Start(h) <= Border(h)
          /\ Border(h) % PAGE_SIZE = 0
          /\ \A n \in Int : Start(h) <= n /\ n % PAGE_SIZE = 0 => Border(h) <= n
      BY BorderIs
    <3>3. (\E border \in Start(h) .. EntryEnd(h) - 1 : border % PAGE_SIZE = 0)
            <=> Border(h) < EntryEnd(h)
      <4>1. ASSUME NEW border \in Start(h) .. EntryEnd(h) - 1, border % PAGE_SIZE = 0
            PROVE  Border(h) < EntryEnd(h)
        <5>1. Border(h) <= border
          BY <2>2, <3>2, <4>1
        <5>2. QED
          BY <2>2, <3>2, <5>1
      <4>2. Border(h) < EntryEnd(h) => Border(h) \in Start(h) .. EntryEnd(h) - 1
        BY <2>2, <3>2
      <4>3. QED
        BY <3>2, <4>1, <4>2
    <3>4. QED
      BY <3>1, <3>3
  <2>8. ASSUME NEW e \in 1 .. Len(given), given[e].type = Available,
               kernel_end \in EntryMemory(given[e])
        PROVE  e = h
    <3>1. SUFFICES ASSUME e # h PROVE FALSE
      OBVIOUS
    <3>2. PICK other \in MapEntry : other = given[e] /\ other.addr + other.len <= ONE_MB
      BY <2>2, <2>8, <3>1
    <3>3. /\ other.addr \in Nat /\ other.len \in Nat /\ other.high \in {0, 1}
      BY <2>3 DEF MapEntry, Address
    <3>4. PICK k \in 0 .. other.len - 1 : kernel_end = other.high * ADDR_MOD + other.addr + k
      BY <2>8, <3>2 DEF EntryMemory
    <3>5. CASE other.high = 0
      <4>1. kernel_end = other.addr + k
        BY <2>3, <3>3, <3>4, <3>5
      <4>2. QED
        BY <2>3, <3>2, <3>3, <4>1, SMTT(30)
    <3>6. CASE other.high = 1
      <4>1. kernel_end = ADDR_MOD + other.addr + k
        BY <2>3, <3>3, <3>4, <3>6
      <4>2. QED
        BY <2>3, <3>3, <4>1
    <3>7. QED
      BY <3>3, <3>5, <3>6
  <2>9. QED
    BY <2>2, <2>5, <2>6, <2>7, <2>8
<1>2. QED
  BY <1>1, InitInv, StepInv, PTL DEF Spec

=============================================================================
