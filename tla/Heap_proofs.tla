---------------------------- MODULE Heap_proofs -----------------------------
(***************************************************************************)
(* Proofs about the heap, for every size of the heap, of headers, pointers *)
(* and requests, in the use that SmallHeap describes.                      *)
(***************************************************************************)
EXTENDS SmallHeap, NatLemmas, FiniteSetTheorems, SequenceTheorems, TLAPS

(* What one merge counts too much: the bytes of a header that are taken    *)
(* for pointers.                                                           *)
Miscount == (POINTER - 1) * HEADER

(* The bytes a block claims beyond the beginning of the next one.          *)
Excess(b, end) == POINTER * b.size - (end - Data(b))

(* A block in front of another one: it ends before that, claims all of the *)
(* room up to it and for each merge a header too much; a block in use      *)
(* claims nothing too much.                                                *)
Reaches(b, end) ==
  /\ Data(b) <= end
  /\ Excess(b, end) \in 0 .. b.merges * Miscount
  /\ ~ b.free => Excess(b, end) = 0

Whole(a) == \E k \in Nat : a = POINTER * k

(* Blocks that lie one behind the other. *)
InARow(blocks) ==
  /\ blocks \in Seq(Block) /\ blocks # <<>>
  /\ \A k \in 1 .. Len(blocks) : Whole(blocks[k].addr)
  /\ \A k \in 1 .. Len(blocks) - 1 : Reaches(blocks[k], blocks[k + 1].addr)

(* They do so from the beginning of the heap. *)
Laid(blocks) == InARow(blocks) /\ blocks[1].addr = 0

LaidInv ==
  heap # <<>> =>
    /\ Laid(heap)
    /\ heap[Len(heap)].free
    /\ \A k \in 1 .. Len(heap) - 1 : heap[k].merges <= 1

(* The blocks in use are those that callers hold. *)
HeldInv ==
  /\ IsFiniteSet(DOMAIN held)
  /\ \A p \in DOMAIN held :
        \E k \in 1 .. Len(heap) :
          Data(heap[k]) = p /\ ~ heap[k].free /\ heap[k].size = held[p].size
  /\ \A k \in 1 .. Len(heap) : ~ heap[k].free => Data(heap[k]) \in DOMAIN held

(* The last header is inside the heap. *)
TailInv == heap # <<>> => heap[Len(heap)].addr + HEADER <= TOTAL

Alternating == \A k \in 1 .. Len(heap) - 1 : ~ (heap[k].free /\ heap[k + 1].free)

IInv == TypeOK /\ LaidInv /\ HeldInv /\ TailInv /\ Alternating


-----------------------------------------------------------------------------
(* Arithmetic.                                                             *)

(* The quotient and the remainder of a division. *)
LEMMA Division ==
  ASSUME NEW a \in Nat, NEW c \in Nat \ {0}
  PROVE  a \div c \in Nat /\ a % c \in 0 .. c - 1 /\ a = c * (a \div c) + (a % c)
<1>1. a % c \in 0 .. c - 1 /\ a \div c \in Nat
  BY DivideBounds
<1>2. a = c * (a \div c) + (a % c)
  BY SMT
<1>3. QED
  BY <1>1, <1>2

(* The sizes. *)
LEMMA Consts ==
  /\ TOTAL \in Nat /\ HEADER \in Nat \ {0} /\ POINTER \in Nat \ {0} /\ TOTAL > HEADER
  /\ Miscount \in Nat /\ POINTER * HEADER = Miscount + HEADER
  /\ Whole(HEADER)
  /\ MaxHeld \in Nat /\ MaxMerges \in Nat /\ MaxMerges <= 1
<1>1. /\ TOTAL \in Nat /\ HEADER \in Nat \ {0} /\ POINTER \in Nat \ {0} /\ TOTAL > HEADER
      /\ MaxHeld \in Nat /\ MaxMerges \in Nat /\ MaxMerges <= 1 /\ HEADER % POINTER = 0
  BY HeapAssumption, OneMiscount
<1>2. (POINTER - 1) * HEADER \in Nat /\ POINTER * HEADER = (POINTER - 1) * HEADER + HEADER
  BY <1>1
<1>3. /\ HEADER \div POINTER \in Nat
      /\ HEADER = POINTER * (HEADER \div POINTER) + (HEADER % POINTER)
  BY <1>1, Division
<1>4. PICK k \in Nat : k = HEADER \div POINTER
  BY <1>3
<1>5. HEADER = POINTER * k
  BY <1>1, <1>3, <1>4
<1>6. QED
  BY <1>1, <1>2, <1>5 DEF Miscount, Whole

(* A product with the size of a pointer is no smaller than another one     *)
(* only if the factor is.                                                  *)
LEMMA Factors ==
  ASSUME NEW a \in Int, NEW b \in Int, POINTER * a <= POINTER * b
  PROVE  a <= b
<1>1. POINTER \in Nat \ {0}
  BY Consts
<1>2. PICK p \in Nat \ {0} : p = POINTER
  BY <1>1
<1>3. CASE b < a
  <2>1. b * p + p <= a * p
    BY <1>3, TimesStrict
  <2>2. b * p = p * b /\ a * p = p * a /\ p * a \in Int /\ p * b \in Int
    OBVIOUS
  <2>3. QED
    BY <1>2, <2>1, <2>2
<1>4. QED
  BY <1>3

(* Sums and differences of multiples are multiples. *)
LEMMA WholeSum ==
  ASSUME NEW a \in Nat, NEW b \in Nat, Whole(a), Whole(b)
  PROVE  Whole(a + b) /\ (b <= a => Whole(a - b))
<1>1. POINTER \in Nat \ {0}
  BY Consts
<1>2. PICK i \in Nat : a = POINTER * i
  BY DEF Whole
<1>3. PICK j \in Nat : b = POINTER * j
  BY DEF Whole
<1>4. a + b = POINTER * (i + j) /\ a - b = POINTER * (i - j)
  BY <1>1, <1>2, <1>3
<1>5. b <= a => i - j \in Nat
  BY <1>2, <1>3, Factors
<1>6. i + j \in Nat
  OBVIOUS
<1>7. QED
  BY <1>4, <1>5, <1>6 DEF Whole

(* Reaches as inequalities. *)
LEMMA ReachesIs ==
  ASSUME NEW b \in Block, NEW end \in Nat
  PROVE  /\ Data(b) \in Nat /\ POINTER * b.size \in Nat /\ b.merges * Miscount \in Nat
         /\ b.addr \in Nat /\ b.merges \in Nat /\ b.size \in Nat /\ Data(b) = b.addr + HEADER
         /\ Reaches(b, end) <=>
              /\ Data(b) <= end /\ end <= Data(b) + POINTER * b.size
              /\ Data(b) + POINTER * b.size <= end + b.merges * Miscount
              /\ ~ b.free => end = Data(b) + POINTER * b.size
<1>1. b.addr \in Nat /\ b.size \in Nat /\ b.merges \in Nat
  BY DEF Block
<1>2. HEADER \in Nat /\ POINTER \in Nat /\ Miscount \in Nat
  BY Consts
<1>3. POINTER * b.size \in Nat /\ b.merges * Miscount \in Nat
  BY <1>1, <1>2
<1>4. PICK p \in Nat, m \in Nat, d \in Nat :
        p = POINTER * b.size /\ m = b.merges * Miscount /\ d = Data(b)
  BY <1>1, <1>2, <1>3 DEF Data
<1>5. /\ p - (end - d) \in 0 .. m <=> end <= d + p /\ d + p <= end + m
      /\ p - (end - d) = 0 <=> end = d + p
  OBVIOUS
<1>6. QED
  BY <1>1, <1>3, <1>4, <1>5 DEF Reaches, Excess, Data

-----------------------------------------------------------------------------
(* The parts of a block that is cut.                                       *)

(* Where the part in use starts. *)
LEMMA SecondIs ==
  ASSUME NEW b \in Block, Whole(b.addr), NEW alignment \in Alignments
  PROVE  LET s == SecondAddr(b, alignment)
         IN  /\ s \in Nat /\ Whole(s) /\ (s + HEADER) % alignment = 0
             /\ alignment \in Nat \ {0}
             /\ s <= b.addr + POINTER * (alignment - 1) /\ b.addr <= s
             /\ s # b.addr => Data(b) <= s /\ s <= Data(b) + HEADER
<1> DEFINE s == SecondAddr(b, alignment)
           al == alignment
           x == b.addr + HEADER + POINTER * (alignment - 1)
<1>1. /\ b.addr \in Nat /\ HEADER \in Nat \ {0} /\ POINTER \in Nat \ {0} /\ al \in Nat \ {0}
      /\ Data(b) = b.addr + HEADER
  BY Consts, LargestAssumption DEF Block, Data
<1>2. POINTER * (al - 1) \in Nat /\ x \in Nat
  BY <1>1
<1>3. s = x - (x % al) - HEADER
  BY DEF SecondAddr, Data
<1>4. CASE al = 1
  <2>1. POINTER * (al - 1) = 0 /\ x % al = 0 /\ (b.addr + HEADER) % al = 0
    BY <1>1, <1>4
  <2>2. s = b.addr
    BY <1>1, <1>3, <2>1
  <2>3. QED
    BY <1>1, <2>1, <2>2
<1>5. CASE al # 1
  <2>1. al % POINTER = 0 /\ POINTER * (al - 1) <= 2 * HEADER /\ (POINTER - 1) * (al - 1) >= HEADER
    BY <1>1, <1>5, AlignmentAssumption, SmallAlignments
  <2>2. PICK r \in Nat, q \in Nat : r = x % al /\ q = x \div al /\ r <= al - 1 /\ x = al * q + r
    <3>1. x % al \in 0 .. al - 1 /\ x = al * (x \div al) + (x % al) /\ x \div al \in Nat
      BY <1>1, <1>2, Division
    <3>2. PICK r \in Nat, q \in Nat : r = x % al /\ q = x \div al
      BY <3>1
    <3> HIDE DEF x
    <3>3. r <= al - 1 /\ x = al * q + r
      BY <1>1, <3>1, <3>2
    <3>4. QED
      BY <3>2, <3>3
  <2>3. PICK j \in Nat : al = POINTER * j
    <3>1. al = POINTER * (al \div POINTER) + (al % POINTER) /\ al \div POINTER \in Nat
      BY <1>1, Division
    <3>2. PICK j \in Nat : j = al \div POINTER
      BY <3>1
    <3>3. al = POINTER * j
      BY <1>1, <2>1, <3>1, <3>2
    <3>4. QED
      BY <3>3
  <2>4. (POINTER - 1) * (al - 1) = POINTER * (al - 1) - (al - 1)
    BY <1>1
  <2>5. s = al * q - HEADER /\ s = x - r - HEADER
    BY <1>1, <1>2, <1>3, <2>2
  <2>6. b.addr + HEADER <= s /\ s <= b.addr + POINTER * (al - 1) /\ s \in Nat
    <3>1. PICK y \in Nat, h \in Nat, a \in Nat : y = POINTER * (al - 1) /\ h = HEADER /\ a = b.addr
      BY <1>1, <1>2
    <3>2. y - (al - 1) >= h
      BY <2>1, <2>4, <3>1
    <3>3. s = a + h + y - r - h
      BY <2>5, <3>1
    <3>4. a + h <= s /\ s <= a + y /\ s \in Nat
      <4> HIDE DEF s, x
      <4>1. QED
        BY <1>1, <2>2, <3>2, <3>3
    <3>5. QED
      BY <3>1, <3>4
  <2>7. s <= Data(b) + HEADER
    BY <1>1, <1>2, <2>1, <2>6
  <2>8. (s + HEADER) % al = 0
    <3>1. s + HEADER = q * al + 0
      BY <1>1, <2>2, <2>5
    <3>2. 0 \in 0 .. al - 1 /\ q \in Int
      BY <1>1
    <3>3. QED
      BY <1>1, <3>1, <3>2, QuotientRemainder
  <2>9. Whole(s)
    <3>1. al * q = POINTER * (j * q) /\ j * q \in Nat
      BY <1>1, <2>3
    <3>2. Whole(al * q) /\ al * q \in Nat
      <4>1. \E k \in Nat : al * q = POINTER * k
        BY <3>1
      <4>2. al * q \in Nat
        BY <1>1
      <4>3. QED
        BY <4>1, <4>2 DEF Whole
    <3>3. HEADER <= al * q
      BY <1>1, <2>5, <2>6, <3>2
    <3>4. QED
      BY <1>1, <2>5, <3>2, <3>3, WholeSum, Consts
  <2>10. QED
    BY <1>1, <2>6, <2>7, <2>8, <2>9
<1>6. QED
  BY <1>4, <1>5

(* What is left behind the part in use: the miscount of the block stays    *)
(* with it, and its header fits.                                           *)
LEMMA ThirdIs ==
  ASSUME NEW b \in Block, Whole(b.addr), NEW alignment \in Alignments, NEW size \in Nat,
         HasRoom(b, size, alignment)
  PROVE  LET s == SecondAddr(b, alignment)
             t == Third(b, size, alignment)
         IN  /\ t \in Block /\ Whole(t.addr) /\ t.free /\ t.merges = b.merges
             /\ t.addr = s + HEADER + POINTER * size
             /\ t.addr + POINTER * t.size = b.addr + POINTER * b.size
             /\ t.addr + HEADER + Miscount <= Data(b) + POINTER * b.size
             /\ t.addr + HEADER <= Data(b) + POINTER * (alignment + size - 1) + HEADER
<1> DEFINE s == SecondAddr(b, alignment)
           t == Third(b, size, alignment)
           a == s + HEADER + POINTER * size
           d == (a - b.addr) \div POINTER
<1>1. /\ b.addr \in Nat /\ HEADER \in Nat \ {0} /\ POINTER \in Nat \ {0} /\ alignment \in Nat \ {0}
      /\ Data(b) = b.addr + HEADER /\ b.size \in Nat /\ b.merges \in Nat
      /\ Miscount \in Nat /\ POINTER * HEADER = Miscount + HEADER
  BY Consts, LargestAssumption DEF Block, Data
<1>2. b.free /\ b.size >= alignment + HEADER + size
  BY DEF HasRoom
<1>3. s \in Nat /\ Whole(s) /\ b.addr <= s /\ s <= b.addr + POINTER * (alignment - 1)
  BY SecondIs
<1>4. t.addr = a /\ t.size = b.size - d /\ t.free = b.free /\ t.merges = b.merges
      /\ t = [b EXCEPT !.addr = a, !.size = b.size - d]
  <2>1. t = [b EXCEPT !.addr = a, !.size = b.size - d]
    BY DEF Third
  <2> HIDE DEF t, a, d
  <2>2. QED
    BY <2>1 DEF Block
<1> HIDE DEF t, s
<1>5. POINTER * size \in Nat /\ Whole(POINTER * size) /\ a \in Nat /\ Whole(a) /\ b.addr <= a
  <2>1. POINTER * size \in Nat /\ Whole(POINTER * size)
    BY <1>1 DEF Whole
  <2>2. s + HEADER \in Nat /\ Whole(s + HEADER)
    BY <1>1, <1>3, WholeSum, Consts
  <2>3. Whole(a)
    BY <2>1, <2>2, WholeSum
  <2>4. QED
    BY <1>1, <1>3, <2>1, <2>2, <2>3
<1>6. Whole(a - b.addr) /\ a - b.addr \in Nat
  BY <1>1, <1>5, WholeSum
<1>7. PICK e \in Nat : a - b.addr = POINTER * e /\ d = e
  <2>1. PICK e \in Nat : a - b.addr = POINTER * e
    BY <1>6 DEF Whole
  <2>2. POINTER * e = e * POINTER /\ (e * POINTER) \div POINTER = e
    BY <1>1, DivideOffset
  <2> HIDE DEF a
  <2>3. d = e
    BY <2>1, <2>2
  <2>4. QED
    BY <2>1, <2>3
<1>8. /\ POINTER * (alignment - 1) + POINTER * size + POINTER * (HEADER + 1)
           = POINTER * (alignment + HEADER + size)
      /\ POINTER * (HEADER + 1) = Miscount + HEADER + POINTER
      /\ POINTER * (alignment - 1) + POINTER * size = POINTER * (alignment + size - 1)
  <2>1. PICK p \in Nat \ {0}, h \in Nat, l \in Nat, z \in Nat :
          p = POINTER /\ h = HEADER /\ l = alignment - 1 /\ z = size
    BY <1>1
  <2>2. p * l + p * z + p * (h + 1) = p * (l + z + h + 1) /\ p * (h + 1) = p * h + p
        /\ p * l + p * z = p * (l + z)
    OBVIOUS
  <2>3. alignment + HEADER + size = l + z + h + 1 /\ alignment + size - 1 = l + z
    BY <1>1, <2>1
  <2>4. QED
    BY <1>1, <2>1, <2>2, <2>3
<1>9. POINTER * (alignment + HEADER + size) <= POINTER * b.size
  <2>1. (alignment + HEADER + size) * POINTER <= b.size * POINTER
    BY <1>1, <1>2, TimesMonotone
  <2>2. QED
    BY <1>1, <2>1
<1>10. a + HEADER + Miscount <= Data(b) + POINTER * b.size
       /\ a + HEADER <= Data(b) + POINTER * (alignment + size - 1) + HEADER
  <2>1. PICK x \in Nat, y \in Nat, z \in Int, w \in Int, v \in Int, u \in Int :
          /\ x = POINTER * (alignment - 1) /\ y = POINTER * size /\ z = POINTER * (HEADER + 1)
          /\ w = POINTER * (alignment + HEADER + size) /\ v = POINTER * b.size
          /\ u = POINTER * (alignment + size - 1)
    <3>1. \A m, n \in Int : m * n \in Int
      OBVIOUS
    <3>2. {POINTER, alignment - 1, size, HEADER + 1, alignment + HEADER + size, b.size,
           alignment + size - 1} \subseteq Int
      BY <1>1
    <3>3. POINTER * (alignment - 1) \in Nat /\ POINTER * size \in Nat
      BY <1>1
    <3>4. QED
      BY <3>1, <3>2, <3>3, Zenon
  <2>2. x + y + z = w /\ z = Miscount + HEADER + POINTER /\ w <= v /\ s <= b.addr + x
        /\ a = s + HEADER + y /\ x + y = u
    BY <1>3, <1>8, <1>9, <2>1
  <2> HIDE DEF a
  <2>3. a + HEADER + Miscount <= b.addr + HEADER + v /\ a + HEADER <= b.addr + HEADER + u + HEADER
    BY <1>1, <1>3, <2>1, <2>2
  <2>4. QED
    BY <1>1, <2>1, <2>3
<1> HIDE DEF a, d
<1>11. e <= b.size /\ POINTER * (b.size - e) = POINTER * b.size - POINTER * e
  <2>1. POINTER * e <= POINTER * b.size
    BY <1>1, <1>5, <1>7, <1>10
  <2>2. QED
    BY <1>1, <2>1, Factors
<1>12. t \in Block
  <2>1. b.size - d \in Nat
    BY <1>1, <1>7, <1>11
  <2>2. t = [b EXCEPT !.addr = a, !.size = b.size - d]
    BY <1>4
  <2>3. QED
    BY <1>5, <2>1, <2>2 DEF Block
<1>13. t.addr + POINTER * t.size = b.addr + POINTER * b.size
  <2>1. t.addr = a /\ t.size = b.size - e
    BY <1>4, <1>7
  <2>2. POINTER * b.size \in Int /\ POINTER * e \in Int
    BY <1>1
  <2>3. QED
    BY <1>1, <1>5, <1>7, <1>11, <2>1, <2>2
<1>14. QED
  BY <1>2, <1>4, <1>5, <1>10, <1>12, <1>13 DEF a, s, t

-----------------------------------------------------------------------------
(* Lists.                                                                  *)

(* The blocks of a list. *)
LEMMA BlocksOf ==
  ASSUME NEW s \in Seq(Block)
  PROVE  /\ Len(s) \in Nat /\ DOMAIN s = 1 .. Len(s)
         /\ \A k \in 1 .. Len(s) :
              /\ s[k] \in Block /\ s[k].addr \in Nat /\ s[k].size \in Nat /\ s[k].merges \in Nat
              /\ s[k].free \in BOOLEAN /\ Data(s[k]) = s[k].addr + HEADER
         /\ s # <<>> <=> 1 <= Len(s)
<1>1. Len(s) \in Nat /\ DOMAIN s = 1 .. Len(s) /\ \A k \in 1 .. Len(s) : s[k] \in Block
  BY LenProperties, ElementOfSeq
<1>2. \A b \in Block : b.addr \in Nat /\ b.size \in Nat /\ b.merges \in Nat /\ b.free \in BOOLEAN
  BY DEF Block
<1>3. s # <<>> <=> 1 <= Len(s)
  BY <1>1
<1>4. QED
  BY <1>1, <1>2, <1>3 DEF Data

(* One block is replaced by the blocks m. *)
LEMMA Replaced ==
  ASSUME NEW s \in Seq(Block), NEW k \in 1 .. Len(s), NEW m \in Seq(Block)
  PROVE  LET t == SubSeq(s, 1, k - 1) \o m \o SubSeq(s, k + 1, Len(s))
         IN  /\ t \in Seq(Block) /\ Len(t) = Len(s) - 1 + Len(m)
             /\ \A j \in 1 .. k - 1 : t[j] = s[j]
             /\ \A j \in 1 .. Len(m) : t[k - 1 + j] = m[j]
             /\ \A j \in k + 1 .. Len(s) : t[j - 1 + Len(m)] = s[j]
<1> DEFINE a == SubSeq(s, 1, k - 1)
           c == SubSeq(s, k + 1, Len(s))
           am == a \o m
           t == am \o c
<1>1. /\ Len(s) \in Nat /\ k \in Nat /\ Len(m) \in Nat /\ 1 <= k /\ k <= Len(s)
      /\ \A j \in 1 .. Len(s) : s[j] \in Block
  BY BlocksOf
<1>2. a \in Seq(Block) /\ Len(a) = k - 1 /\ \A j \in 1 .. k - 1 : a[j] = s[j]
  <2>1. \A j \in 1 .. k - 1 : s[j] \in Block
    BY <1>1
  <2>2. /\ a \in Seq(Block) /\ Len(a) = IF 1 <= k - 1 THEN k - 1 - 1 + 1 ELSE 0
        /\ \A i \in 1 .. k - 1 - 1 + 1 : a[i] = s[1 + i - 1]
    BY <1>1, <2>1, SubSeqProperties
  <2> HIDE DEF a
  <2>3. \A i \in 1 .. k - 1 : 1 + i - 1 = i /\ i \in 1 .. k - 1 - 1 + 1
    BY <1>1
  <2>4. QED
    BY <1>1, <2>2, <2>3
<1>3. c \in Seq(Block) /\ Len(c) = Len(s) - k /\ \A j \in 1 .. Len(s) - k : c[j] = s[k + j]
  <2>1. \A j \in k + 1 .. Len(s) : s[j] \in Block
    BY <1>1
  <2>2. /\ c \in Seq(Block) /\ Len(c) = IF k + 1 <= Len(s) THEN Len(s) - (k + 1) + 1 ELSE 0
        /\ \A i \in 1 .. Len(s) - (k + 1) + 1 : c[i] = s[k + 1 + i - 1]
    BY <1>1, <2>1, SubSeqProperties
  <2> HIDE DEF c
  <2>3. \A i \in 1 .. Len(s) - k : k + 1 + i - 1 = k + i /\ i \in 1 .. Len(s) - (k + 1) + 1
    BY <1>1
  <2>4. QED
    BY <1>1, <2>2, <2>3
<1> HIDE DEF a, c
<1>4. /\ am \in Seq(Block) /\ Len(am) = Len(a) + Len(m)
      /\ \A j \in 1 .. Len(a) + Len(m) : am[j] = IF j <= Len(a) THEN a[j] ELSE m[j - Len(a)]
  BY <1>2, ConcatProperties, Zenon
<1> HIDE DEF am
<1>5. /\ t \in Seq(Block) /\ Len(t) = Len(am) + Len(c)
      /\ \A j \in 1 .. Len(am) + Len(c) : t[j] = IF j <= Len(am) THEN am[j] ELSE c[j - Len(am)]
  <2>1. am \in Seq(Block)
    BY <1>4
  <2>2. QED
    BY <1>3, <2>1, ConcatProperties
<1> HIDE DEF t
<1>6. Len(t) = Len(s) - 1 + Len(m)
  BY <1>1, <1>2, <1>3, <1>4, <1>5
<1>7. ASSUME NEW j \in 1 .. k - 1
      PROVE  t[j] = s[j]
  <2>1. j \in 1 .. Len(am) + Len(c) /\ j <= Len(am) /\ j \in 1 .. Len(a) + Len(m) /\ j <= Len(a)
    BY <1>1, <1>2, <1>3, <1>4
  <2>2. QED
    BY <1>2, <1>4, <1>5, <2>1
<1>8. ASSUME NEW j \in 1 .. Len(m)
      PROVE  t[k - 1 + j] = m[j]
  <2>1. PICK i \in Nat : i = k - 1 + j
    BY <1>1
  <2>2. i \in 1 .. Len(am) + Len(c) /\ i <= Len(am) /\ i \in 1 .. k - 1 + Len(m) /\ ~ (i <= k - 1)
        /\ i - (k - 1) = j
    BY <1>1, <1>2, <1>3, <1>4, <2>1
  <2>3. i \in 1 .. Len(a) + Len(m) /\ ~ (i <= Len(a)) /\ i - Len(a) = j
    BY <1>2, <2>2
  <2>4. QED
    BY <1>4, <1>5, <2>1, <2>2, <2>3
<1>9. ASSUME NEW j \in k + 1 .. Len(s)
      PROVE  t[j - 1 + Len(m)] = s[j]
  <2>1. PICK i \in Nat : i = j - 1 + Len(m)
    <3>1. j - 1 + Len(m) \in Nat
      BY <1>1
    <3>2. QED
      BY <3>1
  <2>2. i \in 1 .. Len(am) + Len(c) /\ ~ (i <= Len(am)) /\ i - Len(am) = j - k
        /\ j - k \in 1 .. Len(s) - k /\ k + (j - k) = j
    BY <1>1, <1>2, <1>3, <1>4, <2>1, SMTT(30)
  <2>3. QED
    BY <1>3, <1>5, <2>1, <2>2, ZenonT(60)
<1>10. QED
  BY <1>5, <1>6, <1>7, <1>8, <1>9 DEF t, am, a, c

(* What comes before in a list lies before. *)
LEMMA InOrder ==
  ASSUME NEW s, Laid(s)
  PROVE  \A i, j \in 1 .. Len(s) : i < j =>
            /\ s[i].addr + HEADER <= s[j].addr
            /\ ~ s[i].free => s[i].addr + HEADER + POINTER * s[i].size <= s[j].addr
<1>1. /\ s \in Seq(Block) /\ Len(s) \in Nat /\ HEADER \in Nat \ {0} /\ POINTER \in Nat
      /\ \A k \in 1 .. Len(s) : s[k] \in Block /\ s[k].addr \in Nat /\ s[k].size \in Nat
  BY BlocksOf, Consts DEF Laid, InARow
<1>2. ASSUME NEW k \in 1 .. Len(s) - 1
      PROVE  /\ s[k].addr + HEADER <= s[k + 1].addr
             /\ ~ s[k].free => s[k].addr + HEADER + POINTER * s[k].size = s[k + 1].addr
  <2>1. k \in 1 .. Len(s) /\ k + 1 \in 1 .. Len(s)
    BY <1>1
  <2>2. Reaches(s[k], s[k + 1].addr)
    BY DEF Laid, InARow
  <2>3. QED
    BY <1>1, <2>1, <2>2, ReachesIs
<1> DEFINE f == [k \in 1 .. Len(s) |-> s[k].addr]
<1>3. \A k \in 1 .. Len(s) : f[k] = s[k].addr /\ f[k] \in Nat
  BY <1>1
<1> HIDE DEF f
<1>4. \A k \in 1 .. Len(s) - 1 : f[k] < f[k + 1]
  <2>1. ASSUME NEW k \in 1 .. Len(s) - 1
        PROVE  f[k] < f[k + 1]
    <3>1. k \in 1 .. Len(s) /\ k + 1 \in 1 .. Len(s)
      BY <1>1
    <3>2. QED
      BY <1>1, <1>2, <1>3, <3>1
  <2>2. QED
    BY <2>1
<1>5. \A i, j \in 1 .. Len(s) : i < j => f[i] < f[j]
  BY <1>1, <1>3, <1>4, Increasing
<1>6. ASSUME NEW i \in 1 .. Len(s), NEW j \in 1 .. Len(s), i < j
      PROVE  /\ s[i].addr + HEADER <= s[j].addr
             /\ ~ s[i].free => s[i].addr + HEADER + POINTER * s[i].size <= s[j].addr
  <2>1. i \in 1 .. Len(s) - 1 /\ i + 1 \in 1 .. Len(s) /\ (i + 1 = j \/ i + 1 < j)
    BY <1>1, <1>6
  <2>2. s[i + 1].addr <= s[j].addr
    BY <1>1, <1>3, <1>5, <2>1
  <2>3. /\ s[i].addr + HEADER <= s[i + 1].addr
        /\ ~ s[i].free => s[i].addr + HEADER + POINTER * s[i].size = s[i + 1].addr
    BY <1>2, <2>1
  <2>4. s[i].addr + HEADER \in Nat /\ s[i + 1].addr \in Nat /\ s[j].addr \in Nat
    BY <1>1, <2>1
  <2>5. \A x, y, z \in Nat : x <= y /\ y <= z => x <= z
    OBVIOUS
  <2>6. QED
    BY <2>2, <2>3, <2>4, <2>5, Zenon
<1>7. QED
  BY <1>6

(* A block is cut into blocks that lie where it has been. *)
LEMMA LaidReplaced ==
  ASSUME NEW s, Laid(s), NEW k \in 1 .. Len(s), NEW m, InARow(m), m[1].addr = s[k].addr,
         k < Len(s) => Reaches(m[Len(m)], s[k + 1].addr)
  PROVE  Laid(SubSeq(s, 1, k - 1) \o m \o SubSeq(s, k + 1, Len(s)))
<1> DEFINE t == SubSeq(s, 1, k - 1) \o m \o SubSeq(s, k + 1, Len(s))
<1>1. /\ s \in Seq(Block) /\ Len(s) \in Nat /\ m \in Seq(Block) /\ Len(m) \in Nat /\ 1 <= Len(m)
      /\ \A j \in 1 .. Len(s) : s[j] \in Block /\ s[j].addr \in Nat
      /\ k \in Nat /\ 1 <= k /\ k <= Len(s)
  BY BlocksOf DEF Laid, InARow
<1>2. /\ t \in Seq(Block) /\ Len(t) = Len(s) - 1 + Len(m)
      /\ \A j \in 1 .. k - 1 : t[j] = s[j]
      /\ \A j \in 1 .. Len(m) : t[k - 1 + j] = m[j]
      /\ \A j \in k + 1 .. Len(s) : t[j - 1 + Len(m)] = s[j]
  BY <1>1, Replaced
<1> HIDE DEF t
<1>3. PICK n \in Nat, l \in Nat : n = Len(s) /\ l = Len(m) /\ 1 <= l /\ Len(t) = n - 1 + l
  BY <1>1, <1>2
<1>4. t # <<>>
  BY <1>1, <1>2
<1>5. t[1].addr = 0 /\ \A j \in 1 .. Len(t) : Whole(t[j].addr)
  <2>1. ASSUME NEW j \in 1 .. Len(t)
        PROVE  Whole(t[j].addr)
    <3>1. CASE j \in 1 .. k - 1
      <4>1. j \in 1 .. Len(s)
        BY <1>1, <3>1
      <4>2. QED
        BY <1>2, <3>1, <4>1 DEF Laid, InARow
    <3>2. CASE j \in k .. k - 1 + l
      <4>1. PICK i \in 1 .. l : j = k - 1 + i
        <5>1. j - k + 1 \in 1 .. l /\ j = k - 1 + (j - k + 1)
          BY <1>1, <1>3, <3>2
        <5>2. QED
          BY <5>1
      <4>2. QED
        BY <1>2, <1>3, <4>1 DEF InARow
    <3>3. CASE j \in k + l .. n - 1 + l
      <4>1. PICK i \in k + 1 .. n : j = i - 1 + l
        <5>1. j + 1 - l \in k + 1 .. n /\ j = (j + 1 - l) - 1 + l
          BY <1>1, <1>3, <3>3
        <5>2. QED
          BY <5>1
      <4>2. i \in 1 .. n
        BY <1>1
      <4>3. QED
        BY <1>2, <1>3, <4>1, <4>2 DEF Laid, InARow
    <3>4. QED
      BY <1>1, <1>3, <3>1, <3>2, <3>3
  <2>2. t[1].addr = 0
    <3>1. CASE k = 1
      <4>1. 1 \in 1 .. Len(m) /\ k - 1 + 1 = 1
        BY <1>1, <3>1
      <4>2. t[1] = m[1]
        BY <1>2, <4>1
      <4>3. QED
        BY <3>1, <4>2 DEF Laid, InARow
    <3>2. CASE k # 1
      <4>1. 1 \in 1 .. k - 1
        BY <1>1, <3>2
      <4>2. QED
        BY <1>2, <4>1 DEF Laid, InARow
    <3>3. QED
      BY <3>1, <3>2
  <2>3. QED
    BY <2>1, <2>2
<1>6. ASSUME NEW j \in 1 .. Len(t) - 1
      PROVE  Reaches(t[j], t[j + 1].addr)
  <2>1. CASE j < k - 1
    <3>1. j \in 1 .. k - 1 /\ j + 1 \in 1 .. k - 1 /\ j \in 1 .. Len(s) - 1
      BY <1>1, <1>3, <2>1
    <3>2. QED
      BY <1>2, <3>1 DEF Laid, InARow
  <2>2. CASE j = k - 1
    <3>1. j \in 1 .. k - 1 /\ 1 \in 1 .. Len(m) /\ j + 1 = k - 1 + 1 /\ j \in 1 .. Len(s) - 1
          /\ j + 1 = k
      BY <1>1, <1>3, <2>2
    <3>2. t[j] = s[j] /\ t[j + 1] = m[1]
      BY <1>2, <3>1
    <3>3. Reaches(s[j], s[j + 1].addr)
      BY <3>1 DEF Laid, InARow
    <3>4. QED
      BY <3>1, <3>2, <3>3
  <2>3. CASE j \in k .. k - 2 + l
    <3>1. PICK i \in Nat : i \in 1 .. l - 1 /\ j = k - 1 + i
      <4>1. j - k + 1 \in 1 .. l - 1 /\ j = k - 1 + (j - k + 1)
        BY <1>1, <1>3, <2>3
      <4>2. QED
        BY <4>1
    <3>2. i \in 1 .. Len(m) /\ i + 1 \in 1 .. Len(m) /\ j + 1 = k - 1 + (i + 1) /\ i \in 1 .. Len(m) - 1
      BY <1>1, <1>3, <3>1
    <3>3. t[j] = m[i] /\ t[j + 1] = m[i + 1]
      BY <1>2, <3>1, <3>2
    <3>4. QED
      BY <3>2, <3>3 DEF InARow
  <2>4. CASE j = k - 1 + l
    <3>1. k < n /\ Len(m) \in 1 .. Len(m) /\ k + 1 \in k + 1 .. Len(s) /\ j + 1 = (k + 1) - 1 + Len(m)
      BY <1>1, <1>3, <2>4
    <3>2. t[j] = m[Len(m)] /\ t[j + 1] = s[k + 1]
      BY <1>2, <1>3, <2>4, <3>1
    <3>3. QED
      BY <1>3, <3>1, <3>2
  <2>5. CASE j \in k + l .. n - 2 + l
    <3>1. PICK i \in k + 1 .. n - 1 : j = i - 1 + l
      <4>1. j + 1 - l \in k + 1 .. n - 1 /\ j = (j + 1 - l) - 1 + l
        BY <1>1, <1>3, <2>5
      <4>2. QED
        BY <4>1
    <3>2. i \in k + 1 .. n /\ i + 1 \in k + 1 .. n /\ j + 1 = (i + 1) - 1 + l /\ i \in 1 .. n - 1
      BY <1>1, <3>1
    <3>3. t[j] = s[i] /\ t[j + 1] = s[i + 1]
      BY <1>2, <1>3, <3>1, <3>2
    <3>4. QED
      BY <1>3, <3>2, <3>3 DEF Laid, InARow
  <2>6. QED
    BY <1>1, <1>3, <2>1, <2>2, <2>3, <2>4, <2>5
<1>7. Laid(t)
  BY <1>2, <1>4, <1>5, <1>6 DEF Laid, InARow
<1>8. QED
  BY <1>7 DEF t

-----------------------------------------------------------------------------
(* Merging.                                                                *)

(* A merged block and an absorbed block are blocks.                        *)
LEMMA MergedIs ==
  ASSUME NEW x \in Block, NEW y \in Block
  PROVE  LET b == Merged(x, y)
         IN  /\ b \in Block /\ b.addr = x.addr /\ b.size = x.size + y.size + HEADER
             /\ b.free = x.free /\ b.merges = x.merges + y.merges + 1
<1> DEFINE b == Merged(x, y)
           sz == x.size + y.size + HEADER
           mg == x.merges + y.merges + 1
<1>1. b = [x EXCEPT !.size = sz, !.merges = mg]
  BY DEF Merged
<1>2. sz \in Nat /\ mg \in Nat
  BY Consts DEF Block
<1> HIDE DEF b, sz, mg
<1>3. b \in Block /\ b.addr = x.addr /\ b.size = sz /\ b.free = x.free /\ b.merges = mg
  BY <1>1, <1>2 DEF Block
<1>4. QED
  BY <1>3 DEF b, sz, mg

(* What a list becomes when it absorbs a block.                            *)
LEMMA AbsorbIs ==
  ASSUME NEW c \in Seq(Block), NEW b \in Block
  PROVE  LET d == Absorb(c, b)
         IN  /\ d \in Seq(Block)
             /\ c # <<>> /\ c[Len(c)].free /\ b.free =>
                  /\ Len(d) = Len(c) /\ d[Len(c)] = Merged(c[Len(c)], b)
                  /\ \A j \in 1 .. Len(c) - 1 : d[j] = c[j]
             /\ ~ (c # <<>> /\ c[Len(c)].free /\ b.free) =>
                  /\ Len(d) = Len(c) + 1 /\ d[Len(c) + 1] = b
                  /\ \A j \in 1 .. Len(c) : d[j] = c[j]
<1> DEFINE d == Absorb(c, b)
<1>1. CASE c # <<>> /\ c[Len(c)].free /\ b.free
  <2>1. Len(c) \in 1 .. Len(c) /\ Len(c) \in Nat /\ c[Len(c)] \in Block
    BY <1>1, BlocksOf
  <2>2. PICK m : m = Merged(c[Len(c)], b) /\ m \in Block
    BY <2>1, MergedIs
  <2>3. d = [c EXCEPT ![Len(c)] = m]
    BY <1>1, <2>2 DEF Absorb, ReplaceAt, Last
  <2> HIDE DEF d
  <2>4. d \in Seq(Block) /\ Len(d) = Len(c) /\ \A j \in 1 .. Len(c) : d[j] = IF j = Len(c) THEN m ELSE c[j]
    BY <2>1, <2>2, <2>3, ExceptSeq
  <2>5. \A j \in 1 .. Len(c) - 1 : d[j] = c[j]
    BY <2>1, <2>4
  <2>6. QED
    BY <1>1, <2>1, <2>2, <2>4, <2>5 DEF d
<1>2. CASE ~ (c # <<>> /\ c[Len(c)].free /\ b.free)
  <2>1. d = Append(c, b)
    BY <1>2 DEF Absorb, Last
  <2> HIDE DEF d
  <2>2. d \in Seq(Block) /\ Len(d) = Len(c) + 1 /\ d[Len(c) + 1] = b
        /\ \A j \in 1 .. Len(c) : d[j] = c[j]
    BY <2>1
  <2>3. QED
    BY <1>2, <2>2 DEF d
<1>3. QED
  BY <1>1, <1>2

(* Merging absorbs the blocks one by one.                                  *)
LEMMA MergeAllUnfolds ==
  ASSUME NEW s \in Seq(Block)
  PROVE  \E c : /\ c[0] = <<>> /\ MergeAll(s) = c[Len(s)]
                /\ \A k \in 1 .. Len(s) : c[k] = Absorb(c[k - 1], s[k])
<1> DEFINE V == Seq(Block)
           step == [p \in Nat \X V |-> IF p[1] \in 1 .. Len(s) THEN Absorb(p[2], s[p[1]]) ELSE p[2]]
           f(c) == [k \in 0 .. Len(s) |-> IF k = 0 THEN <<>> ELSE Absorb(c[k - 1], s[k])]
<1>1. Len(s) \in Nat /\ \A k \in 1 .. Len(s) : s[k] \in Block
  BY BlocksOf
<1>2. step \in [Nat \X V -> V]
  <2>1. ASSUME NEW k \in Nat, NEW v \in V
        PROVE  (IF k \in 1 .. Len(s) THEN Absorb(v, s[k]) ELSE v) \in V
    BY <1>1, AbsorbIs
  <2>2. QED
    BY <2>1
<1>3. <<>> \in V /\ 0 \in Nat
  OBVIOUS
<1>4. \A k \in Nat, v \in V : step[<<k, v>>] = IF k \in 1 .. Len(s) THEN Absorb(v, s[k]) ELSE v
  OBVIOUS
<1> HIDE DEF step, V
<1>5. PICK c : UnrollsFrom(c, 0, Len(s), V, <<>>, step)
  BY <1>1, <1>2, <1>3, RecursionFrom
<1>6. c = f(c)
  <2>1. /\ c \in [0 .. Len(s) -> V]
        /\ \A k \in 0 .. Len(s) : c[k] = IF k = 0 THEN <<>> ELSE step[<<k, c[k - 1]>>]
    BY <1>5 DEF UnrollsFrom
  <2>2. ASSUME NEW k \in 0 .. Len(s)
        PROVE  c[k] = IF k = 0 THEN <<>> ELSE Absorb(c[k - 1], s[k])
    <3>1. CASE k # 0
      <4>1. k - 1 \in 0 .. Len(s) /\ k \in 1 .. Len(s) /\ k \in Nat
        BY <1>1, <3>1
      <4>2. c[k - 1] \in V
        BY <2>1, <4>1
      <4>3. QED
        BY <1>4, <2>1, <3>1, <4>1, <4>2
    <3>2. QED
      BY <2>1, <3>1
  <2>3. QED
    BY <2>1, <2>2
<1>7. PICK e : e = f(e) /\ MergeAll(s) = e[Len(s)]
  <2>1. (CHOOSE e : e = f(e)) = f(CHOOSE e : e = f(e))
    BY <1>6, Zenon
  <2>2. MergeAll(s) = (CHOOSE e : e = f(e))[Len(s)]
    BY Zenon DEF MergeAll
  <2>3. QED
    BY <2>1, <2>2, Zenon
<1>8. ASSUME NEW k \in 0 .. Len(s)
      PROVE  e[k] = IF k = 0 THEN <<>> ELSE Absorb(e[k - 1], s[k])
  <2>1. f(e)[k] = IF k = 0 THEN <<>> ELSE Absorb(e[k - 1], s[k])
    BY Zenon
  <2> HIDE DEF f
  <2>2. QED
    BY <1>7, <2>1, Zenon
<1>9. e[0] = <<>> /\ \A k \in 1 .. Len(s) : e[k] = Absorb(e[k - 1], s[k])
  <2>1. 0 \in 0 .. Len(s)
    BY <1>1
  <2>2. \A k \in 1 .. Len(s) : k \in 0 .. Len(s) /\ k # 0
    BY <1>1
  <2>3. QED
    BY <1>8, <2>1, <2>2
<1>10. QED
  BY <1>7, <1>9

(* What merging has made of the first n blocks of a list: blocks one       *)
(* behind the other, no two free ones side by side, the same blocks in     *)
(* use, and a last block that is free if the last one was.                 *)
Chained(c, s, n) ==
  /\ Laid(c)
  /\ n < Len(s) => Reaches(c[Len(c)], s[n + 1].addr)
  /\ \A k \in 1 .. Len(c) - 1 : ~ (c[k].free /\ c[k + 1].free)
  /\ c[Len(c)].free = s[n].free /\ c[Len(c)].addr <= s[n].addr
  /\ \A i \in 1 .. n : ~ s[i].free => \E j \in 1 .. Len(c) : c[j] = s[i]
  /\ \A j \in 1 .. Len(c) : ~ c[j].free => \E i \in 1 .. n : s[i] = c[j]

(* A block that has swallowed the next one reaches as far as that: what    *)
(* the two and the merge count too much adds up.                           *)
LEMMA MergedReaches ==
  ASSUME NEW x \in Block, NEW y \in Block, NEW end \in Nat,
         x.free, Reaches(x, y.addr), Reaches(y, end)
  PROVE  Reaches(Merged(x, y), end)
<1> DEFINE b == Merged(x, y)
<1>1. /\ b \in Block /\ b.addr = x.addr /\ b.size = x.size + y.size + HEADER
      /\ b.free = x.free /\ b.merges = x.merges + y.merges + 1
  BY MergedIs
<1> HIDE DEF b
<1>2. /\ HEADER \in Nat /\ POINTER \in Nat /\ Miscount \in Nat
      /\ POINTER * HEADER = Miscount + HEADER
  BY Consts
<1>3. PICK xa \in Nat, ya \in Nat, xs \in Nat, ys \in Nat, xm \in Nat, ym \in Nat :
        /\ xa = x.addr /\ ya = y.addr /\ xs = POINTER * x.size /\ ys = POINTER * y.size
        /\ xm = x.merges * Miscount /\ ym = y.merges * Miscount
  BY <1>1, ReachesIs
<1>4. POINTER * b.size = xs + ys + Miscount + HEADER /\ b.merges * Miscount = xm + ym + Miscount
  <2>1. PICK u \in Nat, v \in Nat, m \in Nat, n \in Nat :
          u = x.size /\ v = y.size /\ m = x.merges /\ n = y.merges
    BY <1>1, ReachesIs
  <2>2. POINTER * (u + v + HEADER) = POINTER * u + POINTER * v + POINTER * HEADER
        /\ (m + n + 1) * Miscount = m * Miscount + n * Miscount + Miscount
    BY <1>2
  <2>3. QED
    BY <1>1, <1>2, <1>3, <2>1, <2>2, SMTT(30)
<1>5. /\ xa + HEADER <= ya /\ ya <= xa + HEADER + xs /\ xa + HEADER + xs <= ya + xm
      /\ ya + HEADER <= end /\ end <= ya + HEADER + ys /\ ya + HEADER + ys <= end + ym
  <2>1. /\ Data(x) = xa + HEADER /\ Data(x) <= ya /\ ya <= Data(x) + xs /\ Data(x) + xs <= ya + xm
    BY <1>3, ReachesIs
  <2>2. /\ Data(y) = ya + HEADER /\ Data(y) <= end /\ end <= Data(y) + ys /\ Data(y) + ys <= end + ym
    BY <1>3, ReachesIs
  <2>3. QED
    BY <2>1, <2>2
<1>6. /\ Data(b) = xa + HEADER /\ Data(b) <= end /\ end <= Data(b) + POINTER * b.size
      /\ Data(b) + POINTER * b.size <= end + b.merges * Miscount
  BY <1>1, <1>2, <1>3, <1>4, <1>5 DEF Data
<1>7. Reaches(b, end)
  BY <1>1, <1>6, ReachesIs
<1>8. QED
  BY <1>7 DEF b

(* The first block alone.                                                  *)
LEMMA ChainBegins ==
  ASSUME NEW s, Laid(s)
  PROVE  Chained(Absorb(<<>>, s[1]), s, 1)
<1>1. /\ s \in Seq(Block) /\ Len(s) \in Nat /\ 1 \in 1 .. Len(s) /\ s[1] \in Block
      /\ s[1].addr = 0 /\ Whole(s[1].addr)
  BY BlocksOf DEF Laid, InARow
<1>2. PICK c : c = Absorb(<<>>, s[1])
  OBVIOUS
<1>3. c \in Seq(Block) /\ Len(c) = 1 /\ c[1] = s[1]
  <2>1. <<>> \in Seq(Block) /\ Len(<<>>) = 0 /\ 0 + 1 = 1
    OBVIOUS
  <2>2. c \in Seq(Block) /\ Len(c) = Len(<<>>) + 1 /\ c[Len(<<>>) + 1] = s[1]
    BY <1>1, <1>2, <2>1, AbsorbIs, Zenon
  <2>3. QED
    BY <2>1, <2>2
<1>4. Laid(c)
  <2>1. c # <<>>
    BY <1>3
  <2>2. QED
    BY <1>1, <1>3, <2>1 DEF Laid, InARow
<1>5. 1 < Len(s) => Reaches(c[Len(c)], s[1 + 1].addr)
  <2>1. 1 < Len(s) => 1 \in 1 .. Len(s) - 1
    BY <1>1
  <2>2. QED
    BY <1>3, <2>1 DEF Laid, InARow
<1>6. c[Len(c)].free = s[1].free /\ c[Len(c)].addr <= s[1].addr
  BY <1>1, <1>3
<1>7. QED
  BY <1>2, <1>3, <1>4, <1>5, <1>6 DEF Chained

(* One more block is swallowed.                                            *)
LEMMA ChainMerges ==
  ASSUME NEW s, Laid(s), NEW n \in 1 .. Len(s) - 1, NEW c, Chained(c, s, n),
         c[Len(c)].free, s[n + 1].free
  PROVE  Chained(Absorb(c, s[n + 1]), s, n + 1)
<1>1. /\ s \in Seq(Block) /\ Len(s) \in Nat /\ n \in 1 .. Len(s) /\ n + 1 \in 1 .. Len(s)
      /\ s[n] \in Block /\ s[n + 1] \in Block /\ n < Len(s) /\ n \in Nat
      /\ s[n].addr \in Nat /\ s[n + 1].addr \in Nat
  BY BlocksOf DEF Laid, InARow
<1>2. /\ c \in Seq(Block) /\ Len(c) \in Nat /\ 1 <= Len(c) /\ c # <<>> /\ c[Len(c)] \in Block
      /\ c[Len(c)].addr \in Nat /\ Len(c) \in 1 .. Len(c)
  BY BlocksOf DEF Chained, Laid, InARow
<1>3. PICK d : d = Absorb(c, s[n + 1])
  OBVIOUS
<1>4. PICK m : m = Merged(c[Len(c)], s[n + 1])
  OBVIOUS
<1>5. d \in Seq(Block) /\ Len(d) = Len(c) /\ d[Len(c)] = m /\ \A j \in 1 .. Len(c) - 1 : d[j] = c[j]
  BY <1>1, <1>2, <1>3, <1>4, AbsorbIs, ZenonT(60)
<1>6. m \in Block /\ m.addr = c[Len(c)].addr /\ m.free
  BY <1>1, <1>2, <1>4, MergedIs
<1>7. \A j \in 1 .. Len(c) : d[j].addr = c[j].addr /\ (d[j].free <=> c[j].free)
  <2>1. \A j \in 1 .. Len(c) : j = Len(c) \/ j \in 1 .. Len(c) - 1
    BY <1>2
  <2>2. QED
    BY <1>5, <1>6, <2>1
<1>8. Laid(d)
  <2>1. d # <<>>
    BY <1>2, <1>5
  <2>2. \A j \in 1 .. Len(d) : Whole(d[j].addr)
    BY <1>5, <1>7 DEF Chained, Laid, InARow
  <2>3. ASSUME NEW j \in 1 .. Len(d) - 1
        PROVE  Reaches(d[j], d[j + 1].addr)
    <3>1. j + 1 \in 1 .. Len(c) /\ j \in 1 .. Len(c) - 1
      BY <1>2, <1>5
    <3>2. QED
      BY <1>5, <1>7, <3>1 DEF Chained, Laid, InARow
  <2>4. d[1].addr = 0
    <3>1. 1 \in 1 .. Len(c)
      BY <1>2
    <3>2. QED
      BY <1>7, <3>1 DEF Chained, Laid
  <2>5. QED
    BY <1>5, <2>1, <2>2, <2>3, <2>4 DEF Laid, InARow
<1>9. n + 1 < Len(s) => Reaches(d[Len(d)], s[(n + 1) + 1].addr)
  <2>1. ASSUME n + 1 < Len(s)
        PROVE  Reaches(m, s[(n + 1) + 1].addr)
    <3>1. n + 1 \in 1 .. Len(s) - 1 /\ (n + 1) + 1 \in 1 .. Len(s)
      BY <1>1, <2>1
    <3>2. Reaches(s[n + 1], s[(n + 1) + 1].addr) /\ s[(n + 1) + 1].addr \in Nat
      BY <1>1, <3>1, BlocksOf DEF Laid, InARow
    <3>3. Reaches(c[Len(c)], s[n + 1].addr)
      BY <1>1 DEF Chained
    <3>4. QED
      BY <1>1, <1>2, <1>4, <3>2, <3>3, MergedReaches
  <2>2. QED
    BY <1>5, <2>1
<1>10. \A k \in 1 .. Len(d) - 1 : ~ (d[k].free /\ d[k + 1].free)
  <2>1. ASSUME NEW k \in 1 .. Len(d) - 1
        PROVE  ~ (d[k].free /\ d[k + 1].free)
    <3>1. k \in 1 .. Len(c) - 1 /\ k \in 1 .. Len(c) /\ k + 1 \in 1 .. Len(c)
      BY <1>2, <1>5
    <3>2. ~ (c[k].free /\ c[k + 1].free)
      BY <3>1 DEF Chained
    <3>3. (d[k].free <=> c[k].free) /\ (d[k + 1].free <=> c[k + 1].free)
      BY <1>7, <3>1
    <3>4. QED
      BY <3>2, <3>3
  <2>2. QED
    BY <2>1
<1>11. d[Len(d)].free = s[n + 1].free /\ d[Len(d)].addr <= s[n + 1].addr
  <2>1. c[Len(c)].addr <= s[n].addr
    BY DEF Chained
  <2>2. s[n].addr + HEADER <= s[n + 1].addr
    <3>1. n < n + 1
      BY <1>1
    <3>2. QED
      BY <1>1, <3>1, InOrder
  <2>3. d[Len(d)].addr <= s[n + 1].addr
    BY <1>1, <1>2, <1>5, <1>6, <2>1, <2>2, Consts, SMTT(30)
  <2>4. d[Len(d)].free = s[n + 1].free
    BY <1>1, <1>5, <1>6, BlocksOf
  <2>5. QED
    BY <2>3, <2>4
<1>12. \A i \in 1 .. n + 1 : ~ s[i].free => \E j \in 1 .. Len(d) : d[j] = s[i]
  <2>1. ASSUME NEW i \in 1 .. n + 1, ~ s[i].free
        PROVE  \E j \in 1 .. Len(d) : d[j] = s[i]
    <3>1. i \in 1 .. n
      <4>1. i # n + 1
        BY <2>1
      <4>2. QED
        BY <1>1, <4>1
    <3>2. PICK j \in 1 .. Len(c) : c[j] = s[i]
      BY <2>1, <3>1 DEF Chained
    <3>3. j # Len(c)
      BY <2>1, <3>2
    <3>4. j \in 1 .. Len(c) - 1
      BY <1>2, <3>3
    <3>5. QED
      BY <1>5, <3>2, <3>4
  <2>2. QED
    BY <2>1
<1>13. \A j \in 1 .. Len(d) : ~ d[j].free => \E i \in 1 .. n + 1 : s[i] = d[j]
  <2>1. ASSUME NEW j \in 1 .. Len(d), ~ d[j].free
        PROVE  \E i \in 1 .. n + 1 : s[i] = d[j]
    <3>1. j # Len(c)
      BY <1>5, <1>6, <2>1
    <3>2. j \in 1 .. Len(c) - 1 /\ j \in 1 .. Len(c)
      BY <1>2, <1>5, <3>1
    <3>3. d[j] = c[j] /\ ~ c[j].free
      BY <1>5, <2>1, <3>2
    <3>4. PICK i \in 1 .. n : s[i] = c[j]
      BY <3>2, <3>3 DEF Chained
    <3>5. i \in 1 .. n + 1
      BY <1>1
    <3>6. QED
      BY <3>3, <3>4, <3>5
  <2>2. QED
    BY <2>1
<1>14. QED
  BY <1>3, <1>8, <1>9, <1>10, <1>11, <1>12, <1>13 DEF Chained

(* One more block is kept apart.                                           *)
LEMMA ChainGrows ==
  ASSUME NEW s, Laid(s), NEW n \in 1 .. Len(s) - 1, NEW c, Chained(c, s, n),
         ~ (c[Len(c)].free /\ s[n + 1].free)
  PROVE  Chained(Absorb(c, s[n + 1]), s, n + 1)
<1>1. /\ s \in Seq(Block) /\ Len(s) \in Nat /\ n \in 1 .. Len(s) /\ n + 1 \in 1 .. Len(s)
      /\ s[n + 1] \in Block /\ n < Len(s) /\ n \in Nat /\ s[n + 1].addr \in Nat
  BY BlocksOf DEF Laid, InARow
<1>2. /\ c \in Seq(Block) /\ Len(c) \in Nat /\ 1 <= Len(c) /\ c # <<>> /\ Len(c) \in 1 .. Len(c)
  BY BlocksOf DEF Chained, Laid, InARow
<1>3. PICK d : d = Absorb(c, s[n + 1])
  OBVIOUS
<1>4. /\ d \in Seq(Block) /\ Len(d) = Len(c) + 1 /\ d[Len(c) + 1] = s[n + 1]
      /\ \A j \in 1 .. Len(c) : d[j] = c[j]
  <2>1. ~ (c # <<>> /\ c[Len(c)].free /\ s[n + 1].free)
    OBVIOUS
  <2>2. PICK b \in Block : b = s[n + 1] /\ ~ (c # <<>> /\ c[Len(c)].free /\ b.free)
    BY <1>1, <2>1
  <2>3. /\ Absorb(c, b) \in Seq(Block) /\ Len(Absorb(c, b)) = Len(c) + 1
        /\ Absorb(c, b)[Len(c) + 1] = b /\ \A j \in 1 .. Len(c) : Absorb(c, b)[j] = c[j]
    BY <1>2, <2>2, AbsorbIs, ZenonT(60)
  <2>4. QED
    BY <1>3, <2>2, <2>3
<1>5. \A j \in 1 .. Len(d) : j = Len(c) + 1 \/ j \in 1 .. Len(c)
  BY <1>2, <1>4
<1>6. \A j \in 1 .. Len(d) - 1 :
        j \in 1 .. Len(c) /\ (j = Len(c) \/ (j \in 1 .. Len(c) - 1 /\ j + 1 \in 1 .. Len(c)))
  BY <1>2, <1>4
<1>7. Laid(d)
  <2>1. d # <<>> /\ 1 \in 1 .. Len(c)
    BY <1>2, <1>4
  <2>2. \A j \in 1 .. Len(d) : Whole(d[j].addr)
    BY <1>1, <1>4, <1>5 DEF Chained, Laid, InARow
  <2>3. ASSUME NEW j \in 1 .. Len(d) - 1
        PROVE  Reaches(d[j], d[j + 1].addr)
    <3>1. CASE j = Len(c)
      <4>1. Reaches(c[Len(c)], s[n + 1].addr)
        BY <1>1 DEF Chained
      <4>2. QED
        BY <1>2, <1>4, <3>1, <4>1
    <3>2. CASE j \in 1 .. Len(c) - 1 /\ j + 1 \in 1 .. Len(c)
      BY <1>4, <1>6, <3>2 DEF Chained, Laid, InARow
    <3>3. QED
      BY <1>6, <3>1, <3>2
  <2>4. QED
    BY <1>4, <2>1, <2>2, <2>3 DEF Chained, Laid, InARow
<1>8. n + 1 < Len(s) => Reaches(d[Len(d)], s[(n + 1) + 1].addr)
  <2>1. n + 1 < Len(s) => n + 1 \in 1 .. Len(s) - 1
    BY <1>1
  <2>2. QED
    BY <1>4, <2>1 DEF Laid, InARow
<1>9. \A k \in 1 .. Len(d) - 1 : ~ (d[k].free /\ d[k + 1].free)
  <2>1. ASSUME NEW k \in 1 .. Len(d) - 1
        PROVE  ~ (d[k].free /\ d[k + 1].free)
    <3>1. CASE k = Len(c)
      BY <1>2, <1>4, <3>1
    <3>2. CASE k \in 1 .. Len(c) - 1 /\ k + 1 \in 1 .. Len(c)
      BY <1>4, <1>6, <3>2 DEF Chained
    <3>3. QED
      BY <1>6, <3>1, <3>2
  <2>2. QED
    BY <2>1
<1>10. d[Len(d)].free = s[n + 1].free /\ d[Len(d)].addr <= s[n + 1].addr
  BY <1>1, <1>4
<1>11. \A i \in 1 .. n + 1 : ~ s[i].free => \E j \in 1 .. Len(d) : d[j] = s[i]
  <2>1. ASSUME NEW i \in 1 .. n + 1, ~ s[i].free
        PROVE  \E j \in 1 .. Len(d) : d[j] = s[i]
    <3>1. CASE i = n + 1
      <4>1. Len(c) + 1 \in 1 .. Len(d)
        BY <1>2, <1>4
      <4>2. QED
        BY <1>4, <3>1, <4>1
    <3>2. CASE i \in 1 .. n
      <4>1. PICK j \in 1 .. Len(c) : c[j] = s[i]
        BY <2>1, <3>2 DEF Chained
      <4>2. j \in 1 .. Len(d)
        BY <1>2, <1>4
      <4>3. QED
        BY <1>4, <4>1, <4>2
    <3>3. QED
      BY <1>1, <3>1, <3>2
  <2>2. QED
    BY <2>1
<1>12. \A j \in 1 .. Len(d) : ~ d[j].free => \E i \in 1 .. n + 1 : s[i] = d[j]
  <2>1. ASSUME NEW j \in 1 .. Len(d), ~ d[j].free
        PROVE  \E i \in 1 .. n + 1 : s[i] = d[j]
    <3>1. CASE j = Len(c) + 1
      <4>1. n + 1 \in 1 .. n + 1
        BY <1>1
      <4>2. QED
        BY <1>4, <3>1, <4>1
    <3>2. CASE j \in 1 .. Len(c)
      <4>1. d[j] = c[j]
        BY <1>4, <3>2
      <4>2. PICK i \in 1 .. n : s[i] = c[j]
        BY <2>1, <3>2, <4>1 DEF Chained
      <4>3. i \in 1 .. n + 1
        BY <1>1
      <4>4. QED
        BY <4>1, <4>2, <4>3
    <3>3. QED
      BY <1>5, <3>1, <3>2
  <2>2. QED
    BY <2>1
<1>13. QED
  BY <1>3, <1>7, <1>8, <1>9, <1>10, <1>11, <1>12 DEF Chained

(* Merging a list, as a whole.                                             *)
LEMMA Merging ==
  ASSUME NEW s, Laid(s)
  PROVE  Chained(MergeAll(s), s, Len(s))
<1>1. s \in Seq(Block) /\ Len(s) \in Nat /\ 1 <= Len(s)
  BY BlocksOf DEF Laid, InARow
<1>2. PICK c : /\ c[0] = <<>> /\ MergeAll(s) = c[Len(s)]
               /\ \A k \in 1 .. Len(s) : c[k] = Absorb(c[k - 1], s[k])
  BY <1>1, MergeAllUnfolds
<1> DEFINE S == {n \in Nat : n + 1 <= Len(s) => Chained(c[n + 1], s, n + 1)}
<1>3. 0 \in S
  <2>1. c[1] = Absorb(<<>>, s[1])
    <3>1. 1 \in 1 .. Len(s) /\ 1 - 1 = 0
      BY <1>1
    <3>2. QED
      BY <1>2, <3>1
  <2>2. Chained(c[1], s, 1)
    BY <2>1, ChainBegins
  <2>3. 0 + 1 = 1 /\ 0 \in Nat
    OBVIOUS
  <2>4. QED
    BY <2>2, <2>3
<1>4. ASSUME NEW n \in Nat, n \in S
      PROVE  n + 1 \in S
  <2>1. ASSUME (n + 1) + 1 <= Len(s)
        PROVE  Chained(c[(n + 1) + 1], s, (n + 1) + 1)
    <3>1. n + 1 \in 1 .. Len(s) - 1 /\ n + 1 <= Len(s)
      BY <1>1, <2>1
    <3>2. Chained(c[n + 1], s, n + 1)
      BY <1>4, <3>1
    <3>3. (n + 1) + 1 \in 1 .. Len(s) /\ ((n + 1) + 1) - 1 = n + 1
      BY <1>1, <2>1
    <3>4. c[(n + 1) + 1] = Absorb(c[n + 1], s[(n + 1) + 1])
      BY <1>2, <3>3
    <3>5. QED
      BY <3>1, <3>2, <3>4, ChainMerges, ChainGrows
  <2>2. QED
    BY <2>1
<1>5. \A n \in Nat : n \in S
  <2> HIDE DEF S
  <2>1. QED
    BY <1>3, <1>4, Induction
<1>6. Len(s) - 1 \in S /\ (Len(s) - 1) + 1 = Len(s)
  BY <1>1, <1>5
<1>7. Chained(c[Len(s)], s, Len(s))
  <2>1. (Len(s) - 1) + 1 <= Len(s)
    BY <1>1
  <2>2. Chained(c[(Len(s) - 1) + 1], s, (Len(s) - 1) + 1)
    BY <1>6, <2>1
  <2>3. QED
    BY <1>6, <2>2
<1>8. QED
  BY <1>2, <1>7

-----------------------------------------------------------------------------
(* The blocks and the callers.                                             *)

(* What the invariant says of each block; blocks have different data.      *)
LEMMA BlockFacts ==
  ASSUME IInv, NEW k \in 1 .. Len(heap)
  PROVE  /\ heap \in Seq(Block) /\ heap # <<>> /\ Len(heap) \in Nat /\ Laid(heap)
         /\ heap[k] \in Block /\ heap[k].addr \in Nat /\ heap[k].size \in Nat
         /\ heap[k].free \in BOOLEAN /\ Data(heap[k]) = heap[k].addr + HEADER /\ Whole(heap[k].addr)
         /\ heap[Len(heap)].free /\ (k < Len(heap) => heap[k].merges <= 1)
         /\ \A l \in 1 .. Len(heap) : Data(heap[k]) = Data(heap[l]) => k = l
<1>1. heap \in Seq(Block)
  BY DEF IInv, TypeOK
<1>2. /\ heap # <<>> /\ Len(heap) \in Nat
      /\ \A l \in 1 .. Len(heap) :
           /\ heap[l] \in Block /\ heap[l].addr \in Nat /\ heap[l].size \in Nat
           /\ heap[l].free \in BOOLEAN /\ Data(heap[l]) = heap[l].addr + HEADER
  <2>1. 1 <= Len(heap) /\ Len(heap) \in Nat
    BY <1>1, BlocksOf
  <2>2. QED
    BY <1>1, <2>1, BlocksOf
<1>3. Laid(heap) /\ heap[Len(heap)].free /\ \A l \in 1 .. Len(heap) - 1 : heap[l].merges <= 1
  BY <1>2 DEF IInv, LaidInv
<1>4. k < Len(heap) => heap[k].merges <= 1
  <2>1. k < Len(heap) => k \in 1 .. Len(heap) - 1
    BY <1>2
  <2>2. QED
    BY <1>3, <2>1
<1>5. ASSUME NEW l \in 1 .. Len(heap), Data(heap[k]) = Data(heap[l])
      PROVE  k = l
  <2>1. HEADER \in Nat \ {0}
    BY Consts
  <2>2. heap[k].addr = heap[l].addr
    BY <1>2, <1>5, <2>1
  <2>3. k < l => heap[k].addr + HEADER <= heap[l].addr
    BY <1>3, InOrder
  <2>4. l < k => heap[l].addr + HEADER <= heap[k].addr
    BY <1>3, InOrder
  <2>5. k < l \/ l < k \/ k = l
    BY <1>2
  <2>6. QED
    BY <1>2, <2>1, <2>2, <2>3, <2>4, <2>5
<1>6. Whole(heap[k].addr)
  BY <1>3 DEF Laid, InARow
<1>7. QED
  BY <1>1, <1>2, <1>3, <1>4, <1>5, <1>6

(* A block in use has the size that its caller asked for.                  *)
LEMMA InUse ==
  ASSUME IInv, NEW k \in 1 .. Len(heap), ~ heap[k].free
  PROVE  /\ Data(heap[k]) \in DOMAIN held /\ heap[k].size = held[Data(heap[k])].size
         /\ heap[k].size \in 0 .. LargestSize
<1>1. Data(heap[k]) \in DOMAIN held
  BY DEF IInv, HeldInv
<1>2. PICK l \in 1 .. Len(heap) :
        Data(heap[l]) = Data(heap[k]) /\ ~ heap[l].free /\ heap[l].size = held[Data(heap[k])].size
  BY <1>1 DEF IInv, HeldInv
<1>3. k = l
  BY <1>2, BlockFacts
<1>4. held[Data(heap[k])] \in [size : Sizes \ {0}, alignment : Alignments]
  BY <1>1 DEF IInv, TypeOK
<1>5. held[Data(heap[k])].size \in Sizes
  BY <1>4
<1>6. QED
  BY <1>1, <1>2, <1>3, <1>5, LargestAssumption

(* The pieces in use in front of a block.                                  *)
InFrontOf(k) == {Data(heap[i]) : i \in {i \in 1 .. k - 1 : ~ heap[i].free}}

(* Their number.                                                           *)
LEMMA InFrontOfIs ==
  ASSUME IInv, NEW k \in 1 .. Len(heap)
  PROVE  /\ IsFiniteSet(InFrontOf(k)) /\ Cardinality(InFrontOf(k)) \in Nat
         /\ Cardinality(InFrontOf(k)) <= Cardinality(DOMAIN held)
         /\ Cardinality(DOMAIN held) \in Nat
         /\ heap[k].free => InFrontOf(k + 1) = InFrontOf(k)
         /\ ~ heap[k].free => Cardinality(InFrontOf(k + 1)) = Cardinality(InFrontOf(k)) + 1
<1>1. Len(heap) \in Nat /\ k \in Nat
  BY BlockFacts
<1>2. InFrontOf(k) \subseteq DOMAIN held /\ IsFiniteSet(DOMAIN held)
  <2>1. ASSUME NEW i \in 1 .. k - 1, ~ heap[i].free
        PROVE  Data(heap[i]) \in DOMAIN held
    <3>1. i \in 1 .. Len(heap)
      BY <1>1
    <3>2. QED
      BY <2>1, <3>1, InUse
  <2>2. InFrontOf(k) \subseteq DOMAIN held
    BY <2>1 DEF InFrontOf
  <2>3. QED
    BY <2>2 DEF IInv, HeldInv
<1>3. /\ IsFiniteSet(InFrontOf(k)) /\ Cardinality(InFrontOf(k)) \in Nat
      /\ Cardinality(InFrontOf(k)) <= Cardinality(DOMAIN held)
      /\ Cardinality(DOMAIN held) \in Nat
  BY <1>2, FS_Subset, FS_CardinalityType
<1>4. 1 .. (k + 1) - 1 = (1 .. k - 1) \union {k}
  BY <1>1
<1>5. ASSUME heap[k].free
      PROVE  InFrontOf(k + 1) = InFrontOf(k)
  <2>1. {i \in 1 .. (k + 1) - 1 : ~ heap[i].free} = {i \in 1 .. k - 1 : ~ heap[i].free}
    BY <1>4, <1>5
  <2>2. QED
    BY <2>1 DEF InFrontOf
<1>6. ASSUME ~ heap[k].free
      PROVE  Cardinality(InFrontOf(k + 1)) = Cardinality(InFrontOf(k)) + 1
  <2>1. InFrontOf(k + 1) = InFrontOf(k) \union {Data(heap[k])}
    <3>1. {i \in 1 .. (k + 1) - 1 : ~ heap[i].free} = {i \in 1 .. k - 1 : ~ heap[i].free} \union {k}
      BY <1>4, <1>6
    <3>2. QED
      BY <3>1, Zenon DEF InFrontOf
  <2>2. Data(heap[k]) \notin InFrontOf(k)
    <3>1. \A i \in 1 .. k - 1 : i \in 1 .. Len(heap) /\ i # k
      BY <1>1
    <3>2. \A i \in 1 .. Len(heap) : Data(heap[k]) = Data(heap[i]) => k = i
      BY BlockFacts
    <3>3. QED
      BY <3>1, <3>2 DEF InFrontOf
  <2>3. QED
    BY <1>3, <2>1, <2>2, FS_AddElement
<1>7. QED
  BY <1>3, <1>5, <1>6

(* The sizes of a piece and of a hole.                                     *)
LEMMA PieceAndHole ==
  /\ Piece \in Nat /\ Hole \in Nat /\ LargestSize \in Nat
  /\ \A size \in 0 .. LargestSize : HEADER + POINTER * size <= Piece
  /\ \A size \in Nat, alignment \in Alignments, asked \in Sizes :
        size < alignment + HEADER + asked => HEADER + POINTER * size <= Hole
  /\ \A alignment \in Alignments, asked \in Sizes :
        /\ POINTER * (alignment + asked - 1) \in Nat
        /\ HEADER + POINTER * (alignment + asked - 1) + HEADER <= Piece + Hole
  /\ MaxHeld * (Piece + Hole) <= TOTAL
<1>1. /\ HEADER \in Nat \ {0} /\ POINTER \in Nat \ {0} /\ LargestSize \in Nat
      /\ LargestAlignment \in Nat \ {0} /\ Sizes \subseteq 0 .. LargestSize
      /\ Alignments \subseteq 1 .. LargestAlignment /\ TOTAL \in Nat
  BY Consts, LargestAssumption
<1>2. \A a, b \in Int : a <= b => POINTER * a <= POINTER * b
  <2>1. ASSUME NEW a \in Int, NEW b \in Int, a <= b
        PROVE  POINTER * a <= POINTER * b
    <3>1. a * POINTER <= b * POINTER
      BY <1>1, <2>1, TimesMonotone
    <3>2. QED
      BY <1>1, <3>1
  <2>2. QED
    BY <2>1
<1>3. \A a \in Nat : POINTER * a \in Nat
  BY <1>1
<1>4. PICK most \in Nat : most = LargestAlignment + HEADER + LargestSize - 1
  <2>1. LargestAlignment + HEADER + LargestSize - 1 \in Nat
    BY <1>1
  <2>2. QED
    BY <2>1
<1>5. Piece = HEADER + POINTER * LargestSize /\ Hole = HEADER + POINTER * most
  BY <1>4 DEF Piece, Hole
<1>6. Piece \in Nat /\ Hole \in Nat
  BY <1>1, <1>3, <1>4, <1>5
<1>7. ASSUME NEW size \in 0 .. LargestSize
      PROVE  HEADER + POINTER * size <= Piece
  <2>1. size \in Int /\ LargestSize \in Int /\ size <= LargestSize /\ size \in Nat
    BY <1>1
  <2>2. POINTER * size <= POINTER * LargestSize /\ POINTER * size \in Nat
        /\ POINTER * LargestSize \in Nat
    BY <1>1, <1>2, <1>3, <2>1
  <2>3. QED
    BY <1>1, <1>5, <2>2
<1>8. ASSUME NEW size \in Nat, NEW alignment \in Alignments, NEW asked \in Sizes,
             size < alignment + HEADER + asked
      PROVE  HEADER + POINTER * size <= Hole
  <2>1. size <= most /\ size \in Int /\ most \in Int
    BY <1>1, <1>4, <1>8
  <2>2. POINTER * size <= POINTER * most /\ POINTER * size \in Nat /\ POINTER * most \in Nat
    BY <1>2, <1>3, <1>4, <2>1
  <2>3. QED
    BY <1>1, <1>5, <2>2
<1>9. ASSUME NEW alignment \in Alignments, NEW asked \in Sizes
      PROVE  /\ POINTER * (alignment + asked - 1) \in Nat
             /\ HEADER + POINTER * (alignment + asked - 1) + HEADER <= Piece + Hole
  <2>1. alignment + asked - 1 \in Nat /\ alignment + asked - 1 <= most
    BY <1>1, <1>4
  <2>2. PICK z \in Nat : z = alignment + asked - 1
    BY <2>1
  <2>3. POINTER * z <= POINTER * most /\ POINTER * z \in Nat /\ POINTER * most \in Nat
    BY <1>2, <1>3, <1>4, <2>1, <2>2
  <2>4. POINTER * LargestSize \in Nat
    BY <1>1, <1>3
  <2>5. QED
    BY <1>1, <1>5, <2>2, <2>3, <2>4
<1>10. QED
  BY <1>1, <1>6, <1>7, <1>8, <1>9, RoomAssumption

(* Where a block can start at most, when no block in front of it has room: *)
(* there is a hole that is too small in front of every piece.              *)
Near(k) ==
  heap[k].addr <= Cardinality(InFrontOf(k)) * (Piece + Hole)
                    + (IF k # 1 /\ heap[k - 1].free THEN Hole ELSE 0)

(* One block further.                                                      *)
LEMMA NearStep ==
  ASSUME IInv, NEW size \in Sizes, NEW alignment \in Alignments, NEW k \in 1 .. Len(heap) - 1,
         ~ HasRoom(heap[k], size, alignment), Near(k)
  PROVE  Near(k + 1)
<1>1. /\ Len(heap) \in Nat /\ k \in 1 .. Len(heap) /\ k + 1 \in 1 .. Len(heap) /\ k \in Nat
      /\ k + 1 # 1 /\ (k + 1) - 1 = k
  <2>1. 1 \in 1 .. Len(heap) /\ heap \in Seq(Block) => Len(heap) \in Nat
    BY BlocksOf
  <2>2. heap \in Seq(Block)
    BY DEF IInv, TypeOK
  <2>3. Len(heap) \in Nat
    BY <2>2, BlocksOf
  <2>4. QED
    BY <2>3
<1>2. PICK b \in Block : b = heap[k]
  BY <1>1, BlockFacts
<1>3. PICK c \in Block : c = heap[k + 1]
  BY <1>1, BlockFacts
<1>4. /\ b.addr \in Nat /\ b.size \in Nat /\ b.free \in BOOLEAN /\ c.addr \in Nat
      /\ Data(b) = b.addr + HEADER /\ POINTER * b.size \in Nat
      /\ c.addr <= Data(b) + POINTER * b.size
  <2>1. Reaches(b, c.addr)
    BY <1>1, <1>2, <1>3, BlockFacts DEF Laid, InARow
  <2>2. c.addr \in Nat /\ b.free \in BOOLEAN
    BY DEF Block
  <2>3. QED
    BY <2>1, <2>2, ReachesIs
<1>5. PICK n \in Nat : n = Cardinality(InFrontOf(k))
  BY <1>1, InFrontOfIs
<1>6. PICK w \in Nat, h \in Nat, z \in Nat, d \in Nat :
        w = Piece /\ h = Hole /\ z = POINTER * b.size /\ d = HEADER /\ c.addr <= b.addr + d + z
  <2>1. \E d, z \in Nat : z = POINTER * b.size /\ d = HEADER /\ c.addr <= b.addr + d + z
    <3>1. HEADER \in Nat
      BY Consts
    <3>2. c.addr <= b.addr + HEADER + POINTER * b.size
      BY <1>4
    <3>3. QED
      BY <1>4, <3>1, <3>2, Zenon
  <2>2. QED
    BY <2>1, PieceAndHole, Zenon
<1>7. PICK x \in Nat : x = n * (w + h)
  <2>1. n * (w + h) \in Nat
    BY <1>5, <1>6
  <2>2. QED
    BY <2>1
<1>8. b.addr <= x + (IF k # 1 /\ heap[k - 1].free THEN h ELSE 0)
  BY <1>2, <1>5, <1>6, <1>7 DEF Near
<1>9. CASE ~ b.free
  <2>1. Cardinality(InFrontOf(k + 1)) = n + 1
    BY <1>1, <1>2, <1>5, <1>9, InFrontOfIs
  <2>2. b.size \in 0 .. LargestSize
    BY <1>1, <1>2, <1>9, InUse
  <2>3. d + z <= w
    BY <1>6, <2>2, PieceAndHole
  <2>4. (n + 1) * (w + h) = x + w + h
    BY <1>5, <1>6, <1>7, SMTT(30)
  <2>5. b.addr <= x + h
    BY <1>4, <1>6, <1>7, <1>8
  <2>6. c.addr <= x + w + h + 0
    <3>1. b.addr \in Nat /\ c.addr \in Nat /\ c.addr <= b.addr + d + z
      BY <1>4, <1>6
    <3>2. QED
      BY <2>3, <2>5, <3>1
  <2>7. QED
    BY <1>1, <1>2, <1>3, <1>6, <1>9, <2>1, <2>4, <2>6 DEF Near
<1>10. CASE b.free
  <2>1. InFrontOf(k + 1) = InFrontOf(k)
    BY <1>1, <1>2, <1>10, InFrontOfIs
  <2>2. ~ (k # 1 /\ heap[k - 1].free)
    <3>1. ASSUME k # 1
          PROVE  ~ heap[k - 1].free
      <4>1. k - 1 \in 1 .. Len(heap) - 1 /\ (k - 1) + 1 = k
        BY <1>1, <3>1
      <4>2. ~ (heap[k - 1].free /\ heap[k].free)
        BY <4>1 DEF IInv, Alternating
      <4>3. QED
        BY <1>2, <1>10, <4>2
    <3>2. QED
      BY <3>1
  <2>3. b.addr <= x
    BY <1>4, <1>7, <1>8, <2>2
  <2>4. d + z <= h
    <3>1. b.size < alignment + HEADER + size
      <4>1. ~ (b.size >= alignment + HEADER + size)
        BY <1>2, <1>10 DEF HasRoom
      <4>2. alignment \in Nat /\ size \in Nat /\ HEADER \in Nat
        BY LargestAssumption, Consts
      <4>3. QED
        BY <1>4, <4>1, <4>2
    <3>2. QED
      BY <1>4, <1>6, <3>1, PieceAndHole
  <2>5. c.addr <= x + h
    <3>1. b.addr \in Nat /\ c.addr \in Nat /\ c.addr <= b.addr + d + z
      BY <1>4, <1>6
    <3>2. QED
      BY <2>3, <2>4, <3>1, SMTT(30)
  <2>6. QED
    BY <1>1, <1>2, <1>3, <1>5, <1>6, <1>7, <1>10, <2>1, <2>5 DEF Near
<1>11. QED
  BY <1>4, <1>9, <1>10

(* All the way to a block.                                                 *)
LEMMA NearAll ==
  ASSUME IInv, NEW size \in Sizes, NEW alignment \in Alignments, NEW k \in 1 .. Len(heap),
         \A l \in 1 .. k - 1 : ~ HasRoom(heap[l], size, alignment)
  PROVE  Near(k)
<1> DEFINE S == {n \in Nat : n + 1 <= k => Near(n + 1)}
<1>1. Len(heap) \in Nat /\ k \in Nat /\ 1 <= k /\ k <= Len(heap)
  BY BlockFacts
<1>2. 0 \in S
  <2>1. heap[1].addr = 0 /\ 1 \in 1 .. Len(heap)
    BY <1>1, BlockFacts DEF Laid
  <2>2. Cardinality(InFrontOf(1)) \in Nat
    BY <2>1, InFrontOfIs
  <2>3. Cardinality(InFrontOf(1)) * (Piece + Hole) \in Nat
    BY <2>2, PieceAndHole
  <2>4. Near(1)
    BY <2>1, <2>3 DEF Near
  <2>5. 0 + 1 = 1 /\ 0 \in Nat
    OBVIOUS
  <2>6. QED
    BY <2>4, <2>5
<1>3. ASSUME NEW n \in Nat, n \in S
      PROVE  n + 1 \in S
  <2>1. ASSUME (n + 1) + 1 <= k
        PROVE  Near((n + 1) + 1)
    <3>1. n + 1 \in 1 .. k - 1 /\ n + 1 \in 1 .. Len(heap) - 1 /\ n + 1 <= k
      BY <1>1, <2>1
    <3>2. Near(n + 1) /\ ~ HasRoom(heap[n + 1], size, alignment)
      BY <1>3, <3>1
    <3>3. QED
      BY <3>1, <3>2, NearStep
  <2>2. QED
    BY <2>1
<1>4. \A n \in Nat : n \in S
  <2> HIDE DEF S
  <2>1. QED
    BY <1>2, <1>3, Induction
<1>5. k - 1 \in S /\ (k - 1) + 1 = k /\ k <= k
  <2>1. k - 1 \in Nat /\ (k - 1) + 1 = k /\ k <= k
    BY <1>1
  <2>2. QED
    BY <1>4, <2>1
<1>6. QED
  <2>1. (k - 1) + 1 <= k => Near((k - 1) + 1)
    BY <1>5
  <2>2. QED
    BY <1>5, <2>1

(* The header behind the part in use is inside the heap when the search    *)
(* has taken the first block with room.                                    *)
LEMMA ThirdInside ==
  ASSUME IInv, NEW size \in Sizes, NEW alignment \in Alignments, NEW k \in 1 .. Len(heap),
         FirstFit(k, size, alignment), Cardinality(DOMAIN held) < MaxHeld
  PROVE  Third(heap[k], size, alignment).addr + HEADER <= TOTAL
<1>1. HasRoom(heap[k], size, alignment) /\ heap[k].free
      /\ \A l \in 1 .. k - 1 : ~ HasRoom(heap[l], size, alignment)
  BY DEF FirstFit, HasRoom
<1>2. PICK b \in Block : b = heap[k] /\ Whole(b.addr) /\ b.addr \in Nat /\ Data(b) = b.addr + HEADER
  BY BlockFacts
<1>3. PICK n \in Nat, m \in Nat : n = Cardinality(InFrontOf(k)) /\ m = MaxHeld /\ n + 1 <= m
  BY InFrontOfIs, Consts
<1>4. PICK w \in Nat : w = Piece + Hole /\ m * w <= TOTAL
  BY <1>3, PieceAndHole
<1>5. b.addr <= n * w
  <2>1. Near(k)
    BY <1>1, NearAll
  <2>2. ~ (k # 1 /\ heap[k - 1].free)
    <3>1. ASSUME k # 1
          PROVE  ~ heap[k - 1].free
      <4>1. k - 1 \in 1 .. Len(heap) - 1 /\ (k - 1) + 1 = k
        BY <3>1, BlockFacts
      <4>2. ~ (heap[k - 1].free /\ heap[k].free)
        BY <4>1 DEF IInv, Alternating
      <4>3. QED
        BY <1>1, <4>2
    <3>2. QED
      BY <3>1
  <2>3. b.addr <= n * w + 0
    BY <1>2, <1>3, <1>4, <2>1, <2>2 DEF Near
  <2>4. n * w \in Nat
    BY <1>3, <1>4
  <2>5. QED
    BY <2>3, <2>4
<1>6. n * w \in Nat /\ n * w + w <= m * w /\ m * w \in Nat
  <2>1. (n + 1) * w <= m * w
    BY <1>3, <1>4, TimesMonotone
  <2>2. (n + 1) * w = n * w + w /\ n * w \in Nat /\ m * w \in Nat
    BY <1>3, <1>4, SMTT(30)
  <2>3. QED
    BY <2>1, <2>2
<1>7. PICK y \in Nat, z \in Nat : y = n * w /\ z = m * w
  BY <1>6
<1>8. PICK x \in Nat : x = POINTER * (alignment + size - 1) /\ HEADER + x + HEADER <= w
  BY <1>4, PieceAndHole
<1>9. size \in Nat
  BY LargestAssumption
<1>10. PICK t \in Block : t = Third(b, size, alignment) /\ t.addr + HEADER <= Data(b) + x + HEADER
  BY <1>1, <1>2, <1>8, <1>9, ThirdIs
<1>11. t.addr \in Nat
  BY DEF Block
<1>12. t.addr + HEADER <= TOTAL
  <2>1. b.addr <= y /\ y + w <= z /\ z <= TOTAL
    BY <1>4, <1>5, <1>6, <1>7
  <2>2. t.addr + HEADER <= b.addr + HEADER + x + HEADER
    BY <1>2, <1>10
  <2>3. HEADER \in Nat /\ TOTAL \in Nat /\ b.addr \in Nat /\ t.addr + HEADER \in Nat
    BY <1>2, <1>11, Consts, SMTT(30)
  <2>4. HEADER + x + HEADER <= w
    BY <1>8
  <2>5. QED
    BY <2>1, <2>2, <2>3, <2>4, SMTT(30)
<1>13. QED
  BY <1>2, <1>10, <1>12

-----------------------------------------------------------------------------
(* Cutting a block.                                                        *)

(* The part in front.                                                      *)
LEMMA FrontIs ==
  ASSUME NEW b \in Block, Whole(b.addr), NEW alignment \in Alignments, NEW size \in Nat,
         HasRoom(b, size, alignment), SecondAddr(b, alignment) # b.addr
  PROVE  \E f \in Block :
           /\ InFront(b, alignment) = <<f>> /\ f.addr = b.addr /\ f.free /\ f.merges = 1
           /\ Reaches(f, SecondAddr(b, alignment))
<1>1. PICK s \in Nat : s = SecondAddr(b, alignment) /\ Data(b) <= s /\ s <= Data(b) + HEADER
  BY SecondIs
<1>2. /\ b.addr \in Nat /\ Data(b) = b.addr + HEADER /\ Data(b) \in Nat
      /\ HEADER \in Nat /\ POINTER \in Nat \ {0} /\ Miscount = (POINTER - 1) * HEADER
  BY Consts, ReachesIs DEF Miscount
<1>3. PICK z \in Nat : z = s - Data(b) /\ z <= HEADER
  <2>1. s - Data(b) \in Nat /\ s - Data(b) <= HEADER
    BY <1>1, <1>2
  <2>2. QED
    BY <2>1
<1>4. PICK f : f = [b EXCEPT !.size = z, !.merges = 1]
  OBVIOUS
<1>5. InFront(b, alignment) = <<f>>
  BY <1>1, <1>3, <1>4 DEF InFront
<1>6. /\ f \in Block /\ f.addr = b.addr /\ f.size = z /\ f.merges = 1 /\ f.free = b.free
      /\ Data(f) = Data(b)
  BY <1>3, <1>4 DEF Block, Data
<1>7. b.free
  BY DEF HasRoom
<1>8. POINTER * z = (POINTER - 1) * z + z /\ (POINTER - 1) * z \in Nat /\ POINTER * z \in Nat
  BY <1>2
<1>9. (POINTER - 1) * z <= (POINTER - 1) * HEADER
  <2>1. POINTER - 1 \in Nat
    BY <1>2
  <2>2. z * (POINTER - 1) <= HEADER * (POINTER - 1)
    BY <1>2, <1>3, <2>1, TimesMonotone
  <2>3. QED
    BY <1>2, <2>2
<1>10. /\ Data(f) <= s /\ s <= Data(f) + POINTER * z
       /\ Data(f) + POINTER * z <= s + 1 * Miscount
  <2>1. PICK x \in Nat, y \in Nat : x = (POINTER - 1) * z /\ y = Miscount /\ x <= y
    BY <1>2, <1>8, <1>9, Consts
  <2>2. POINTER * z = x + z /\ s = Data(b) + z
    BY <1>1, <1>2, <1>3, <1>8, <2>1
  <2>3. 1 * Miscount = y
    BY <2>1
  <2>4. QED
    BY <1>2, <1>6, <2>1, <2>2, <2>3
<1>11. Reaches(f, s)
  BY <1>1, <1>6, <1>7, <1>10, ReachesIs
<1>12. QED
  BY <1>1, <1>5, <1>6, <1>7, <1>11

(* The part in use.                                                        *)
LEMMA InTheMiddle ==
  ASSUME NEW b \in Block, Whole(b.addr), NEW alignment \in Alignments, NEW size \in Nat,
         HasRoom(b, size, alignment)
  PROVE  LET s == Second(b, size, alignment)
         IN  /\ s \in Block /\ s.addr = SecondAddr(b, alignment) /\ ~ s.free /\ s.size = size
             /\ s.merges = 0 /\ Whole(s.addr) /\ Data(s) % alignment = 0 /\ Data(s) \in Nat
             /\ Reaches(s, Third(b, size, alignment).addr)
<1>1. PICK s : s = Second(b, size, alignment)
  OBVIOUS
<1>2. PICK a \in Nat : a = SecondAddr(b, alignment) /\ Whole(a) /\ (a + HEADER) % alignment = 0
  BY SecondIs
<1>3. s = [addr |-> a, size |-> size, free |-> FALSE, merges |-> 0]
  BY <1>1, <1>2 DEF Second
<1>4. /\ s \in Block /\ s.addr = a /\ ~ s.free /\ s.size = size /\ s.merges = 0
      /\ Data(s) = a + HEADER
  BY <1>3 DEF Block, Data
<1>5. PICK t \in Block : t = Third(b, size, alignment) /\ t.addr = a + HEADER + POINTER * size
  BY <1>2, ThirdIs
<1>6. HEADER \in Nat /\ POINTER * size \in Nat /\ t.addr \in Nat /\ 0 * Miscount = 0
  BY Consts DEF Block
<1>7. Reaches(s, t.addr)
  <2>1. /\ Data(s) <= t.addr /\ t.addr = Data(s) + POINTER * s.size
        /\ Data(s) + POINTER * s.size <= t.addr + s.merges * Miscount
    BY <1>4, <1>5, <1>6
  <2>2. t.addr <= Data(s) + POINTER * s.size
    BY <1>6, <2>1
  <2>3. QED
    BY <1>4, <1>6, <2>1, <2>2, ReachesIs
<1>8. Data(s) \in Nat
  BY <1>4, <1>6
<1>9. QED
  BY <1>1, <1>2, <1>4, <1>5, <1>7, <1>8

(* The blocks a block is cut into.                                         *)
Parts(b, size, alignment) ==
  InFront(b, alignment) \o <<Second(b, size, alignment), Third(b, size, alignment)>>

(* They lie in a row; the part in use is the last but one, the other ones  *)
(* are free and have counted bytes for pointers once more at most.         *)
LEMMA PartsAre ==
  ASSUME NEW b \in Block, Whole(b.addr), NEW alignment \in Alignments, NEW size \in Nat,
         HasRoom(b, size, alignment)
  PROVE  LET m == Parts(b, size, alignment)
         IN  /\ InARow(m) /\ m[1].addr = b.addr /\ Len(m) \in 2 .. 3
             /\ m[Len(m)] = Third(b, size, alignment)
             /\ m[Len(m) - 1] = Second(b, size, alignment)
             /\ \A i \in 1 .. Len(m) - 1 : m[i].merges <= 1
             /\ \A i \in 1 .. Len(m) : i # Len(m) - 1 => m[i].free
<1>1. PICK s \in Block : /\ s = Second(b, size, alignment) /\ s.addr = SecondAddr(b, alignment)
                         /\ ~ s.free /\ s.merges = 0 /\ Whole(s.addr)
                         /\ Reaches(s, Third(b, size, alignment).addr)
  BY InTheMiddle
<1>2. PICK t \in Block : t = Third(b, size, alignment) /\ Whole(t.addr) /\ t.free
  BY ThirdIs
<1>3. PICK m : m = Parts(b, size, alignment)
  OBVIOUS
<1>4. CASE SecondAddr(b, alignment) = b.addr
  <2>1. m = <<s, t>>
    <3>1. m = <<>> \o <<s, t>>
      BY <1>1, <1>2, <1>3, <1>4 DEF Parts, InFront
    <3>2. <<s, t>> \in Seq(Block)
      OBVIOUS
    <3>3. QED
      BY <3>1, <3>2, ConcatEmptySeq
  <2>2. m \in Seq(Block) /\ Len(m) = 2 /\ m[1] = s /\ m[2] = t /\ m # <<>>
    BY <2>1
  <2>3. InARow(m)
    <3>1. \A i \in 1 .. 2 : i = 1 \/ i = 2
      OBVIOUS
    <3>2. \A i \in 1 .. 2 - 1 : i = 1 /\ i + 1 = 2
      OBVIOUS
    <3>3. \A i \in 1 .. 2 : Whole(m[i].addr)
      BY <1>1, <1>2, <2>2, <3>1
    <3>4. Reaches(m[1], m[2].addr)
      BY <1>1, <1>2, <2>2
    <3>5. \A i \in 1 .. 2 - 1 : Reaches(m[i], m[i + 1].addr)
      BY <3>2, <3>4
    <3>6. QED
      BY <2>2, <3>3, <3>5 DEF InARow
  <2>4. /\ m[1].addr = b.addr /\ Len(m) \in 2 .. 3 /\ m[Len(m)] = t /\ m[Len(m) - 1] = s
        /\ \A i \in 1 .. Len(m) - 1 : m[i].merges <= 1
        /\ \A i \in 1 .. Len(m) : i # Len(m) - 1 => m[i].free
    BY <1>1, <1>2, <1>4, <2>2
  <2>5. QED
    BY <1>1, <1>2, <1>3, <2>3, <2>4
<1>5. CASE SecondAddr(b, alignment) # b.addr
  <2>1. PICK f \in Block :
          /\ InFront(b, alignment) = <<f>> /\ f.addr = b.addr /\ f.free /\ f.merges = 1
          /\ Reaches(f, s.addr)
    BY <1>1, <1>5, FrontIs
  <2>2. m = <<f>> \o <<s, t>>
    BY <1>1, <1>2, <1>3, <2>1 DEF Parts
  <2>3. m \in Seq(Block) /\ Len(m) = 3 /\ m[1] = f /\ m[2] = s /\ m[3] = t /\ m # <<>>
    BY <2>2
  <2>4. InARow(m)
    <3>1. \A i \in 1 .. 3 : i = 1 \/ i = 2 \/ i = 3
      OBVIOUS
    <3>2. \A i \in 1 .. 3 - 1 : (i = 1 /\ i + 1 = 2) \/ (i = 2 /\ i + 1 = 3)
      OBVIOUS
    <3>3. \A i \in 1 .. 3 : Whole(m[i].addr)
      BY <1>1, <1>2, <2>1, <2>3, <3>1
    <3>4. Reaches(m[1], m[2].addr) /\ Reaches(m[2], m[3].addr)
      BY <1>1, <1>2, <2>1, <2>3
    <3>5. \A i \in 1 .. 3 - 1 : Reaches(m[i], m[i + 1].addr)
      BY <3>2, <3>4
    <3>6. QED
      BY <2>3, <3>3, <3>5 DEF InARow
  <2>5. /\ m[1].addr = b.addr /\ Len(m) \in 2 .. 3 /\ m[Len(m)] = t /\ m[Len(m) - 1] = s
        /\ \A i \in 1 .. Len(m) - 1 : m[i].merges <= 1
        /\ \A i \in 1 .. Len(m) : i # Len(m) - 1 => m[i].free
    BY <1>1, <1>2, <2>1, <2>3
  <2>6. QED
    BY <1>1, <1>2, <1>3, <2>4, <2>5
<1>6. QED
  BY <1>4, <1>5

(* The rest of a block reaches as far as the block did.                    *)
LEMMA ThirdReaches ==
  ASSUME NEW b \in Block, Whole(b.addr), NEW alignment \in Alignments, NEW size \in Nat,
         HasRoom(b, size, alignment), NEW end \in Nat, Reaches(b, end), b.merges <= 1
  PROVE  Reaches(Third(b, size, alignment), end)
<1>1. PICK t \in Block :
        /\ t = Third(b, size, alignment) /\ t.free /\ t.merges = b.merges
        /\ t.addr + POINTER * t.size = b.addr + POINTER * b.size
        /\ t.addr + HEADER + Miscount <= Data(b) + POINTER * b.size
  BY ThirdIs
<1>2. PICK ta \in Nat, ba \in Nat, tz \in Nat, bz \in Nat, e \in Nat, h \in Nat, x \in Nat :
        /\ ta = t.addr /\ ba = b.addr /\ tz = POINTER * t.size /\ bz = POINTER * b.size
        /\ e = b.merges * Miscount /\ h = HEADER /\ x = Miscount
        /\ Data(b) = ba + h /\ Data(t) = ta + h
  BY ReachesIs, Consts
<1>3. b.merges \in Nat /\ e <= x
  <2>1. b.merges \in Nat /\ (b.merges = 0 \/ b.merges = 1)
    <3>1. b.merges \in Nat
      BY ReachesIs
    <3>2. QED
      BY <3>1
  <2>2. 0 * Miscount = 0 /\ 1 * Miscount = Miscount
    BY Consts
  <2>3. QED
    BY <1>2, <2>1, <2>2
<1>4. ba + h <= end /\ end <= ba + h + bz /\ ba + h + bz <= end + e
  BY <1>2, ReachesIs
<1>5. ta + tz = ba + bz /\ ta + h + x <= ba + h + bz
  BY <1>1, <1>2
<1>6. ta + h <= end /\ end <= ta + h + tz /\ ta + h + tz <= end + e
  BY <1>3, <1>4, <1>5
<1>7. Reaches(t, end)
  BY <1>1, <1>2, <1>6, ReachesIs
<1>8. QED
  BY <1>1, <1>7

-----------------------------------------------------------------------------
(* kaligned_alloc.                                                         *)

(* The list t after block k was cut into l blocks.                         *)
IsCut(t, l, k, second, third) ==
  /\ Laid(t) /\ l \in 2 .. 3 /\ Len(t) = Len(heap) - 1 + l
  /\ \A j \in 1 .. k - 1 : t[j] = heap[j]
  /\ t[k + l - 2] = second /\ t[k + l - 1] = third
  /\ \A j \in k .. k + l - 1 : j # k + l - 2 => t[j].free
  /\ \A j \in k .. k + l - 2 : t[j].merges <= 1
  /\ \A j \in k + 1 .. Len(heap) : t[j - 1 + l] = heap[j]

(* kaligned_alloc cuts a block.                                            *)
LEMMA Cuts ==
  ASSUME IInv, NEW size \in Sizes, NEW alignment \in Alignments, NEW k \in 1 .. Len(heap),
         HasRoom(heap[k], size, alignment)
  PROVE  \E l : IsCut(SubSeq(heap, 1, k - 1) \o InFront(heap[k], alignment)
                        \o <<Second(heap[k], size, alignment), Third(heap[k], size, alignment)>>
                        \o SubSeq(heap, k + 1, Len(heap)),
                      l, k, Second(heap[k], size, alignment), Third(heap[k], size, alignment))
<1>1. /\ heap \in Seq(Block) /\ Laid(heap) /\ Len(heap) \in Nat /\ k \in Nat /\ 1 <= k
      /\ k <= Len(heap) /\ size \in Nat
      /\ \A j \in 1 .. Len(heap) : heap[j] \in Block
  BY BlockFacts, LargestAssumption
<1>2. PICK b \in Block : b = heap[k] /\ Whole(b.addr) /\ HasRoom(b, size, alignment)
  BY BlockFacts
<1>3. PICK s \in Block : s = Second(b, size, alignment)
  BY <1>1, <1>2, InTheMiddle
<1>4. PICK t \in Block : t = Third(b, size, alignment)
  BY <1>1, <1>2, ThirdIs
<1>5. PICK m : /\ m = Parts(b, size, alignment) /\ InARow(m) /\ m[1].addr = b.addr /\ Len(m) \in 2 .. 3
               /\ m[Len(m)] = t /\ m[Len(m) - 1] = s
               /\ \A i \in 1 .. Len(m) - 1 : m[i].merges <= 1
               /\ \A i \in 1 .. Len(m) : i # Len(m) - 1 => m[i].free
  <2>1. \E m : m = Parts(b, size, alignment)
    OBVIOUS
  <2>2. QED
    BY <1>1, <1>2, <1>3, <1>4, <2>1, PartsAre, Zenon
<1>6. m \in Seq(Block)
  BY <1>5 DEF InARow
<1> DEFINE w == SubSeq(heap, 1, k - 1) \o m \o SubSeq(heap, k + 1, Len(heap))
<1>7. w = SubSeq(heap, 1, k - 1) \o InFront(b, alignment) \o <<s, t>>
            \o SubSeq(heap, k + 1, Len(heap))
  <2>1. InFront(b, alignment) \in Seq(Block)
    <3>1. CASE SecondAddr(b, alignment) = b.addr
      BY <3>1 DEF InFront
    <3>2. CASE SecondAddr(b, alignment) # b.addr
      <4>1. PICK f \in Block : InFront(b, alignment) = <<f>>
        BY <1>1, <1>2, <3>2, FrontIs
      <4>2. QED
        BY <4>1
    <3>3. QED
      BY <3>1, <3>2
  <2>2. <<s, t>> \in Seq(Block)
    OBVIOUS
  <2>3. SubSeq(heap, 1, k - 1) \in Seq(Block)
    <3>1. \A i \in 1 .. k - 1 : heap[i] \in Block
      BY <1>1
    <3>2. QED
      BY <1>1, <3>1, SubSeqProperties
  <2>4. (SubSeq(heap, 1, k - 1) \o InFront(b, alignment)) \o <<s, t>>
          = SubSeq(heap, 1, k - 1) \o (InFront(b, alignment) \o <<s, t>>)
    <3>1. \A x, y, z \in Seq(Block) : (x \o y) \o z = x \o (y \o z)
      BY ConcatAssociative, SMTT(30)
    <3>2. QED
      BY <2>1, <2>2, <2>3, <3>1, Zenon
  <2>5. m = InFront(b, alignment) \o <<s, t>>
    BY <1>3, <1>4, <1>5 DEF Parts
  <2>6. QED
    BY <2>4, <2>5
<1>8. Laid(w)
  <2>1. ASSUME k < Len(heap)
        PROVE  Reaches(m[Len(m)], heap[k + 1].addr)
    <3>1. k \in 1 .. Len(heap) - 1 /\ k + 1 \in 1 .. Len(heap)
      BY <1>1, <2>1
    <3>2. Reaches(b, heap[k + 1].addr) /\ heap[k + 1].addr \in Nat /\ b.merges <= 1
      BY <1>1, <1>2, <2>1, <3>1, BlockFacts DEF Laid, InARow
    <3>3. QED
      BY <1>1, <1>2, <1>4, <1>5, <3>2, ThirdReaches
  <2>2. QED
    BY <1>1, <1>2, <1>5, <2>1, LaidReplaced
<1>9. PICK l \in 2 .. 3 : l = Len(m)
  BY <1>5
<1>10. /\ Len(w) = Len(heap) - 1 + l
       /\ \A j \in 1 .. k - 1 : w[j] = heap[j]
       /\ \A j \in 1 .. l : w[k - 1 + j] = m[j]
       /\ \A j \in k + 1 .. Len(heap) : w[j - 1 + l] = heap[j]
  BY <1>1, <1>6, <1>9, Replaced, ZenonT(60)
<1> HIDE DEF w
<1>11. w[k + l - 2] = s /\ w[k + l - 1] = t
  <2>1. l \in 1 .. l /\ l - 1 \in 1 .. l /\ k - 1 + l = k + l - 1 /\ k - 1 + (l - 1) = k + l - 2
    BY <1>1, <1>9
  <2>2. w[k - 1 + l] = m[l] /\ w[k - 1 + (l - 1)] = m[l - 1]
    BY <1>10, <2>1
  <2>3. QED
    BY <1>5, <1>9, <2>1, <2>2
<1>12. ASSUME NEW j \in k .. k + l - 1
       PROVE  (j # k + l - 2 => w[j].free) /\ (j # k + l - 1 => w[j].merges <= 1)
  <2>1. PICK i \in 1 .. l : j = k - 1 + i
    <3>1. j - k + 1 \in 1 .. l /\ j = k - 1 + (j - k + 1)
      BY <1>1, <1>9
    <3>2. QED
      BY <3>1
  <2>2. w[j] = m[i]
    BY <1>10, <2>1
  <2>3. (j # k + l - 2 => i # l - 1) /\ (j # k + l - 1 => i \in 1 .. l - 1)
    <3>1. k - 1 + (l - 1) = k + l - 2 /\ k - 1 + l = k + l - 1 /\ i \in Int /\ l \in Int
      BY <1>1, <1>9
    <3>2. i # l => i \in 1 .. l - 1
      BY <1>9
    <3>3. QED
      BY <2>1, <3>1, <3>2, Zenon
  <2>4. QED
    BY <1>5, <1>9, <2>2, <2>3
<1>13. \A j \in k .. k + l - 2 : j \in k .. k + l - 1 /\ j # k + l - 1
  BY <1>1, <1>9
<1>14. IsCut(w, l, k, s, t)
  BY <1>8, <1>9, <1>10, <1>11, <1>12, <1>13 DEF IsCut
<1>15. QED
  BY <1>2, <1>3, <1>4, <1>7, <1>14 DEF w

(* The blocks of the list after the cut.                                   *)
LEMMA CutBlocks ==
  ASSUME IInv, NEW k \in 1 .. Len(heap), NEW t, NEW l, NEW second, NEW third,
         IsCut(t, l, k, second, third), NEW j \in 1 .. Len(t)
  PROVE  \/ j \in 1 .. k - 1 /\ t[j] = heap[j]
         \/ j = k + l - 2 /\ t[j] = second
         \/ j \in {k, k + l - 1} /\ t[j].free
         \/ \E i \in k + 1 .. Len(heap) : j = i - 1 + l /\ t[j] = heap[i]
<1>1. /\ Len(heap) \in Nat /\ k \in Nat /\ 1 <= k /\ k <= Len(heap) /\ l \in 2 .. 3
      /\ Len(t) = Len(heap) - 1 + l
  BY BlockFacts DEF IsCut
<1>2. CASE j \in 1 .. k - 1
  BY <1>2 DEF IsCut
<1>3. CASE j = k + l - 2
  BY <1>3 DEF IsCut
<1>4. CASE j \in {k, k + l - 1} /\ j # k + l - 2
  <2>1. j \in k .. k + l - 1
    BY <1>1, <1>4
  <2>2. QED
    BY <1>4, <2>1 DEF IsCut
<1>5. CASE j \in k + l .. Len(t)
  <2>1. PICK i \in k + 1 .. Len(heap) : j = i - 1 + l
    <3>1. j + 1 - l \in k + 1 .. Len(heap) /\ j = (j + 1 - l) - 1 + l
      BY <1>1, <1>5
    <3>2. QED
      BY <3>1
  <2>2. t[j] = heap[i]
    BY <2>1 DEF IsCut
  <2>3. QED
    BY <2>1, <2>2
<1>6. QED
  BY <1>1, <1>2, <1>3, <1>4, <1>5

(* No two free blocks side by side after the cut.                          *)
LEMMA CutAlternates ==
  ASSUME IInv, NEW k \in 1 .. Len(heap), heap[k].free, NEW t, NEW l, NEW second, NEW third,
         ~ second.free, IsCut(t, l, k, second, third), NEW j \in 1 .. Len(t) - 1
  PROVE  ~ (t[j].free /\ t[j + 1].free)
<1>1. /\ Len(heap) \in Nat /\ k \in Nat /\ 1 <= k /\ k <= Len(heap) /\ l \in 2 .. 3
      /\ Len(t) = Len(heap) - 1 + l
  BY BlockFacts DEF IsCut
<1>2. \A i \in 1 .. Len(heap) - 1 : ~ (heap[i].free /\ heap[i + 1].free)
  BY DEF IInv, Alternating
<1>3. CASE j + 1 \in 1 .. k - 1
  <2>1. j \in 1 .. k - 1 /\ j \in 1 .. Len(heap) - 1
    BY <1>1, <1>3
  <2>2. t[j] = heap[j] /\ t[j + 1] = heap[j + 1]
    BY <1>3, <2>1 DEF IsCut
  <2>3. QED
    BY <1>2, <2>1, <2>2
<1>4. CASE j + 1 = k
  <2>1. j \in 1 .. k - 1 /\ j \in 1 .. Len(heap) - 1
    BY <1>1, <1>4
  <2>2. t[j] = heap[j]
    BY <2>1 DEF IsCut
  <2>3. QED
    BY <1>2, <1>4, <2>1, <2>2
<1>5. CASE j \in k .. k + l - 2
  <2>1. j = k + l - 2 \/ j + 1 = k + l - 2
    BY <1>1, <1>5
  <2>2. QED
    BY <2>1 DEF IsCut
<1>6. CASE j = k + l - 1
  <2>1. k \in 1 .. Len(heap) - 1 /\ k + 1 \in k + 1 .. Len(heap) /\ j + 1 = (k + 1) - 1 + l
    BY <1>1, <1>6
  <2>2. t[j + 1] = heap[k + 1]
    BY <2>1 DEF IsCut
  <2>3. QED
    BY <1>2, <2>1, <2>2
<1>7. CASE j \in k + l .. Len(t) - 1
  <2>1. PICK i \in k + 1 .. Len(heap) - 1 : j = i - 1 + l
    <3>1. j + 1 - l \in k + 1 .. Len(heap) - 1 /\ j = (j + 1 - l) - 1 + l
      BY <1>1, <1>7
    <3>2. QED
      BY <3>1
  <2>2. /\ i \in k + 1 .. Len(heap) /\ i + 1 \in k + 1 .. Len(heap) /\ j + 1 = (i + 1) - 1 + l
        /\ i \in 1 .. Len(heap) - 1
    BY <1>1, <2>1
  <2>3. t[j] = heap[i] /\ t[j + 1] = heap[i + 1]
    BY <2>1, <2>2 DEF IsCut
  <2>4. QED
    BY <1>2, <2>2, <2>3
<1>8. QED
  BY <1>1, <1>3, <1>4, <1>5, <1>6, <1>7

(* The last block after the cut, and the miscounts of the other ones.      *)
LEMMA CutEnds ==
  ASSUME IInv, NEW k \in 1 .. Len(heap), NEW t, NEW l, NEW second, NEW third,
         third.free, third.addr + HEADER <= TOTAL, third.merges = heap[k].merges,
         IsCut(t, l, k, second, third)
  PROVE  /\ t[Len(t)].free /\ t[Len(t)].addr + HEADER <= TOTAL
         /\ \A j \in 1 .. Len(t) - 1 : t[j].merges <= 1
<1>1. /\ Len(heap) \in Nat /\ k \in Nat /\ 1 <= k /\ k <= Len(heap) /\ l \in 2 .. 3
      /\ Len(t) = Len(heap) - 1 + l /\ heap[Len(heap)].free /\ heap # <<>>
  BY BlockFacts DEF IsCut
<1>2. t[Len(t)].free /\ t[Len(t)].addr + HEADER <= TOTAL
  <2>1. CASE k = Len(heap)
    <3>1. Len(t) = k + l - 1
      BY <1>1, <2>1
    <3>2. t[Len(t)] = third
      BY <3>1 DEF IsCut
    <3>3. QED
      BY <3>2
  <2>2. CASE k # Len(heap)
    <3>1. Len(heap) \in k + 1 .. Len(heap) /\ Len(t) = Len(heap) - 1 + l
      BY <1>1, <2>2
    <3>2. t[Len(t)] = heap[Len(heap)]
      BY <3>1 DEF IsCut
    <3>3. heap[Len(heap)].addr + HEADER <= TOTAL
      BY <1>1 DEF IInv, TailInv
    <3>4. QED
      BY <1>1, <3>2, <3>3
  <2>3. QED
    BY <2>1, <2>2
<1>3. \A i \in 1 .. Len(heap) - 1 : heap[i].merges <= 1
  BY <1>1 DEF IInv, LaidInv
<1>4. ASSUME NEW j \in 1 .. Len(t) - 1
      PROVE  t[j].merges <= 1
  <2>1. CASE j \in 1 .. k - 1
    <3>1. j \in 1 .. Len(heap) - 1
      BY <1>1, <2>1
    <3>2. QED
      BY <1>3, <2>1, <3>1 DEF IsCut
  <2>2. CASE j \in k .. k + l - 2
    BY <2>2 DEF IsCut
  <2>3. CASE j = k + l - 1
    <3>1. k \in 1 .. Len(heap) - 1
      BY <1>1, <2>3
    <3>2. t[j] = third
      BY <2>3 DEF IsCut
    <3>3. QED
      BY <1>3, <3>1, <3>2
  <2>4. CASE j \in k + l .. Len(t) - 1
    <3>1. PICK i \in k + 1 .. Len(heap) - 1 : j = i - 1 + l
      <4>1. j + 1 - l \in k + 1 .. Len(heap) - 1 /\ j = (j + 1 - l) - 1 + l
        BY <1>1, <2>4
      <4>2. QED
        BY <4>1
    <3>2. i \in k + 1 .. Len(heap) /\ i \in 1 .. Len(heap) - 1
      BY <1>1, <3>1
    <3>3. t[j] = heap[i]
      BY <3>1, <3>2 DEF IsCut
    <3>4. QED
      BY <1>3, <3>2, <3>3
  <2>5. QED
    BY <1>1, <2>1, <2>2, <2>3, <2>4
<1>5. QED
  BY <1>2, <1>4

(* Blocks of a list have different data.                                   *)
LEMMA Apart ==
  ASSUME NEW s, Laid(s), NEW i \in 1 .. Len(s), NEW j \in 1 .. Len(s), Data(s[i]) = Data(s[j])
  PROVE  i = j
<1>1. /\ s \in Seq(Block) /\ Len(s) \in Nat /\ HEADER \in Nat \ {0}
      /\ s[i].addr \in Nat /\ s[j].addr \in Nat
      /\ Data(s[i]) = s[i].addr + HEADER /\ Data(s[j]) = s[j].addr + HEADER
  BY BlocksOf, Consts DEF Laid, InARow
<1>2. s[i].addr = s[j].addr
  <2>1. s[i].addr + HEADER = s[j].addr + HEADER
    BY <1>1, Zenon
  <2>2. QED
    BY <1>1, <2>1
<1>3. i < j => s[i].addr + HEADER <= s[j].addr
  BY InOrder
<1>4. j < i => s[j].addr + HEADER <= s[i].addr
  BY InOrder
<1>5. i < j \/ j < i \/ i = j
  BY <1>1
<1>6. QED
  BY <1>1, <1>2, <1>3, <1>4, <1>5

(* The other blocks are still there after the cut.                         *)
LEMMA CutKeeps ==
  ASSUME IInv, NEW k \in 1 .. Len(heap), NEW t, NEW l, NEW second, NEW third,
         IsCut(t, l, k, second, third), NEW i \in 1 .. Len(heap), i # k
  PROVE  \E j \in 1 .. Len(t) : j # k + l - 2 /\ t[j] = heap[i]
<1>1. /\ Len(heap) \in Nat /\ k \in Nat /\ 1 <= k /\ k <= Len(heap) /\ l \in 2 .. 3
      /\ Len(t) = Len(heap) - 1 + l
  BY BlockFacts DEF IsCut
<1>2. CASE i < k
  <2>1. i \in 1 .. k - 1 /\ i \in 1 .. Len(t) /\ i # k + l - 2
    BY <1>1, <1>2
  <2>2. t[i] = heap[i]
    BY <2>1 DEF IsCut
  <2>3. QED
    BY <2>1, <2>2
<1>3. CASE k < i
  <2>1. i \in k + 1 .. Len(heap) /\ i - 1 + l \in 1 .. Len(t) /\ i - 1 + l # k + l - 2
    BY <1>1, <1>3
  <2>2. t[i - 1 + l] = heap[i]
    BY <2>1 DEF IsCut
  <2>3. QED
    BY <2>1, <2>2
<1>4. i < k \/ k < i
  BY <1>1
<1>5. QED
  BY <1>2, <1>3, <1>4

(* What kaligned_alloc does to block k.                                    *)
Takes(k, size, alignment) ==
  LET second == Second(heap[k], size, alignment)
      asked == [size |-> size, alignment |-> alignment]
  IN  /\ FirstFit(k, size, alignment)
      /\ heap' = SubSeq(heap, 1, k - 1) \o InFront(heap[k], alignment)
                   \o <<second, Third(heap[k], size, alignment)>>
                   \o SubSeq(heap, k + 1, Len(heap))
      /\ held' = [p \in DOMAIN held \union {Data(second)} |->
                    IF p = Data(second) THEN asked ELSE held[p]]

(* A new piece is handed out.                                              *)
Hands(p, size, alignment) ==
  /\ p \in Nat /\ p % alignment = 0 /\ p \notin DOMAIN held
  /\ held' = [q \in DOMAIN held \union {p} |->
                IF q = p THEN [size |-> size, alignment |-> alignment] ELSE held[q]]

(* Cutting a block keeps the invariant.                                    *)
LEMMA TakesKeeps ==
  ASSUME IInv, NEW size \in Sizes, size # 0, NEW alignment \in Alignments,
         NEW k \in 1 .. Len(heap), Takes(k, size, alignment), Cardinality(DOMAIN held) < MaxHeld
  PROVE  IInv' /\ \E p \in Nat : Hands(p, size, alignment)
<1>1. /\ FirstFit(k, size, alignment) /\ HasRoom(heap[k], size, alignment) /\ heap[k].free
      /\ size \in Nat /\ alignment \in Nat \ {0}
  BY LargestAssumption DEF Takes, FirstFit, HasRoom
<1>2. PICK b \in Block : b = heap[k] /\ Whole(b.addr) /\ HasRoom(b, size, alignment)
  BY <1>1, BlockFacts
<1>3. PICK s \in Block : /\ s = Second(b, size, alignment) /\ ~ s.free /\ s.size = size
                         /\ Data(s) % alignment = 0 /\ Data(s) \in Nat
  BY <1>1, <1>2, InTheMiddle
<1>4. PICK r \in Block : /\ r = Third(b, size, alignment) /\ r.free /\ r.merges = b.merges
                         /\ r.addr + HEADER <= TOTAL
  <2>1. Third(b, size, alignment).addr + HEADER <= TOTAL
    BY <1>1, <1>2, ThirdInside
  <2>2. QED
    BY <1>1, <1>2, <2>1, ThirdIs
<1>5. PICK p \in Nat : p = Data(s)
  BY <1>3
<1>6. PICK t, l : heap' = t /\ IsCut(t, l, k, s, r)
  <2>1. \E l : IsCut(SubSeq(heap, 1, k - 1) \o InFront(b, alignment) \o <<s, r>>
                       \o SubSeq(heap, k + 1, Len(heap)), l, k, s, r)
    BY <1>1, <1>2, <1>3, <1>4, Cuts
  <2>2. heap' = SubSeq(heap, 1, k - 1) \o InFront(b, alignment) \o <<s, r>>
                       \o SubSeq(heap, k + 1, Len(heap))
    BY <1>2, <1>3, <1>4 DEF Takes
  <2>3. QED
    BY <2>1, <2>2
<1>7. held' = [q \in DOMAIN held \union {p} |->
                IF q = p THEN [size |-> size, alignment |-> alignment] ELSE held[q]]
  BY <1>2, <1>3, <1>5, Zenon DEF Takes
<1>8. PICK m \in 1 .. Len(t) : m = k + l - 2 /\ t[m] = s
  <2>1. /\ Len(heap) \in Nat /\ k \in Nat /\ 1 <= k /\ k <= Len(heap) /\ l \in 2 .. 3
        /\ Len(t) = Len(heap) - 1 + l /\ t[k + l - 2] = s
    BY <1>6, BlockFacts DEF IsCut
  <2>2. k + l - 2 \in 1 .. Len(t)
    BY <2>1
  <2>3. QED
    BY <2>1, <2>2
<1>9. t \in Seq(Block) /\ Laid(t) /\ t # <<>> /\ DOMAIN t = 1 .. Len(t)
  <2>1. Laid(t)
    BY <1>6 DEF IsCut
  <2>2. t \in Seq(Block) /\ t # <<>>
    BY <2>1 DEF Laid, InARow
  <2>3. QED
    BY <2>1, <2>2, BlocksOf
<1>10. \A i \in 1 .. Len(heap) : i # k => \E j \in 1 .. Len(t) : j # m /\ t[j] = heap[i]
  BY <1>6, <1>8, CutKeeps
<1>11. ASSUME NEW q \in DOMAIN held
       PROVE  /\ \E j \in 1 .. Len(t) : j # m /\ Data(t[j]) = q /\ ~ t[j].free /\ t[j].size = held[q].size
              /\ q # p
  <2>1. PICK i \in 1 .. Len(heap) :
          Data(heap[i]) = q /\ ~ heap[i].free /\ heap[i].size = held[q].size
    BY <1>11 DEF IInv, HeldInv
  <2>2. i # k
    BY <1>1, <2>1
  <2>3. PICK j \in 1 .. Len(t) : j # m /\ t[j] = heap[i]
    BY <1>10, <2>2
  <2>4. q # p
    <3>1. ASSUME q = p
          PROVE  FALSE
      <4>1. Data(t[j]) = Data(t[m])
        BY <1>5, <1>8, <2>1, <2>3, <3>1
      <4>2. QED
        BY <1>9, <2>3, <4>1, Apart
    <3>2. QED
      BY <3>1
  <2>5. QED
    BY <2>1, <2>3, <2>4
<1>12. p \notin DOMAIN held
  BY <1>11
<1>13. DOMAIN held' = DOMAIN held \union {p} /\ held'[p] = [size |-> size, alignment |-> alignment]
       /\ \A q \in DOMAIN held : held'[q] = held[q]
  BY <1>7, <1>12
<1>14. TypeOK'
  <2>1. ASSUME NEW q \in DOMAIN held'
        PROVE  \E j \in 1 .. Len(t) : Data(t[j]) = q
    BY <1>5, <1>8, <1>11, <1>13, <2>1
  <2>2. DOMAIN held' \subseteq {Data(t[j]) : j \in DOMAIN t}
    BY <1>9, <2>1
  <2>3. [size |-> size, alignment |-> alignment] \in [size : Sizes \ {0}, alignment : Alignments]
    OBVIOUS
  <2>4. ASSUME NEW q \in DOMAIN held'
        PROVE  held'[q] \in [size : Sizes \ {0}, alignment : Alignments]
    <3>1. CASE q = p
      BY <1>13, <2>3, <3>1
    <3>2. CASE q \in DOMAIN held
      <4>1. held[q] \in [size : Sizes \ {0}, alignment : Alignments]
        BY <3>2 DEF IInv, TypeOK
      <4>2. QED
        BY <1>13, <3>2, <4>1
    <3>3. QED
      BY <1>13, <2>4, <3>1, <3>2
  <2>5. QED
    BY <1>6, <1>9, <2>2, <2>4 DEF TypeOK
<1>15. t[Len(t)].free /\ t[Len(t)].addr + HEADER <= TOTAL /\ \A j \in 1 .. Len(t) - 1 : t[j].merges <= 1
  BY <1>2, <1>4, <1>6, CutEnds
<1>16. LaidInv' /\ TailInv'
  BY <1>6, <1>9, <1>15 DEF LaidInv, TailInv
<1>17. Alternating'
  BY <1>1, <1>3, <1>6, CutAlternates DEF Alternating
<1>18. HeldInv'
  <2>1. IsFiniteSet(DOMAIN held')
    <3>1. IsFiniteSet(DOMAIN held)
      BY DEF IInv, HeldInv
    <3>2. QED
      BY <1>13, <3>1, FS_AddElement
  <2>2. ASSUME NEW q \in DOMAIN held'
        PROVE  \E j \in 1 .. Len(t) : Data(t[j]) = q /\ ~ t[j].free /\ t[j].size = held'[q].size
    <3>1. CASE q = p
      BY <1>3, <1>5, <1>8, <1>13, <3>1
    <3>2. CASE q \in DOMAIN held
      BY <1>11, <1>13, <3>2
    <3>3. QED
      BY <1>13, <2>2, <3>1, <3>2
  <2>3. ASSUME NEW j \in 1 .. Len(t), ~ t[j].free
        PROVE  Data(t[j]) \in DOMAIN held'
    <3>1. \/ j \in 1 .. k - 1 /\ t[j] = heap[j]
          \/ j = k + l - 2 /\ t[j] = s
          \/ \E i \in k + 1 .. Len(heap) : t[j] = heap[i]
      BY <1>6, <2>3, CutBlocks, SMTT(30)
    <3>2. CASE j = k + l - 2 /\ t[j] = s
      BY <1>5, <1>13, <3>2
    <3>3. ASSUME NEW i \in 1 .. Len(heap), t[j] = heap[i]
          PROVE  Data(t[j]) \in DOMAIN held'
      <4>1. Data(heap[i]) \in DOMAIN held
        BY <2>3, <3>3, InUse
      <4>2. QED
        BY <1>13, <3>3, <4>1
    <3>4. k \in Nat /\ 1 <= k /\ k <= Len(heap) /\ Len(heap) \in Nat
      BY BlockFacts
    <3>5. 1 .. k - 1 \subseteq 1 .. Len(heap) /\ k + 1 .. Len(heap) \subseteq 1 .. Len(heap)
      BY <3>4
    <3>6. QED
      BY <3>1, <3>2, <3>3, <3>5
  <2>4. QED
    BY <1>6, <2>1, <2>2, <2>3 DEF HeldInv
<1>19. Hands(p, size, alignment)
  BY <1>3, <1>5, <1>7, <1>12 DEF Hands
<1>20. QED
  BY <1>14, <1>16, <1>17, <1>18, <1>19 DEF IInv

(* kaligned_alloc keeps the invariant, and hands out a new piece or        *)
(* nothing.                                                                *)
LEMMA AllocatesIInv ==
  ASSUME IInv, NEW size \in Sizes, NEW alignment \in Alignments,
         kaligned_alloc(size, alignment), Cardinality(DOMAIN held) < MaxHeld
  PROVE  IInv' /\ (UNCHANGED vars \/ (size # 0 /\ \E p \in Nat : Hands(p, size, alignment)))
<1>1. heap \in Seq(Block) /\ DOMAIN heap = 1 .. Len(heap)
  BY BlocksOf DEF IInv, TypeOK
<1>2. (size # 0 /\ \E k \in 1 .. Len(heap) : Takes(k, size, alignment)) \/ UNCHANGED vars
  BY <1>1, Zenon DEF kaligned_alloc, Takes
<1>3. CASE UNCHANGED vars
  <2>1. IInv'
    BY <1>3 DEF vars, IInv, TypeOK, LaidInv, HeldInv, TailInv, Alternating
  <2>2. QED
    BY <1>3, <2>1
<1>4. CASE size # 0 /\ \E k \in 1 .. Len(heap) : Takes(k, size, alignment)
  BY <1>4, TakesKeeps
<1>5. QED
  BY <1>2, <1>3, <1>4

-----------------------------------------------------------------------------
(* kfree.                                                                  *)

(* A list with one block marked as free lies where it has been.            *)
LEMMA Freed ==
  ASSUME IInv, NEW k \in 1 .. Len(heap)
  PROVE  LET t == [heap EXCEPT ![k].free = TRUE]
         IN  /\ Laid(t) /\ Len(t) = Len(heap) /\ t[k].free /\ t[k].addr = heap[k].addr
             /\ \A i \in 1 .. Len(heap) : i # k => t[i] = heap[i]
<1>1. /\ heap \in Seq(Block) /\ Laid(heap) /\ Len(heap) \in Nat /\ k \in Nat /\ 1 <= k
      /\ k <= Len(heap) /\ DOMAIN heap = 1 .. Len(heap) /\ heap # <<>>
  BY BlockFacts, BlocksOf
<1>2. PICK b \in Block : b = heap[k]
  BY BlockFacts
<1>3. PICK c : c = [b EXCEPT !.free = TRUE]
  OBVIOUS
<1>4. /\ c \in Block /\ c.addr = b.addr /\ c.size = b.size /\ c.merges = b.merges /\ c.free
      /\ Data(c) = Data(b)
  BY <1>3 DEF Block, Data
<1>5. PICK t : t = [heap EXCEPT ![k].free = TRUE]
  OBVIOUS
<1>6. t = [heap EXCEPT ![k] = c]
  BY <1>2, <1>3, <1>5
<1>7. t \in Seq(Block) /\ Len(t) = Len(heap) /\ t[k] = c
      /\ \A i \in 1 .. Len(heap) : i # k => t[i] = heap[i]
  <2>1. t \in Seq(Block) /\ Len(t) = Len(heap)
        /\ \A i \in 1 .. Len(heap) : t[i] = IF i = k THEN c ELSE heap[i]
    BY <1>1, <1>4, <1>6, ExceptSeq
  <2>2. QED
    BY <1>1, <2>1
<1>8. \A i \in 1 .. Len(heap) : t[i].addr = heap[i].addr
  BY <1>2, <1>4, <1>7
<1>9. Laid(t)
  <2>1. t # <<>>
    <3>1. 1 <= Len(t)
      BY <1>1, <1>7
    <3>2. QED
      BY <1>7, <3>1, BlocksOf
  <2>2. \A i \in 1 .. Len(t) : Whole(t[i].addr)
    BY <1>1, <1>7, <1>8 DEF Laid, InARow
  <2>3. ASSUME NEW i \in 1 .. Len(t) - 1
        PROVE  Reaches(t[i], t[i + 1].addr)
    <3>1. i \in 1 .. Len(heap) /\ i + 1 \in 1 .. Len(heap) /\ i \in 1 .. Len(heap) - 1
      BY <1>1, <1>7
    <3>2. Reaches(heap[i], heap[i + 1].addr) /\ t[i + 1].addr = heap[i + 1].addr
      BY <1>1, <1>8, <3>1 DEF Laid, InARow
    <3>3. CASE i # k
      BY <1>7, <3>1, <3>2, <3>3
    <3>4. CASE i = k
      <4>1. PICK end \in Nat : end = heap[i + 1].addr
        BY <3>1, BlockFacts
      <4>2. Reaches(b, end)
        BY <1>2, <3>2, <3>4, <4>1
      <4>3. Excess(c, end) = Excess(b, end)
        BY <1>4 DEF Excess
      <4>4. Reaches(c, end)
        BY <1>4, <4>2, <4>3 DEF Reaches
      <4>5. QED
        BY <1>7, <3>2, <3>4, <4>1, <4>4
    <3>5. QED
      BY <3>3, <3>4
  <2>4. t[1].addr = 0
    <3>1. 1 \in 1 .. Len(heap)
      BY <1>1
    <3>2. QED
      BY <1>1, <1>8, <3>1 DEF Laid
  <2>5. QED
    BY <1>7, <2>1, <2>2, <2>3, <2>4 DEF Laid, InARow
<1>10. QED
  BY <1>2, <1>4, <1>5, <1>7, <1>9

(* kfree keeps the invariant, and takes back the piece or does nothing.    *)
LEMMA FreesIInv ==
  ASSUME IInv, NEW ptr \in DOMAIN held \union {NULL}, kfree(ptr)
  PROVE  /\ IInv'
         /\ \/ UNCHANGED vars
            \/ ptr \in DOMAIN held /\ held' = [p \in DOMAIN held \ {ptr} |-> held[p]]
<1>1. heap \in Seq(Block) /\ DOMAIN heap = 1 .. Len(heap)
  BY BlocksOf DEF IInv, TypeOK
<1>2. CASE UNCHANGED vars
  <2>1. IInv'
    BY <1>2 DEF vars, IInv, TypeOK, LaidInv, HeldInv, TailInv, Alternating
  <2>2. QED
    BY <1>2, <2>1
<1>3. ASSUME NEW k \in 1 .. Len(heap), Data(heap[k]) = ptr,
             heap' = MergeAll([heap EXCEPT ![k].free = TRUE]), Bounded(heap'),
             held' = [p \in DOMAIN held \ {ptr} |-> held[p]]
      PROVE  IInv' /\ ptr \in DOMAIN held
  <2>1. PICK s : /\ s = [heap EXCEPT ![k].free = TRUE] /\ Laid(s) /\ Len(s) = Len(heap) /\ s[k].free
                 /\ s[k].addr = heap[k].addr
                 /\ \A i \in 1 .. Len(heap) : i # k => s[i] = heap[i]
    <3>1. \E s : s = [heap EXCEPT ![k].free = TRUE]
      OBVIOUS
    <3>2. QED
      BY <3>1, Freed, Zenon
  <2>2. PICK t : heap' = t /\ Chained(t, s, Len(s))
    BY <1>3, <2>1, Merging
  <2>3. /\ Len(heap) \in Nat /\ k \in Nat /\ 1 <= k /\ k <= Len(heap) /\ heap[Len(heap)].free
        /\ heap # <<>> /\ Len(heap) \in 1 .. Len(heap)
    BY BlockFacts
  <2>4. ptr \in DOMAIN held
    <3>1. Data(heap[k]) \in Nat
      BY BlockFacts, Consts
    <3>2. ptr # NULL
      BY <1>3, <3>1 DEF NULL
    <3>3. QED
      BY <3>2
  <2>5. t \in Seq(Block) /\ Laid(t) /\ t # <<>> /\ DOMAIN t = 1 .. Len(t) /\ Len(t) \in Nat
    <3>1. Laid(t)
      BY <2>2 DEF Chained
    <3>2. t \in Seq(Block) /\ t # <<>>
      BY <3>1 DEF Laid, InARow
    <3>3. QED
      BY <3>1, <3>2, BlocksOf
  <2>6. t[Len(t)].free /\ t[Len(t)].addr + HEADER <= TOTAL
    <3>1. s[Len(heap)].free /\ s[Len(heap)].addr = heap[Len(heap)].addr
      BY <2>1, <2>3
    <3>2. t[Len(t)].free = s[Len(heap)].free /\ t[Len(t)].addr <= s[Len(heap)].addr
      BY <2>1, <2>2 DEF Chained
    <3>3. heap[Len(heap)].addr + HEADER <= TOTAL
      BY <2>3 DEF IInv, TailInv
    <3>4. t[Len(t)].addr \in Nat /\ heap[Len(heap)].addr \in Nat /\ HEADER \in Nat /\ TOTAL \in Nat
      <4>1. 1 <= Len(t) /\ Len(t) \in Nat
        BY <2>5, BlocksOf
      <4>2. Len(t) \in 1 .. Len(t)
        BY <4>1
      <4>3. QED
        BY <2>3, <2>5, <4>2, BlocksOf, BlockFacts, Consts
    <3>5. QED
      BY <3>1, <3>2, <3>3, <3>4, SMTT(30)
  <2>7. \A i \in 1 .. Len(t) - 1 : t[i].merges <= 1
    <3>1. ASSUME NEW i \in 1 .. Len(t) - 1
          PROVE  t[i].merges <= 1
      <4>1. i \in DOMAIN t /\ i # Len(t) /\ t[i].merges \in Nat
        BY <2>5, BlocksOf
      <4>2. t[i].merges <= MaxMerges
        BY <1>3, <2>2, <4>1 DEF Bounded
      <4>3. QED
        BY <4>1, <4>2, Consts
    <3>2. QED
      BY <3>1
  <2>8. LaidInv' /\ TailInv' /\ Alternating'
    BY <2>2, <2>5, <2>6, <2>7 DEF LaidInv, TailInv, Alternating, Chained
  <2>9. DOMAIN held' = DOMAIN held \ {ptr} /\ \A p \in DOMAIN held \ {ptr} : held'[p] = held[p]
    BY <1>3
  <2>10. ASSUME NEW p \in DOMAIN held'
         PROVE  \E j \in 1 .. Len(t) : Data(t[j]) = p /\ ~ t[j].free /\ t[j].size = held'[p].size
    <3>1. p \in DOMAIN held /\ p # ptr /\ held'[p] = held[p]
      BY <2>9, <2>10
    <3>2. PICK i \in 1 .. Len(heap) :
            Data(heap[i]) = p /\ ~ heap[i].free /\ heap[i].size = held[p].size
      BY <3>1 DEF IInv, HeldInv
    <3>3. s[i] = heap[i]
      BY <1>3, <2>1, <3>1, <3>2
    <3>4. PICK j \in 1 .. Len(t) : t[j] = s[i]
      BY <2>1, <2>2, <3>2, <3>3 DEF Chained
    <3>5. QED
      BY <3>1, <3>2, <3>3, <3>4
  <2>11. ASSUME NEW j \in 1 .. Len(t), ~ t[j].free
         PROVE  Data(t[j]) \in DOMAIN held'
    <3>1. PICK i \in 1 .. Len(heap) : s[i] = t[j]
      BY <2>1, <2>2, <2>11 DEF Chained
    <3>2. i # k
      BY <2>1, <2>11, <3>1
    <3>3. t[j] = heap[i]
      BY <2>1, <3>1, <3>2
    <3>4. Data(heap[i]) \in DOMAIN held
      BY <2>11, <3>3, InUse
    <3>5. Data(heap[i]) # ptr
      BY <1>3, <3>2, BlockFacts
    <3>6. QED
      BY <2>9, <3>3, <3>4, <3>5
  <2>12. HeldInv'
    <3>1. IsFiniteSet(DOMAIN held')
      <4>1. IsFiniteSet(DOMAIN held)
        BY DEF IInv, HeldInv
      <4>2. DOMAIN held' \subseteq DOMAIN held
        BY <2>9
      <4>3. QED
        BY <4>1, <4>2, FS_Subset
    <3>2. QED
      BY <2>2, <2>10, <2>11, <3>1 DEF HeldInv
  <2>13. TypeOK'
    <3>1. DOMAIN held' \subseteq {Data(t[j]) : j \in DOMAIN t}
      BY <2>5, <2>10
    <3>2. ASSUME NEW p \in DOMAIN held'
          PROVE  held'[p] \in [size : Sizes \ {0}, alignment : Alignments]
      <4>1. p \in DOMAIN held /\ held'[p] = held[p]
        BY <2>9, <3>2
      <4>2. QED
        BY <4>1 DEF IInv, TypeOK
    <3>3. QED
      BY <2>2, <2>5, <3>1, <3>2 DEF TypeOK
  <2>14. QED
    BY <2>4, <2>8, <2>12, <2>13 DEF IInv
<1>4. QED
  BY <1>1, <1>2, <1>3 DEF kfree

-----------------------------------------------------------------------------
(* The specification.                                                      *)

(* The invariant holds at first.                                           *)
LEMMA InitIInv ==
  ASSUME Init
  PROVE  IInv
<1>1. held = [p \in {} |-> 0] /\ (heap = <<>> \/ heap = <<FirstBlock>>)
  BY DEF Init
<1>2. DOMAIN held = {}
  BY <1>1
<1>3. IsFiniteSet(DOMAIN held)
  BY <1>2, FS_EmptySet
<1>4. CASE heap = <<>>
  <2>1. Len(heap) = 0 /\ heap \in Seq(Block)
    BY <1>4
  <2>2. QED
    BY <1>2, <1>3, <1>4, <2>1 DEF IInv, TypeOK, LaidInv, HeldInv, TailInv, Alternating
<1>5. CASE heap = <<FirstBlock>>
  <2>1. PICK b : b = FirstBlock
    OBVIOUS
  <2>2. b = [addr |-> 0, size |-> TOTAL - HEADER, free |-> TRUE, merges |-> 0]
    BY <2>1 DEF FirstBlock
  <2>3. TOTAL - HEADER \in Nat /\ TOTAL \in Nat /\ HEADER \in Nat /\ 0 + HEADER <= TOTAL
    BY Consts
  <2>4. b \in Block /\ b.addr = 0 /\ b.free
    BY <2>2, <2>3 DEF Block
  <2>5. Whole(0)
    <3>1. 0 = POINTER * 0
      BY Consts
    <3>2. QED
      BY <3>1 DEF Whole
  <2>6. heap \in Seq(Block) /\ Len(heap) = 1 /\ heap[1] = b /\ heap # <<>>
    BY <1>5, <2>1, <2>4
  <2>7. Laid(heap)
    <3>1. \A i \in 1 .. 1 : i = 1
      OBVIOUS
    <3>2. QED
      BY <2>4, <2>5, <2>6, <3>1 DEF Laid, InARow
  <2>8. QED
    <3>1. \A i \in 1 .. Len(heap) : heap[i].free
      BY <2>4, <2>6
    <3>2. TypeOK /\ LaidInv
      BY <1>2, <2>4, <2>6, <2>7 DEF TypeOK, LaidInv
    <3>3. HeldInv /\ Alternating
      BY <1>2, <1>3, <2>6, <3>1 DEF HeldInv, Alternating
    <3>4. TailInv
      BY <2>3, <2>4, <2>6 DEF TailInv
    <3>5. QED
      BY <3>2, <3>3, <3>4 DEF IInv
<1>6. QED
  BY <1>1, <1>4, <1>5

(* Every step keeps it.                                                    *)
LEMMA NextIInv ==
  ASSUME IInv, [Next]_vars
  PROVE  IInv'
<1>1. CASE UNCHANGED vars
  BY <1>1 DEF vars, IInv, TypeOK, LaidInv, HeldInv, TailInv, Alternating
<1>2. ASSUME NEW size \in Sizes, NEW alignment \in Alignments,
             Cardinality(DOMAIN held) < MaxHeld, kaligned_alloc(size, alignment)
      PROVE  IInv'
  BY <1>2, AllocatesIInv
<1>3. ASSUME NEW ptr \in DOMAIN held \union {NULL}, kfree(ptr)
      PROVE  IInv'
  BY <1>3, FreesIInv
<1>4. QED
  BY <1>1, <1>2, <1>3 DEF Next

(* The invariant: the blocks lie one behind the other from the beginning   *)
(* of the heap, holes and pieces in use in turns, the pieces in use are    *)
(* those that callers hold, and the last header is inside the heap.        *)
THEOREM Invariance == Spec => []IInv
<1>1. Init => IInv
  BY InitIInv
<1>2. IInv /\ [Next]_vars => IInv'
  BY NextIInv
<1>3. QED
  BY <1>1, <1>2, PTL DEF Spec

(* The list holds blocks, and callers hold pieces that are in the list and *)
(* of a size and an alignment that they may ask for.                       *)
THEOREM TypeCorrect == Spec => []TypeOK
<1>1. IInv => TypeOK
  BY DEF IInv
<1>2. QED
  BY <1>1, Invariance, PTL

(* The piece at p.                                                         *)
LEMMA PieceIs ==
  ASSUME IInv, NEW p \in DOMAIN held
  PROVE  \E i \in 1 .. Len(heap) :
           /\ p = heap[i].addr + HEADER /\ p \in Nat /\ held[p].size \in Nat
           /\ ~ heap[i].free /\ i < Len(heap)
           /\ \A k \in 1 .. Len(heap) :
                /\ i < k => p + held[p].size <= heap[k].addr
                /\ k <= i => heap[k].addr + HEADER <= p
<1>1. PICK i \in 1 .. Len(heap) :
        Data(heap[i]) = p /\ ~ heap[i].free /\ heap[i].size = held[p].size
  BY DEF IInv, HeldInv
<1>2. /\ Laid(heap) /\ Len(heap) \in Nat /\ heap[i].addr \in Nat /\ heap[i].size \in Nat
      /\ Data(heap[i]) = heap[i].addr + HEADER /\ heap[Len(heap)].free
  BY BlockFacts
<1>3. HEADER \in Nat /\ POINTER \in Nat \ {0}
  BY Consts
<1>4. p = heap[i].addr + HEADER /\ p \in Nat /\ held[p].size \in Nat
  BY <1>1, <1>2, <1>3
<1>5. i < Len(heap)
  <2>1. i # Len(heap)
    BY <1>1, <1>2
  <2>2. QED
    BY <1>2, <2>1
<1>6. ASSUME NEW k \in 1 .. Len(heap)
      PROVE  /\ i < k => p + held[p].size <= heap[k].addr
             /\ k <= i => heap[k].addr + HEADER <= p
  <2>1. heap[k].addr \in Nat
    BY BlockFacts
  <2>2. ASSUME i < k
        PROVE  p + held[p].size <= heap[k].addr
    <3>1. heap[i].addr + HEADER + POINTER * heap[i].size <= heap[k].addr
      BY <1>1, <1>2, <2>2, InOrder
    <3>2. heap[i].size <= POINTER * heap[i].size /\ POINTER * heap[i].size \in Nat
      <4>1. heap[i].size * 1 <= heap[i].size * POINTER
        <5>1. 1 * heap[i].size <= POINTER * heap[i].size
          BY <1>2, <1>3, TimesMonotone, SMTT(30)
        <5>2. QED
          BY <1>2, <1>3, <5>1
      <4>2. QED
        BY <1>2, <1>3, <4>1
    <3>3. PICK z \in Nat : z = POINTER * heap[i].size
      BY <3>2
    <3>4. p + z <= heap[k].addr /\ held[p].size <= z
      BY <1>1, <1>4, <3>1, <3>2, <3>3
    <3>5. QED
      BY <1>4, <2>1, <3>4
  <2>3. ASSUME k <= i
        PROVE  heap[k].addr + HEADER <= p
    <3>1. k < i => heap[k].addr + HEADER <= heap[i].addr
      BY <1>2, InOrder
    <3>2. k < i \/ k = i
      BY <1>2, <2>3
    <3>3. QED
      BY <1>2, <1>3, <1>4, <2>1, <3>1, <3>2
  <2>4. QED
    BY <2>2, <2>3
<1>7. QED
  BY <1>1, <1>4, <1>5, <1>6

(* From the invariant: nothing is written over.                            *)
LEMMA SeparateAll ==
  ASSUME IInv
  PROVE  NothingClobbered
<1>1. heap \in Seq(Block) /\ DOMAIN heap = 1 .. Len(heap) /\ Len(heap) \in Nat
  BY BlocksOf DEF IInv, TypeOK
<1>2. ASSUME NEW k \in 1 .. Len(heap), NEW l \in 1 .. Len(heap), k # l
      PROVE  Separate(heap[k].addr, HEADER, heap[l].addr, HEADER)
  <2>1. k < l \/ l < k
    BY <1>1, <1>2
  <2>2. Laid(heap)
    BY BlockFacts
  <2>3. QED
    BY <2>1, <2>2, InOrder DEF Separate
<1>3. ASSUME NEW k \in 1 .. Len(heap), NEW p \in DOMAIN held
      PROVE  Separate(heap[k].addr, HEADER, p, held[p].size)
  <2>1. PICK i \in 1 .. Len(heap) :
          /\ i < k => p + held[p].size <= heap[k].addr
          /\ k <= i => heap[k].addr + HEADER <= p
    BY PieceIs
  <2>2. i < k \/ k <= i
    BY <1>1
  <2>3. QED
    BY <2>1, <2>2 DEF Separate
<1>4. ASSUME NEW p \in DOMAIN held, NEW q \in DOMAIN held, p # q
      PROVE  Separate(p, held[p].size, q, held[q].size)
  <2>1. PICK i \in 1 .. Len(heap) :
          /\ p = heap[i].addr + HEADER /\ p \in Nat /\ held[p].size \in Nat
          /\ \A k \in 1 .. Len(heap) : i < k => p + held[p].size <= heap[k].addr
    BY PieceIs
  <2>2. PICK j \in 1 .. Len(heap) :
          /\ q = heap[j].addr + HEADER /\ q \in Nat /\ held[q].size \in Nat
          /\ \A k \in 1 .. Len(heap) : j < k => q + held[q].size <= heap[k].addr
    BY PieceIs
  <2>3. heap[i].addr \in Nat /\ heap[j].addr \in Nat /\ HEADER \in Nat
    BY BlockFacts, Consts
  <2>4. i # j
    BY <1>4, <2>1, <2>2
  <2>5. CASE i < j
    <3>1. p + held[p].size <= heap[j].addr
      BY <2>1, <2>5
    <3>2. p + held[p].size \in Nat /\ heap[j].addr \in Nat /\ q \in Nat
          /\ heap[j].addr <= q
      <4>1. p + held[p].size \in Nat
        BY <2>1, <2>2
      <4>2. heap[j].addr <= q
        BY <2>1, <2>2, <2>3
      <4>3. QED
        BY <2>1, <2>2, <2>3, <4>1, <4>2, Zenon
    <3>3. \A x, y, z \in Nat : x <= y /\ y <= z => x <= z
      OBVIOUS
    <3>4. p + held[p].size <= q
      BY <3>1, <3>2, <3>3, Zenon
    <3>5. QED
      BY <3>4 DEF Separate
  <2>6. CASE j < i
    <3>1. q + held[q].size <= heap[i].addr
      BY <2>2, <2>6
    <3>2. q + held[q].size \in Nat /\ heap[i].addr \in Nat /\ p \in Nat
          /\ heap[i].addr <= p
      <4>1. q + held[q].size \in Nat
        BY <2>1, <2>2
      <4>2. heap[i].addr <= p
        BY <2>1, <2>2, <2>3
      <4>3. QED
        BY <2>1, <2>2, <2>3, <4>1, <4>2, Zenon
    <3>3. \A x, y, z \in Nat : x <= y /\ y <= z => x <= z
      OBVIOUS
    <3>4. q + held[q].size <= p
      BY <3>1, <3>2, <3>3, Zenon
    <3>5. QED
      BY <3>4 DEF Separate
  <2>7. QED
    BY <1>1, <2>4, <2>5, <2>6
<1>5. QED
  BY <1>1, <1>2, <1>3, <1>4 DEF NothingClobbered

(* No header is written over another one or over bytes that a caller       *)
(* holds, and no two callers hold the same byte.                           *)
THEOREM NotClobbered == Spec => []NothingClobbered
<1>1. IInv => NothingClobbered
  BY SeparateAll
<1>2. QED
  BY <1>1, Invariance, PTL

(* From the invariant: everything lies in the heap.                        *)
LEMMA InsideAll ==
  ASSUME IInv
  PROVE  InsideHeap
<1>1. heap \in Seq(Block) /\ DOMAIN heap = 1 .. Len(heap) /\ Len(heap) \in Nat
  BY BlocksOf DEF IInv, TypeOK
<1>2. ASSUME NEW k \in 1 .. Len(heap)
      PROVE  heap[k].addr + HEADER <= TOTAL
  <2>1. /\ heap # <<>> /\ Laid(heap) /\ Len(heap) \in 1 .. Len(heap)
        /\ heap[k].addr \in Nat /\ heap[Len(heap)].addr \in Nat
    <3>1. heap # <<>> /\ Laid(heap) /\ heap[k].addr \in Nat /\ Len(heap) \in 1 .. Len(heap)
      BY BlockFacts
    <3>2. QED
      BY <3>1, BlockFacts
  <2>2. heap[Len(heap)].addr + HEADER <= TOTAL
    BY <2>1 DEF IInv, TailInv
  <2>3. k < Len(heap) => heap[k].addr + HEADER <= heap[Len(heap)].addr
    BY <2>1, InOrder, Zenon
  <2>4. k < Len(heap) \/ k = Len(heap)
    <3>1. Len(heap) \in Nat
      BY <1>1
    <3>2. QED
      BY <3>1
  <2>5. QED
    BY <2>1, <2>2, <2>3, <2>4, Consts
<1>3. ASSUME NEW p \in DOMAIN held
      PROVE  p + held[p].size <= TOTAL
  <2>1. PICK i \in 1 .. Len(heap) :
          /\ p \in Nat /\ held[p].size \in Nat /\ i < Len(heap)
          /\ \A k \in 1 .. Len(heap) : i < k => p + held[p].size <= heap[k].addr
    BY PieceIs
  <2>2. Len(heap) \in 1 .. Len(heap)
    BY <1>1, <2>1
  <2>3. p + held[p].size <= heap[Len(heap)].addr /\ heap[Len(heap)].addr \in Nat
    BY <2>1, <2>2, BlockFacts
  <2>4. heap[Len(heap)].addr + HEADER <= TOTAL
    BY <1>2, <2>2
  <2>5. QED
    BY <2>1, <2>3, <2>4, Consts, SMTT(30)
<1>4. QED
  BY <1>1, <1>2, <1>3 DEF InsideHeap

(* What callers hold and the headers of all blocks lie in the heap.        *)
THEOREM StaysInside == Spec => []InsideHeap
<1>1. IInv => InsideHeap
  BY InsideAll
<1>2. QED
  BY <1>1, Invariance, PTL

(* Free blocks never lie side by side, and when all is given back a single *)
(* block is left.                                                          *)
THEOREM HolesMerged == Spec => []Coalesced
<1>1. ASSUME IInv
      PROVE  Coalesced
  <2>1. heap \in Seq(Block) /\ Len(heap) \in Nat
    BY <1>1, BlocksOf DEF IInv, TypeOK
  <2>2. \A k \in 1 .. Len(heap) - 1 : ~ (heap[k].free /\ heap[k + 1].free)
    BY <1>1 DEF IInv, Alternating
  <2>3. ASSUME DOMAIN held = {}, ~ (Len(heap) <= 1)
        PROVE  FALSE
    <3>1. 1 \in 1 .. Len(heap) - 1 /\ 1 \in 1 .. Len(heap) /\ 1 + 1 \in 1 .. Len(heap)
      BY <2>1, <2>3
    <3>2. \A k \in 1 .. Len(heap) : heap[k].free
      BY <1>1, <2>3 DEF IInv, HeldInv
    <3>3. QED
      BY <2>2, <3>1, <3>2
  <2>4. QED
    BY <2>2, <2>3 DEF Coalesced
<1>2. QED
  BY <1>1, Invariance, PTL

(* kmalloc, kaligned_alloc and kfree implement a heap: a piece that is     *)
(* handed out lies in the heap, overlaps no other one and is aligned as    *)
(* the caller asked, and he keeps it until he gives it back.               *)
THEOREM Implements == Spec => ImplementsArena
<1>1. Init => Abstract!Init
  BY DEF Init, Abstract!Init
<1>2. ASSUME IInv, [Next]_vars, IInv'
      PROVE  [Abstract!Next]_held
  <2>1. CASE UNCHANGED vars
    BY <2>1 DEF vars
  <2>2. ASSUME NEW size \in Sizes, NEW alignment \in Alignments,
               Cardinality(DOMAIN held) < MaxHeld, kaligned_alloc(size, alignment)
        PROVE  [Abstract!Next]_held
    <3>1. CASE UNCHANGED vars
      BY <3>1 DEF vars
    <3>2. ASSUME NEW p \in Nat, size # 0, Hands(p, size, alignment)
          PROVE  Abstract!Next
      <4>1. PICK asked : asked = [size |-> size, alignment |-> alignment]
        OBVIOUS
      <4>2. asked \in [size : Sizes, alignment : Alignments] /\ asked.size = size
            /\ asked.alignment = alignment
        BY <4>1
      <4>3. /\ p % alignment = 0 /\ p \notin DOMAIN held
            /\ held' = [q \in DOMAIN held \union {p} |-> IF q = p THEN asked ELSE held[q]]
        BY <3>2, <4>1 DEF Hands
      <4>4. DOMAIN held' = DOMAIN held \union {p} /\ held'[p] = asked
            /\ \A q \in DOMAIN held : held'[q] = held[q]
        BY <4>3
      <4>5. p \in 0 .. TOTAL - asked.size
        <5>1. InsideHeap'
          <6>1. (IInv => InsideHeap)'
            BY InsideAll, PTL
          <6>2. QED
            BY <1>2, <6>1
        <5>2. p + size <= TOTAL
          BY <4>2, <4>4, <5>1 DEF InsideHeap
        <5>3. size \in Nat /\ TOTAL \in Nat
          BY LargestAssumption, Consts
        <5>4. QED
          BY <4>2, <5>2, <5>3
      <4>6. \A q \in DOMAIN held : Abstract!Separate(p, asked.size, q, held[q].size)
        <5>1. NothingClobbered'
          <6>1. (IInv => NothingClobbered)'
            BY SeparateAll, PTL
          <6>2. QED
            BY <1>2, <6>1
        <5>2. \A q \in DOMAIN held : Separate(p, held'[p].size, q, held'[q].size)
          BY <4>3, <4>4, <5>1 DEF NothingClobbered
        <5>3. QED
          BY <4>4, <5>2 DEF Separate, Abstract!Separate
      <4>7. Abstract!Allocate(p, asked)
        BY <4>2, <4>3, <4>5, <4>6 DEF Abstract!Allocate
      <4>8. asked \in [size : Sizes \ {0}, alignment : Alignments]
        BY <3>2, <4>1
      <4>9. p \in DOMAIN held' \ DOMAIN held
        BY <4>3, <4>4
      <4>10. QED
        BY <4>7, <4>8, <4>9 DEF Abstract!Next
    <3>3. QED
      BY <1>2, <2>2, <3>1, <3>2, AllocatesIInv
  <2>3. ASSUME NEW ptr \in DOMAIN held \union {NULL}, kfree(ptr)
        PROVE  [Abstract!Next]_held
    <3>1. \/ UNCHANGED vars
          \/ ptr \in DOMAIN held /\ held' = [p \in DOMAIN held \ {ptr} |-> held[p]]
      BY <1>2, <2>3, FreesIInv
    <3>2. QED
      BY <3>1 DEF vars, Abstract!Next, Abstract!Release
  <2>4. QED
    BY <1>2, <2>1, <2>2, <2>3 DEF Next
<1>3. QED
  BY <1>1, <1>2, Invariance, PTL DEF Spec, ImplementsArena, Abstract!Spec

=============================================================================
