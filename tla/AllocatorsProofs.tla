--------------------------- MODULE AllocatorsProofs ---------------------------
(***************************************************************************)
(* What both allocators promise the hypervisor, for every pool and whatever*)
(* is asked for: memory that is apart from all that is held.  And what     *)
(* the two level segregated fit allocator keeps of its heap, as long as    *)
(* clients give back only what they hold and do not write past it: the     *)
(* blocks tile the pool, free neighbours are merged, the lists have all    *)
(* free blocks, and requests are served from them if they can be.          *)
(*                                                                         *)
(* The order is that of tlsf.c: powers of two and the classes of sizes;    *)
(* the blocks and the lists, and what each function on headers and lists   *)
(* makes of them; the operations of the allocator; what a whole heap is;   *)
(* then the naive allocator, the clients, and the theorems.                *)
(***************************************************************************)
EXTENDS Allocators, FiniteSetTheorems, WellFoundedInduction, TLAPS

LEMMA LeastNatural ==
  ASSUME NEW T \in SUBSET Nat, T # {}
  PROVE  \E x \in T : \A y \in T : x <= y
<1> DEFINE R == OpToRel(<, Nat)
<1>1. PICK x \in T : \A y \in T : ~ (<<y, x>> \in R)
  BY NatLessThanWellFounded, WFMin
<1>2. ASSUME NEW y \in T  PROVE x <= y
  <2>1. ~ (<<y, x>>[1] < <<y, x>>[2])
    BY <1>1, Zenon DEF OpToRel
  <2> QED  BY <2>1
<1> QED  BY <1>2

-----------------------------------------------------------------------------
(* Powers of two.                                                           *)

Doubles(f, n) == f = [k \in 0 .. n |-> IF k = 0 THEN 1 ELSE 2 * f[k - 1]]

LEMMA DoublingIsDefined == \A n \in 0 .. FlIndexMax : \E f : Doubles(f, n)
<1> DEFINE T == {n \in 0 .. FlIndexMax : ~ \E f : Doubles(f, n)}
<1>1. CASE T = {} BY <1>1
<1>2. CASE T # {}
  <2>1. T \in SUBSET Nat BY DEF FlIndexMax
  <2>2. PICK n \in T : \A m \in T : n <= m BY <1>2, <2>1, LeastNatural
  <2>3. n # 0
    <3>1. Doubles([k \in 0 .. 0 |-> 1], 0) BY DEF Doubles
    <3> QED BY <3>1, <2>2
  <2>4. n \in Nat /\ n - 1 \in 0 .. FlIndexMax /\ n - 1 \notin T BY <2>2, <2>3 DEF FlIndexMax
  <2>5. PICK f : Doubles(f, n - 1) BY <2>4
  <2> DEFINE g == [k \in 0 .. n |-> IF k \in 0 .. n - 1 THEN f[k] ELSE 2 * f[n - 1]]
  <2>6. \A k \in 0 .. n - 1 : f[k] = IF k = 0 THEN 1 ELSE 2 * f[k - 1]
    BY <2>5 DEF Doubles
  <2>7. ASSUME NEW k \in 0 .. n PROVE g[k] = IF k = 0 THEN 1 ELSE 2 * g[k - 1]
    <3>1. CASE k \in 0 .. n - 1
      <4>1. k # 0 => k - 1 \in 0 .. n - 1 /\ k - 1 \in 0 .. n BY <3>1, <2>4
      <4> QED BY <3>1, <4>1, <2>6
    <3>2. CASE k = n
      <4>1. k \notin 0 .. n - 1 /\ k # 0 /\ k - 1 = n - 1 /\ n - 1 \in 0 .. n - 1 /\ n - 1 \in 0 .. n
        BY <3>2, <2>3, <2>4
      <4> QED BY <4>1
    <3> QED BY <3>1, <3>2, <2>4
  <2>8. DOMAIN g = 0 .. n OBVIOUS
  <2>9. g = [k \in 0 .. n |-> g[k]] OBVIOUS
  <2> HIDE DEF g
  <2>10. Doubles(g, n) BY <2>7, <2>9 DEF Doubles
  <2> QED BY <2>10, <2>2
<1> QED BY <1>1, <1>2

LEMMA BitFacts ==
  /\ Bit[0] = 1
  /\ \A k \in 0 .. 29 : Bit[k + 1] = 2 * Bit[k]
<1> DEFINE bit == CHOOSE f : Doubles(f, FlIndexMax)
<1>1. Doubles(bit, FlIndexMax)
  <2>1. FlIndexMax \in 0 .. FlIndexMax BY DEF FlIndexMax
  <2>2. \E f : Doubles(f, FlIndexMax) BY <2>1, DoublingIsDefined
  <2> QED BY <2>2
<1>2. Bit = [k \in 0 .. FlIndexMax |-> bit[k]] BY DEF Bit, Doubles
<1> HIDE DEF bit
<1>3. \A k \in 0 .. 30 : Bit[k] = IF k = 0 THEN 1 ELSE 2 * bit[k - 1]
  BY <1>1, <1>2 DEF Doubles, FlIndexMax
<1>4. \A k \in 0 .. 30 : Bit[k] = bit[k] BY <1>2 DEF FlIndexMax
<1>5. ASSUME NEW k \in 0 .. 29 PROVE Bit[k + 1] = 2 * Bit[k]
  <2>1. k + 1 \in 0 .. 30 /\ k \in 0 .. 30 /\ k + 1 # 0 /\ k + 1 - 1 = k OBVIOUS
  <2>2. Bit[k + 1] = 2 * bit[k] BY <1>3, <2>1
  <2> QED BY <1>4, <2>1, <2>2
<1> QED BY <1>3, <1>5

LEMMA BitsArePositive == \A k \in 0 .. 30 : Bit[k] \in Nat \ {0}
<1> DEFINE T == {k \in 0 .. 30 : ~ (Bit[k] \in Nat \ {0})}
<1>1. CASE T = {} BY <1>1
<1>2. CASE T # {}
  <2>1. T \in SUBSET Nat OBVIOUS
  <2>2. PICK k \in T : \A j \in T : k <= j BY <1>2, <2>1, LeastNatural
  <2>3. k # 0 BY <2>2, BitFacts
  <2>4. k - 1 \in 0 .. 29 /\ k - 1 \notin T BY <2>2, <2>3
  <2>5. Bit[k - 1] \in Nat \ {0} BY <2>4
  <2>6. Bit[k - 1 + 1] = 2 * Bit[k - 1] BY <2>4, BitFacts
  <2>7. k - 1 + 1 = k BY <2>2
  <2> QED BY <2>2, <2>5, <2>6, <2>7
<1> QED BY <1>1, <1>2

LEMMA BitsMultiply ==
  ASSUME NEW i \in 0 .. 30, NEW j \in 0 .. 30 - i
  PROVE  Bit[i + j] = Bit[i] * Bit[j]
<1> DEFINE T == {n \in 0 .. 30 - i : Bit[i + n] # Bit[i] * Bit[n]}
<1>1. CASE T = {} BY <1>1
<1>2. CASE T # {}
  <2>1. T \in SUBSET Nat OBVIOUS
  <2>2. PICK n \in T : \A m \in T : n <= m BY <1>2, <2>1, LeastNatural
  <2>3. n # 0
    <3>1. i + 0 = i /\ Bit[i] \in Nat BY BitsArePositive
    <3>2. Bit[i + 0] = Bit[i] * Bit[0] BY <3>1, BitFacts
    <3> QED BY <3>2, <2>2
  <2>4. n - 1 \in 0 .. 30 - i /\ n - 1 \notin T BY <2>2, <2>3
  <2>5. Bit[i + (n - 1)] = Bit[i] * Bit[n - 1] BY <2>4
  <2>6. n - 1 \in 0 .. 29 /\ i + (n - 1) \in 0 .. 29 BY <2>2, <2>3
  <2>7. Bit[i + (n - 1) + 1] = 2 * Bit[i + (n - 1)] BY <2>6, BitFacts
  <2>8. Bit[n - 1 + 1] = 2 * Bit[n - 1] BY <2>6, BitFacts
  <2>9. i + (n - 1) + 1 = i + n /\ n - 1 + 1 = n BY <2>2
  <2>10. Bit[i + n] = 2 * (Bit[i] * Bit[n - 1]) BY <2>5, <2>7, <2>9
  <2>11. Bit[n] = 2 * Bit[n - 1] BY <2>8, <2>9
  <2>12. Bit[i] \in Nat /\ Bit[n - 1] \in Nat BY <2>6, BitsArePositive
  <2>13. 2 * (Bit[i] * Bit[n - 1]) = Bit[i] * (2 * Bit[n - 1]) BY <2>12
  <2> QED BY <2>2, <2>10, <2>11, <2>13
<1> QED BY <1>1, <1>2

LEMMA BitsGrow ==
  ASSUME NEW i \in 0 .. 30, NEW j \in 0 .. 30, i < j
  PROVE  2 * Bit[i] <= Bit[j]
<1>1. i \in 0 .. 29 /\ i + 1 \in 0 .. 30 /\ j - (i + 1) \in 0 .. 30 - (i + 1) /\ (i + 1) + (j - (i + 1)) = j
  OBVIOUS
<1>2. Bit[j] = Bit[i + 1] * Bit[j - (i + 1)] BY <1>1, BitsMultiply
<1>3. Bit[i + 1] = 2 * Bit[i] BY <1>1, BitFacts
<1> DEFINE p == Bit[i + 1]
           q == Bit[j - (i + 1)]
<1>4. p \in Nat \ {0} /\ q \in Nat \ {0} BY <1>1, BitsArePositive
<1>5. Bit[j] = p * q BY <1>2
<1> HIDE DEF p, q
<1>6. p <= p * q BY <1>4
<1>7. p <= Bit[j] BY <1>5, <1>6
<1> QED BY <1>3, <1>7 DEF p

LEMMA BitValues ==
  /\ Bit[0] = 1 /\ Bit[1] = 2 /\ Bit[2] = 4 /\ Bit[3] = 8 /\ Bit[4] = 16 /\ Bit[5] = 32
  /\ Bit[14] \in Nat /\ Bit[28] \in Nat /\ Bit[29] \in Nat /\ Bit[30] \in Nat
  /\ 4 * Bit[14] + 64 <= Bit[28] /\ Bit[29] = 2 * Bit[28] /\ Bit[30] = 2 * Bit[29]
<1> DEFINE B(k) == Bit[k]
<1>1. B(0) = 1 BY BitFacts
<1>2. \A k \in 0 .. 29 : B(k + 1) = 2 * B(k) BY BitFacts
<1>3. B(14) \in Nat \ {0} /\ B(28) \in Nat /\ B(29) \in Nat /\ B(30) \in Nat
  BY BitsArePositive
<1>4. 2 * Bit[5] <= Bit[14] BY BitsGrow
<1>5. Bit[28] = Bit[14] * Bit[14]
  <2>1. 14 \in 0 .. 30 /\ 14 \in 0 .. 30 - 14 /\ 14 + 14 = 28 OBVIOUS
  <2> QED BY <2>1, BitsMultiply
<1>6. 2 * B(5) <= B(14) /\ B(28) = B(14) * B(14) BY <1>4, <1>5
<1> HIDE DEF B
<1>7. B(1) = 2 /\ B(2) = 4 /\ B(3) = 8 /\ B(4) = 16 /\ B(5) = 32 BY <1>1, <1>2
<1>8. B(29) = 2 * B(28) /\ B(30) = 2 * B(29) BY <1>2
<1> DEFINE b == B(14)
<1>9. b \in Nat /\ 64 <= b BY <1>3, <1>6, <1>7
<1> HIDE DEF b
<1>10. 64 * b <= b * b BY <1>9
<1>11. 4 * b + 64 <= b * b BY <1>9, <1>10
<1>12. 4 * B(14) + 64 <= B(28) BY <1>6, <1>11 DEF b
<1> QED BY <1>1, <1>3, <1>7, <1>8, <1>12 DEF B

-----------------------------------------------------------------------------
(* Sizes and their classes: those of level l differ by Grain(l).            *)

Grain(l) == IF l = 0 THEN 4 ELSE Bit[l + 1]
Base(l) == IF l = 0 THEN 0 ELSE SlCount
Before(c, d) == c[1] < d[1] \/ (c[1] = d[1] /\ c[2] < d[2])

InClass(s, l, i) ==
  /\ InsertMapping(s) = <<l, i>>
  /\ l \in 0 .. 28 /\ i \in 0 .. SlCount - 1
  /\ (Base(l) + i) * Grain(l) <= s /\ s < (Base(l) + i + 1) * Grain(l)

LEMMA LastBit ==
  ASSUME NEW x \in 1 .. Bit[30] - 1
  PROVE  LastBitSet(x) \in 0 .. 29 /\ Bit[LastBitSet(x)] <= x /\ x < 2 * Bit[LastBitSet(x)]
<1> DEFINE T == {k \in 0 .. 30 : x < Bit[k]}
<1>1. Bit[30] \in Nat BY BitValues
<1>2. T \in SUBSET Nat /\ 30 \in T BY <1>1
<1>3. PICK k \in T : \A j \in T : k <= j BY <1>2, LeastNatural
<1>4. k # 0 BY <1>3, BitFacts
<1>5. k - 1 \in 0 .. 29 /\ k - 1 \notin T /\ k - 1 \in 0 .. 30 /\ k - 1 + 1 = k BY <1>3, <1>4
<1>6. Bit[k] = 2 * Bit[k - 1] BY <1>5, BitFacts
<1>7. Bit[k - 1] \in Nat \ {0} BY <1>5, BitsArePositive
<1>8. Bit[k - 1] <= x /\ x < 2 * Bit[k - 1] BY <1>3, <1>5, <1>6, <1>7
<1>9. x \div Bit[k - 1] = 1 BY <1>7, <1>8
<1> DEFINE l == LastBitSet(x)
<1>10. l \in 0 .. 30 /\ x \div Bit[l] = 1 BY <1>5, <1>9 DEF LastBitSet, FlIndexMax
<1> HIDE DEF l
<1>11. Bit[l] \in Nat \ {0} BY <1>10, BitsArePositive
<1> DEFINE b == Bit[l]
<1>12. b \in Nat \ {0} /\ x \div b = 1 /\ x \in Nat BY <1>1, <1>10, <1>11
<1> HIDE DEF b
<1>13. b <= x /\ x < 2 * b BY <1>12
<1>14. l # 30 BY <1>1, <1>13 DEF b
<1> QED BY <1>10, <1>13, <1>14 DEF b, l

LEMMA Counts ==
  /\ SlLog2 \in 1 .. 5 /\ SlCount \in 2 .. 32 /\ SlCount = Bit[SlLog2]
  /\ SmallBlockSize = 4 * SlCount /\ SmallBlockSize = Bit[SlLog2 + 2]
  /\ SmallBlockSize \div SlCount = 4 /\ FlShift = SlLog2 + 2
<1>1. SlLog2 \in 1 .. 5 BY TlsfAssumption
<1>2. SlCount = Bit[SlLog2] /\ SlCount \in 2 .. 32 BY <1>1, BitValues DEF SlCount
<1>3. SmallBlockSize = Bit[SlLog2 + 2] /\ FlShift = SlLog2 + 2 BY DEF SmallBlockSize, FlShift
<1>4. Bit[SlLog2 + 2] = Bit[SlLog2] * Bit[2] BY <1>1, BitsMultiply
<1>5. SmallBlockSize = 4 * SlCount BY <1>2, <1>3, <1>4, BitValues
<1>6. SmallBlockSize \div SlCount = 4 BY <1>2, <1>5
<1> QED BY <1>1, <1>2, <1>3, <1>5, <1>6

LEMMA GrainFacts ==
  ASSUME NEW l \in 0 .. 28
  PROVE  /\ Grain(l) \in Nat \ {0} /\ Grain(l) % 4 = 0 /\ Base(l) \in Nat
         /\ \A m \in 0 .. 28 : l < m => /\ Grain(l) <= Grain(m)
                                       /\ (Base(l) + SlCount) * Grain(l) <= SlCount * Grain(m)
                                       /\ Base(m) = SlCount
<1>1. \A m \in 0 .. 28 : Bit[m + 1] \in Nat \ {0} BY BitsArePositive
<1>2. Grain(l) \in Nat \ {0} /\ Base(l) \in Nat BY <1>1, Counts DEF Grain, Base
<1>3. Grain(l) % 4 = 0
  <2>1. CASE l = 0 BY <2>1 DEF Grain
  <2>2. CASE l # 0
    <3>1. 2 \in 0 .. 30 /\ l - 1 \in 0 .. 30 - 2 /\ 2 + (l - 1) = l + 1 BY <2>2
    <3>2. Bit[l + 1] = Bit[2] * Bit[l - 1] BY <3>1, BitsMultiply
    <3>3. Bit[l - 1] \in Nat BY <3>1, BitsArePositive
    <3> DEFINE q == Bit[l - 1]
    <3>4. Grain(l) = 4 * q /\ q \in Nat BY <2>2, <3>2, <3>3, BitValues DEF Grain
    <3> HIDE DEF q
    <3> QED BY <3>4
  <2> QED BY <2>1, <2>2
<1>4. ASSUME NEW m \in 0 .. 28, l < m
      PROVE  /\ Grain(l) <= Grain(m) /\ Base(m) = SlCount
             /\ (Base(l) + SlCount) * Grain(l) <= SlCount * Grain(m)
  <2>1. Grain(m) = Bit[m + 1] /\ Base(m) = SlCount /\ Bit[m + 1] \in Nat \ {0}
    BY <1>1, <1>4 DEF Grain, Base
  <2>2. CASE l = 0
    <3>1. Grain(l) = 4 /\ Base(l) = 0 BY <2>2 DEF Grain, Base
    <3>2. 4 <= Grain(m)
      <4>1. 1 \in 0 .. 30 /\ m + 1 \in 0 .. 30 /\ 1 < m + 1 BY <1>4, <2>2
      <4>2. 2 * Bit[1] <= Bit[m + 1] BY <4>1, BitsGrow
      <4> QED BY <4>2, <2>1, BitValues
    <3> DEFINE g == Grain(m)
    <3>3. g \in Nat /\ 4 <= g BY <2>1, <3>2
    <3> HIDE DEF g
    <3>4. SlCount * 4 <= SlCount * g BY <3>3, Counts
    <3> QED BY <2>1, <3>1, <3>2, <3>4, Counts DEF g
  <2>3. CASE l # 0
    <3>1. Grain(l) = Bit[l + 1] /\ Base(l) = SlCount BY <2>3 DEF Grain, Base
    <3>2. l + 1 \in 0 .. 30 /\ m + 1 \in 0 .. 30 /\ l + 1 < m + 1 BY <1>4
    <3>3. 2 * Bit[l + 1] <= Bit[m + 1] BY <3>2, BitsGrow
    <3> DEFINE g == Grain(l)
               h == Grain(m)
    <3>4. g \in Nat /\ h \in Nat /\ 2 * g <= h BY <1>1, <2>1, <3>1, <3>3
    <3> HIDE DEF g, h
    <3>5. (SlCount + SlCount) * g = SlCount * (2 * g) BY <3>4, Counts
    <3>6. SlCount * (2 * g) <= SlCount * h BY <3>4, Counts
    <3>7. g <= h BY <3>4
    <3> QED BY <2>1, <3>1, <3>5, <3>6, <3>7 DEF g, h
  <2> QED BY <2>2, <2>3
<1> QED BY <1>2, <1>3, <1>4

LEMMA EverySizeHasAClass ==
  ASSUME NEW s \in 1 .. Bit[30] - 1
  PROVE  \E l, i : InClass(s, l, i)
<1>1. s \in Nat \ {0} BY BitValues
<1>2. CASE s < SmallBlockSize
  <2>1. InsertMapping(s) = <<0, s \div 4>> BY <1>2, Counts DEF InsertMapping
  <2>2. s \div 4 \in 0 .. SlCount - 1 BY <1>1, <1>2, Counts
  <2>3. (0 + s \div 4) * 4 <= s /\ s < (0 + s \div 4 + 1) * 4 BY <1>1
  <2>4. InClass(s, 0, s \div 4) BY <2>1, <2>2, <2>3 DEF InClass, Base, Grain
  <2> QED BY <2>4
<1>3. CASE ~ (s < SmallBlockSize)
  <2> DEFINE k == LastBitSet(s)
  <2>1. k \in 0 .. 29 /\ Bit[k] <= s /\ s < 2 * Bit[k] BY LastBit
  <2>2. InsertMapping(s) = <<k - (SlLog2 + 1), s \div Bit[k - SlLog2] - SlCount>>
    <3>1. FlShift - 1 = SlLog2 + 1 BY Counts
    <3> QED BY <1>3, <3>1 DEF InsertMapping
  <2> HIDE DEF k
  <2>3. k >= SlLog2 + 2
    <3>1. SUFFICES ASSUME k < SlLog2 + 2 PROVE FALSE BY <2>1, Counts
    <3>2. SlLog2 + 2 \in 0 .. 30 /\ k \in 0 .. 30 BY <2>1, Counts
    <3>3. 2 * Bit[k] <= Bit[SlLog2 + 2] BY <3>1, <3>2, BitsGrow
    <3> QED BY <1>1, <1>3, <2>1, <3>2, <3>3, Counts, BitsArePositive
  <2>4. SlLog2 \in 0 .. 30 /\ k - SlLog2 \in 0 .. 30 - SlLog2 /\ SlLog2 + (k - SlLog2) = k
    BY <2>1, <2>3, Counts
  <2> DEFINE w == Bit[k - SlLog2]
             l == k - (SlLog2 + 1)
             i == s \div w - SlCount
  <2>5. Bit[k] = SlCount * w BY <2>4, BitsMultiply, Counts
  <2>6. k - SlLog2 \in 0 .. 30 BY <2>1, <2>3, Counts
  <2>7. w \in Nat \ {0} BY <2>6, BitsArePositive
  <2>8. l \in 0 .. 28 /\ l # 0 /\ l + 1 = k - SlLog2 BY <2>1, <2>3, Counts
  <2>9. Grain(l) = w /\ Base(l) = SlCount BY <2>8 DEF Grain, Base
  <2>10. InsertMapping(s) = <<l, i>> BY <2>2
  <2>11. SlCount * w <= s /\ s < 2 * (SlCount * w) BY <2>1, <2>5
  <2> HIDE DEF w, l
  <2>12. s \div w \in Nat /\ (s \div w) * w <= s /\ s < (s \div w + 1) * w BY <1>1, <2>7
  <2> DEFINE q == s \div w
  <2>13. q \in Nat /\ q * w <= s /\ s < (q + 1) * w BY <2>12
  <2> HIDE DEF q
  <2>14. SlCount <= q
    <3>1. SUFFICES ASSUME q + 1 <= SlCount PROVE FALSE BY <2>13, Counts
    <3>2. (q + 1) * w <= SlCount * w BY <2>7, <2>13, <3>1, Counts
    <3> QED BY <1>1, <2>7, <2>11, <2>13, <3>2, Counts
  <2>15. q < 2 * SlCount
    <3>1. SUFFICES ASSUME 2 * SlCount <= q PROVE FALSE BY <2>13, Counts
    <3>2. (2 * SlCount) * w <= q * w BY <2>7, <2>13, <3>1, Counts
    <3>3. (2 * SlCount) * w = 2 * (SlCount * w) BY <2>7, Counts
    <3> QED BY <1>1, <2>7, <2>11, <2>13, <3>2, <3>3, Counts
  <2>16. i = q - SlCount BY DEF q
  <2>17. i \in 0 .. SlCount - 1 /\ SlCount + i = q BY <2>13, <2>14, <2>15, <2>16, Counts
  <2>18. InClass(s, l, i) BY <2>8, <2>9, <2>10, <2>13, <2>17 DEF InClass
  <2> QED BY <2>18
<1> QED BY <1>2, <1>3

(* Between a size and one of a later class lies where that class begins.    *)
LEMMA ClassesAreOrdered ==
  ASSUME NEW s \in Nat, NEW t \in Nat, NEW l, NEW i, NEW m, NEW j,
         InClass(s, l, i), InClass(t, m, j), Before(<<l, i>>, <<m, j>>)
  PROVE  s < (Base(m) + j) * Grain(m) /\ (Base(m) + j) * Grain(m) <= t
<1> USE DEF InClass
<1>1. l \in 0 .. 28 /\ m \in 0 .. 28 /\ i \in 0 .. SlCount - 1 /\ j \in 0 .. SlCount - 1
  OBVIOUS
<1> DEFINE g == Grain(l)
           h == Grain(m)
<1>2. /\ g \in Nat \ {0} /\ h \in Nat \ {0} /\ Base(l) \in Nat /\ Base(m) \in Nat
      /\ SlCount \in Nat
  <2>1. g \in Nat \ {0} /\ Base(l) \in Nat BY <1>1, GrainFacts
  <2>2. h \in Nat \ {0} /\ Base(m) \in Nat BY <1>1, GrainFacts
  <2> QED BY <2>1, <2>2, Counts
<1>3. s < (Base(l) + i + 1) * g /\ (Base(m) + j) * h <= t OBVIOUS
<1>4. CASE l < m
  <2>1. (Base(l) + SlCount) * g <= SlCount * h /\ Base(m) = SlCount BY <1>1, <1>4, GrainFacts
  <2> HIDE DEF g, h
  <2>2. (Base(l) + i + 1) * g <= (Base(l) + SlCount) * g BY <1>1, <1>2
  <2>3. SlCount * h <= (SlCount + j) * h BY <1>1, <1>2
  <2> QED BY <1>1, <1>2, <1>3, <2>1, <2>2, <2>3 DEF h
<1>5. CASE l = m /\ i < j
  <2>1. g = h BY <1>5
  <2> HIDE DEF g, h
  <2>2. (Base(l) + i + 1) * g <= (Base(m) + j) * h BY <1>1, <1>2, <1>5, <2>1
  <2> QED BY <1>1, <1>2, <1>3, <2>2 DEF h
<1> QED BY <1>4, <1>5 DEF Before

LEMMA ClassesAreMonotone ==
  ASSUME NEW s \in 1 .. Bit[30] - 1, NEW t \in 1 .. Bit[30] - 1, s <= t
  PROVE  ~ Before(InsertMapping(t), InsertMapping(s))
<1>1. PICK l, i : InClass(s, l, i) BY EverySizeHasAClass
<1>2. PICK m, j : InClass(t, m, j) BY EverySizeHasAClass
<1>3. s \in Nat /\ t \in Nat BY BitValues
<1>4. InsertMapping(s) = <<l, i>> /\ InsertMapping(t) = <<m, j>> BY <1>1, <1>2 DEF InClass
<1>5. SUFFICES ASSUME Before(<<m, j>>, <<l, i>>) PROVE FALSE BY <1>4
<1>6. t < (Base(l) + i) * Grain(l) /\ (Base(l) + i) * Grain(l) <= s
  BY <1>1, <1>2, <1>3, <1>5, ClassesAreOrdered
<1>7. l \in 0 .. 28 /\ i \in Nat BY <1>1, Counts DEF InClass
<1>8. Base(l) \in Nat /\ Grain(l) \in Nat BY <1>7, GrainFacts
<1> DEFINE f == (Base(l) + i) * Grain(l)
<1>9. f \in Nat BY <1>7, <1>8
<1>10. t < f /\ f <= s BY <1>6
<1> HIDE DEF f
<1> QED BY <1>3, <1>9, <1>10

(* What a search rounds up to: less than a grain more.                      *)
LEMMA SearchRounds ==
  ASSUME NEW size \in Nat, 12 <= size, size <= Bit[29], NEW l, NEW i, InClass(size, l, i)
  PROVE  \E r \in 1 .. Bit[30] - 1 :
           /\ SearchMapping(size) = InsertMapping(r)
           /\ size <= r /\ r <= size + Grain(l) - 1
           /\ Grain(l) = 4 \/ r = size + Grain(l) - 1
<1> DEFINE k == LastBitSet(size)
<1>1. size \in 1 .. Bit[30] - 1 BY BitValues
<1>2. k \in 0 .. 29 /\ Bit[k] <= size /\ size < 2 * Bit[k] BY <1>1, LastBit
<1>3. InsertMapping(size) = <<l, i>> /\ l \in 0 .. 28 /\ Grain(l) \in Nat \ {0}
  BY GrainFacts DEF InClass
<1>4. SearchMapping(size) =
        InsertMapping(IF size >= SlCount THEN size + Bit[k - SlLog2] - 1 ELSE size)
  BY DEF SearchMapping
<1>5. size < SmallBlockSize => l = 0 BY <1>3 DEF InsertMapping
<1>6. ~ (size < SmallBlockSize) => l = k - (SlLog2 + 1)
  <2>1. FlShift - 1 = SlLog2 + 1 BY Counts
  <2> QED BY <1>3, <2>1 DEF InsertMapping
<1> HIDE DEF k
<1>7. \A n \in 0 .. 30 : Bit[n] \in Nat \ {0} BY BitsArePositive
<1>8. CASE size < SlCount
  <2>1. SearchMapping(size) = InsertMapping(size) BY <1>4, <1>8, Counts
  <2> QED BY <1>1, <1>3, <1>5, <1>8, <2>1, Counts DEF Grain
<1>9. CASE SlCount <= size
  <2>1. k >= SlLog2
    <3>1. SUFFICES ASSUME k < SlLog2 PROVE FALSE BY <1>2, Counts
    <3>2. k \in 0 .. 30 /\ SlLog2 \in 0 .. 30 BY <1>2, Counts
    <3>3. 2 * Bit[k] <= Bit[SlLog2] BY <3>1, <3>2, BitsGrow
    <3> QED BY <1>2, <1>7, <1>9, <3>2, <3>3, Counts
  <2>2. k - SlLog2 \in 0 .. 30 /\ k \in 0 .. 30 /\ k - SlLog2 < k BY <1>2, <2>1, Counts
  <2> DEFINE w == Bit[k - SlLog2]
             r == size + w - 1
  <2>3. w \in Nat \ {0} /\ 2 * w <= Bit[k] BY <1>7, <2>2, BitsGrow
  <2>4. SearchMapping(size) = InsertMapping(r) BY <1>4, <1>9, Counts
  <2>5. Bit[k] \in Nat BY <1>7, <2>2
  <2>6. w <= size BY <1>2, <2>3, <2>5
  <2>7. CASE size < SmallBlockSize
    <3>1. k <= SlLog2 + 1
      <4>1. SUFFICES ASSUME SlLog2 + 2 <= k PROVE FALSE BY <1>2, Counts
      <4>2. SlLog2 + 2 \in 0 .. 30 BY Counts
      <4>3. Bit[SlLog2 + 2] <= Bit[k]
        <5>1. CASE SlLog2 + 2 = k BY <5>1, <2>5
        <5>2. CASE SlLog2 + 2 < k
          <6>1. 2 * Bit[SlLog2 + 2] <= Bit[k] BY <2>2, <4>2, <5>2, BitsGrow
          <6> QED BY <6>1, <1>7, <2>2, <4>2
        <5> QED BY <5>1, <5>2, <4>1, <1>2, Counts
      <4> QED BY <1>2, <1>7, <2>2, <2>7, <4>2, <4>3, Counts
    <3>2. w \in {1, 2}
      <4>1. k - SlLog2 \in {0, 1} BY <1>2, <2>1, <3>1, Counts
      <4> QED BY <4>1, BitValues
    <3>3. Grain(l) = 4 BY <1>5, <2>7 DEF Grain
    <3> HIDE DEF w
    <3>4. r \in 1 .. Bit[30] - 1 /\ size <= r /\ r <= size + Grain(l) - 1
      BY <1>1, <3>2, <3>3, BitValues
    <3> QED BY <2>4, <3>3, <3>4
  <2>8. CASE ~ (size < SmallBlockSize)
    <3>1. k >= SlLog2 + 2
      <4>1. l # 0 \/ k = SlLog2 + 1 BY <1>2, <1>6, <2>8, Counts
      <4>2. SUFFICES ASSUME k <= SlLog2 + 1 PROVE FALSE BY <1>2, Counts
      <4>3. SlLog2 + 2 \in 0 .. 30 /\ k < SlLog2 + 2 BY <4>2, <1>2, Counts
      <4>4. 2 * Bit[k] <= Bit[SlLog2 + 2] BY <2>2, <4>3, BitsGrow
      <4> QED BY <1>2, <1>7, <2>2, <2>8, <4>3, <4>4, Counts
    <3>2. l = k - (SlLog2 + 1) /\ l # 0 /\ l + 1 = k - SlLog2
      BY <1>2, <1>6, <2>8, <3>1, Counts
    <3>3. Grain(l) = w BY <3>2 DEF Grain
    <3> HIDE DEF w
    <3>4. r \in 1 .. Bit[30] - 1 /\ size <= r BY <1>1, <2>3, <2>6, BitValues
    <3> QED BY <2>4, <3>3, <3>4
  <2> QED BY <2>7, <2>8
<1> QED BY <1>8, <1>9, Counts

(* Every block of a class a search may take is large enough, and a class it *)
(* may not take has sizes that are not.                                     *)
LEMMA SearchedClassesFit ==
  ASSUME NEW size \in Nat, 12 <= size, size <= Bit[29], size % 4 = 0,
         NEW s \in 1 .. Bit[30] - 1, s % 4 = 0,
         ~ Before(InsertMapping(s), SearchMapping(size))
  PROVE  size <= s
<1>1. SUFFICES ASSUME s < size PROVE FALSE BY BitValues
<1>2. size \in 1 .. Bit[30] - 1 /\ s \in Nat BY BitValues
<1>3. PICK l, i : InClass(size, l, i) BY <1>2, EverySizeHasAClass
<1>4. PICK m, j : InClass(s, m, j) BY EverySizeHasAClass
<1>5. PICK r \in 1 .. Bit[30] - 1 :
        /\ SearchMapping(size) = InsertMapping(r)
        /\ size <= r
        /\ Grain(l) = 4 \/ r = size + Grain(l) - 1
  BY <1>3, SearchRounds
<1>6. PICK n, o : InClass(r, n, o) BY EverySizeHasAClass
<1>7. r \in Nat BY BitValues
<1>8. ~ Before(<<m, j>>, <<n, o>>) BY <1>4, <1>5, <1>6 DEF InClass
<1>9. /\ l \in 0 .. 28 /\ m \in 0 .. 28 /\ n \in 0 .. 28 /\ j \in 0 .. SlCount - 1
      /\ o \in 0 .. SlCount - 1
  BY <1>3, <1>4, <1>6 DEF InClass
<1>10. m <= l
  <2>1. ~ Before(InsertMapping(size), InsertMapping(s)) BY <1>1, <1>2, ClassesAreMonotone
  <2>2. ~ Before(<<l, i>>, <<m, j>>) BY <1>3, <1>4, <2>1 DEF InClass
  <2> QED BY <1>9, <2>2 DEF Before
<1>11. l <= n
  <2>1. ~ Before(InsertMapping(r), InsertMapping(size)) BY <1>2, <1>5, ClassesAreMonotone
  <2>2. ~ Before(<<n, o>>, <<l, i>>) BY <1>3, <1>6, <2>1 DEF InClass
  <2> QED BY <1>9, <2>2 DEF Before
<1>12. m = n /\ m = l /\ o <= j BY <1>8, <1>9, <1>10, <1>11, Counts DEF Before
<1> DEFINE g == Grain(l)
           b == Base(l)
<1>13. g \in Nat \ {0} /\ b \in Nat BY <1>9, GrainFacts
<1>14. s + g <= r
  <2>1. CASE Grain(l) = 4 BY <1>1, <1>2, <1>5, <1>7, <2>1
  <2>2. CASE r = size + Grain(l) - 1 BY <1>1, <1>2, <1>7, <1>13, <2>2
  <2> QED BY <1>5, <2>1, <2>2
<1>15. (b + j) * g <= s /\ r < (b + o + 1) * g BY <1>4, <1>6, <1>12 DEF InClass
<1> HIDE DEF g, b
<1>16. j \in Nat /\ o \in Nat BY <1>9, Counts
<1>17. (b + o + 1) * g <= (b + j + 1) * g BY <1>12, <1>13, <1>16
<1>18. (b + j + 1) * g = (b + j) * g + g BY <1>13, <1>16
<1>19. (b + j) * g \in Nat /\ (b + o + 1) * g \in Nat /\ (b + j + 1) * g \in Nat BY <1>13, <1>16
<1> DEFINE x == (b + j) * g
           y == (b + o + 1) * g
           z == (b + j + 1) * g
<1>20. /\ x \in Nat /\ y \in Nat /\ z \in Nat /\ x <= s /\ r < y /\ y <= z /\ z = x + g
  BY <1>15, <1>17, <1>18, <1>19
<1> HIDE DEF x, y, z
<1>21. r < s + g BY <1>2, <1>7, <1>13, <1>20
<1> QED BY <1>2, <1>7, <1>13, <1>14, <1>21

LEMMA SkippedClassesDoNotFit ==
  ASSUME NEW size \in Nat, 12 <= size, size <= Bit[29],
         NEW u \in 1 .. Bit[30] - 1, u % 4 = 0,
         Before(InsertMapping(u), SearchMapping(size))
  PROVE  \E m \in 1 .. size - 1 : m % 4 = 0 /\ m <= u /\ InsertMapping(m) = InsertMapping(u)
<1>1. size \in 1 .. Bit[30] - 1 /\ u \in Nat BY BitValues
<1>2. PICK l, i : InClass(size, l, i) BY <1>1, EverySizeHasAClass
<1>3. PICK x, c : InClass(u, x, c) BY EverySizeHasAClass
<1>4. PICK r \in 1 .. Bit[30] - 1 :
        /\ SearchMapping(size) = InsertMapping(r)
        /\ size <= r /\ r <= size + Grain(l) - 1
  BY <1>2, SearchRounds
<1>5. PICK n, o : InClass(r, n, o) BY EverySizeHasAClass
<1>6. r \in Nat BY BitValues
<1>7. Before(<<x, c>>, <<n, o>>) BY <1>3, <1>4, <1>5 DEF InClass
<1>8. /\ l \in 0 .. 28 /\ x \in 0 .. 28 /\ n \in 0 .. 28 /\ c \in 0 .. SlCount - 1
      /\ o \in 0 .. SlCount - 1 /\ i \in 0 .. SlCount - 1
  BY <1>2, <1>3, <1>5 DEF InClass
<1>9. l <= n
  <2>1. ~ Before(InsertMapping(r), InsertMapping(size)) BY <1>1, <1>4, ClassesAreMonotone
  <2>2. ~ Before(<<n, o>>, <<l, i>>) BY <1>2, <1>5, <2>1 DEF InClass
  <2> QED BY <1>8, <2>2 DEF Before
<1> DEFINE b == Base(x)
           g == Grain(x)
           w == Grain(l)
           m == (b + c) * g
<1>10. /\ g \in Nat \ {0} /\ b \in Nat /\ g % 4 = 0 /\ w \in Nat \ {0}
  BY <1>8, GrainFacts
<1>11. c \in Nat /\ o \in Nat /\ SlCount \in Nat /\ SlCount >= 2 BY <1>8, Counts
<1>12. m <= u /\ u < (b + c + 1) * g BY <1>3 DEF InClass
<1>13. m \in Nat BY <1>10, <1>11
<1>14. m # 0
  <2>1. CASE x = 0 /\ c = 0
    <3>1. g = 4 /\ b = 0 BY <2>1 DEF Grain, Base
    <3>2. u < 4 BY <1>12, <2>1, <3>1
    <3> QED BY <1>1, <3>2
  <2>2. CASE ~ (x = 0 /\ c = 0)
    <3>1. b + c # 0 BY <1>8, <1>11, <2>2 DEF Base
    <3> HIDE DEF b, g
    <3> QED BY <1>10, <1>11, <3>1
  <2> QED BY <2>1, <2>2
<1>15. m % 4 = 0
  <2> DEFINE q == g \div 4
  <2> HIDE DEF g, b
  <2>1. q \in Nat /\ g = 4 * q BY <1>10
  <2> HIDE DEF q
  <2> DEFINE p == (b + c) * q
  <2>2. p \in Nat BY <2>1, <1>10, <1>11
  <2>3. m = 4 * p BY <2>1, <1>10, <1>11
  <2> HIDE DEF m, p
  <2> QED BY <2>2, <2>3
<1> HIDE DEF m
<1>16. m \in 1 .. Bit[30] - 1 BY <1>1, <1>12, <1>13, <1>14, BitValues
<1>17. InsertMapping(m) = InsertMapping(u)
  <2>1. PICK y, d : InClass(m, y, d) BY <1>16, EverySizeHasAClass
  <2>2. ~ Before(InsertMapping(u), InsertMapping(m)) BY <1>12, <1>16, ClassesAreMonotone
  <2>3. ~ Before(<<x, c>>, <<y, d>>) BY <1>3, <2>1, <2>2 DEF InClass
  <2>4. ~ Before(<<y, d>>, <<x, c>>)
    <3>1. SUFFICES ASSUME Before(<<y, d>>, <<x, c>>) PROVE FALSE OBVIOUS
    <3>2. m < (Base(x) + c) * Grain(x) BY <1>1, <1>3, <1>13, <2>1, <3>1, ClassesAreOrdered
    <3>3. m < m BY <3>2 DEF m
    <3> QED BY <3>3, <1>13
  <2>5. y \in 0 .. 28 /\ d \in 0 .. SlCount - 1 BY <2>1 DEF InClass
  <2>6. y = x /\ d = c BY <1>8, <2>3, <2>4, <2>5, Counts DEF Before
  <2> QED BY <1>3, <2>1, <2>6 DEF InClass
<1>18. m < size
  <2> DEFINE f == (Base(n) + o) * Grain(n)
  <2>1. u < f /\ f <= r BY <1>1, <1>3, <1>5, <1>6, <1>7, ClassesAreOrdered
  <2>2. Base(n) \in Nat /\ Grain(n) \in Nat BY <1>8, GrainFacts
  <2>3. f \in Nat BY <2>2, <1>11
  <2>4. CASE x = n /\ c < o
    <3>1. f = (b + o) * g BY <2>4
    <3>2. w <= g
      <4>1. CASE l = n BY <4>1, <2>4, <1>10
      <4>2. CASE l < n BY <4>2, <2>4, <1>8, GrainFacts
      <4> QED BY <4>1, <4>2, <1>8, <1>9
    <3> HIDE DEF g, b, f, w
    <3>3. (b + c + 1) * g <= (b + o) * g BY <1>10, <1>11, <2>4
    <3>4. (b + c + 1) * g = m + g BY <1>10, <1>11 DEF m
    <3> DEFINE e == (b + c + 1) * g
    <3>5. e = m + g /\ e <= f BY <3>1, <3>3, <3>4
    <3> HIDE DEF e
    <3> QED BY <1>4, <1>6, <1>10, <1>13, <2>1, <2>3, <3>2, <3>5 DEF w
  <2>5. CASE x < n /\ x < l
    <3>1. Before(<<x, c>>, <<l, i>>) BY <2>5 DEF Before
    <3>2. u < (Base(l) + i) * Grain(l) /\ (Base(l) + i) * Grain(l) <= size
      BY <1>1, <1>2, <1>3, <3>1, ClassesAreOrdered
    <3> DEFINE e == (Base(l) + i) * Grain(l)
    <3>3. Base(l) \in Nat /\ Grain(l) \in Nat /\ i \in Nat
      <4>1. Base(l) \in Nat /\ Grain(l) \in Nat BY <1>8, GrainFacts
      <4> QED BY <4>1, <1>8, Counts
    <3>4. e \in Nat BY <3>3
    <3>5. u < e /\ e <= size BY <3>2
    <3> HIDE DEF e
    <3> QED BY <1>1, <1>12, <1>13, <3>4, <3>5
  <2>6. CASE x < n /\ l <= x
    <3>1. w <= g
      <4>1. CASE l = x BY <4>1, <1>10
      <4>2. CASE l < x BY <4>2, <1>8, GrainFacts
      <4> QED BY <4>1, <4>2, <1>8, <2>6
    <3> DEFINE h == Grain(n)
    <3>2. (b + SlCount) * g <= SlCount * h /\ Base(n) = SlCount BY <1>8, <2>6, GrainFacts
    <3>3. f = (SlCount + o) * h /\ h \in Nat BY <2>2, <3>2
    <3> HIDE DEF b, g, h, f, w
    <3>4. SlCount * h <= f BY <3>3, <1>11
    <3>5. (b + c + 1) * g <= (b + SlCount) * g BY <1>8, <1>10, <1>11
    <3>6. (b + c + 1) * g = m + g BY <1>10, <1>11 DEF m
    <3> DEFINE e == (b + c + 1) * g
               k == (b + SlCount) * g
               j == SlCount * h
    <3>7. k \in Nat /\ j \in Nat BY <1>10, <1>11, <3>3
    <3>8. e = m + g /\ e <= k /\ k <= j /\ j <= f BY <3>2, <3>4, <3>5, <3>6
    <3> HIDE DEF e, k, j
    <3> QED BY <1>4, <1>6, <1>10, <1>13, <2>1, <2>3, <3>1, <3>7, <3>8 DEF w
  <2> QED BY <1>7, <1>8, <2>4, <2>5, <2>6 DEF Before
<1>19. m \in 1 .. size - 1 BY <1>13, <1>14, <1>18
<1> QED BY <1>12, <1>15, <1>17, <1>19

LEMMA PoolSizes ==
  /\ PoolBytes \in 1 .. Bit[30] - 1 /\ PoolBytes \in Nat /\ PoolBytes % 4 = 0 /\ 12 <= PoolBytes
  /\ FirstBlock \in Nat \ {0} /\ FirstBlock % 4 = 0
BY TlsfAssumption, BitValues DEF FlIndexMax, Align, BlockSizeMin, HeaderSize

LEMMA SizesHaveClasses ==
  ASSUME NEW s \in 1 .. PoolBytes
  PROVE  InsertMapping(s) \in Classes
<1>1. s \in 1 .. Bit[30] - 1 /\ s <= PoolBytes BY PoolSizes, BitValues
<1>2. PICK l, i : InClass(s, l, i) BY <1>1, EverySizeHasAClass
<1>3. PICK m, j : InClass(PoolBytes, m, j) BY PoolSizes, EverySizeHasAClass
<1>4. ~ Before(InsertMapping(PoolBytes), InsertMapping(s)) BY <1>1, PoolSizes, ClassesAreMonotone
<1>5. ~ Before(<<m, j>>, <<l, i>>) BY <1>2, <1>3, <1>4 DEF InClass
<1>6. /\ l \in 0 .. 28 /\ i \in 0 .. SlCount - 1 /\ m \in 0 .. 28
      /\ InsertMapping(s) = <<l, i>> /\ InsertMapping(PoolBytes) = <<m, j>>
  BY <1>2, <1>3 DEF InClass
<1>7. l \in 0 .. m BY <1>5, <1>6 DEF Before
<1>8. Classes = (0 .. m) \X (0 .. SlCount - 1) BY <1>6 DEF Classes
<1> QED BY <1>6, <1>7, <1>8

(* A block's header, and a heap.                                            *)
Header == [size : Nat, free : BOOLEAN, prevFree : BOOLEAN, previous : Nat, next : Nat]

HeapOK(h) ==
  \E D \in SUBSET Nat :
    h \in [blocks : [D -> Header], head : [Classes -> Nat], fl : SUBSET Nat,
           sl : SUBSET Classes, failed : BOOLEAN, harmed : BOOLEAN]

After(B, b) == b + B[b].size + 4
InnerBlocks(B) == DOMAIN B \ {Sentinel}

(* The blocks lie behind one another, from the first one to the sentinel.   *)
Tiled(B) ==
  /\ FirstBlock \in DOMAIN B /\ Sentinel \in DOMAIN B
  /\ B[Sentinel].size = 0 /\ ~ B[Sentinel].free /\ ~ B[FirstBlock].prevFree
  /\ \A b \in DOMAIN B : FirstBlock <= b /\ b <= Sentinel /\ b % 4 = 0
  /\ \A b \in InnerBlocks(B) : 12 <= B[b].size /\ B[b].size % 4 = 0 /\ After(B, b) \in DOMAIN B
  /\ \A b \in DOMAIN B, c \in DOMAIN B : b < c => After(B, b) <= c
  /\ \A c \in DOMAIN B \ {FirstBlock} : \E b \in InnerBlocks(B) : After(B, b) = c

Flagged(B) ==
  \A b \in InnerBlocks(B) :
    /\ B[After(B, b)].prevFree = B[b].free
    /\ B[b].free => B[After(B, b)].previous = b

(* No two neighbours are free, but where the first one is in X.             *)
Coalesced(B, X) ==
  \A b \in InnerBlocks(B) : B[b].free /\ B[After(B, b)].free => b \in X

FreeIn(B) == {b \in InnerBlocks(B) : B[b].free}
ClassIn(B, b) == InsertMapping(B[b].size)

(* height: how far each block that is on a list is from the end of it.      *)
Heights(h, F, height) ==
  /\ height \in [F -> Nat \ {0}]
  /\ \A b \in F : IF h.blocks[b].next = NULL THEN height[b] = 1
                  ELSE /\ h.blocks[b].next \in F
                       /\ ClassIn(h.blocks, h.blocks[b].next) = ClassIn(h.blocks, b)
                       /\ height[b] = height[h.blocks[b].next] + 1
  /\ \A b \in F, c \in F :
       ClassIn(h.blocks, b) = ClassIn(h.blocks, c) /\ height[b] = height[c] => b = c
  /\ \A c \in Classes :
       h.head[c] = NULL \/ (h.head[c] \in F /\ ClassIn(h.blocks, h.head[c]) = c)
  /\ \A b \in F : /\ h.head[ClassIn(h.blocks, b)] # NULL
                  /\ height[b] <= height[h.head[ClassIn(h.blocks, b)]]

(* All free blocks but those in L are on the list of their class.           *)
Listed(h, L) ==
  /\ \E height : Heights(h, FreeIn(h.blocks) \ L, height)
  /\ h.sl = {c \in Classes : h.head[c] # NULL}
  /\ h.fl = {c[1] : c \in h.sl}

Whole(h, X, L) ==
  /\ HeapOK(h) /\ ~ h.failed /\ ~ h.harmed
  /\ Tiled(h.blocks) /\ Flagged(h.blocks) /\ Coalesced(h.blocks, X)
  /\ Listed(h, L)

LEMMA HeightsBuilt ==
  ASSUME NEW k, NEW B, k.blocks = B, NEW F, NEW height,
         height \in [F -> Nat \ {0}],
         \A b \in F : IF B[b].next = NULL THEN height[b] = 1
                      ELSE /\ B[b].next \in F /\ ClassIn(B, B[b].next) = ClassIn(B, b)
                           /\ height[b] = height[B[b].next] + 1,
         \A b \in F, c \in F :
           ClassIn(B, b) = ClassIn(B, c) /\ height[b] = height[c] => b = c,
         \A c \in Classes :
           k.head[c] = NULL \/ (k.head[c] \in F /\ ClassIn(B, k.head[c]) = c),
         \A b \in F : /\ k.head[ClassIn(B, b)] # NULL
                      /\ height[b] <= height[k.head[ClassIn(B, b)]]
  PROVE  Heights(k, F, height)
BY DEF Heights

LEMMA HeapFields ==
  ASSUME NEW h, HeapOK(h)
  PROVE  /\ DOMAIN h.blocks \in SUBSET Nat /\ h.blocks \in [DOMAIN h.blocks -> Header]
         /\ \A b \in DOMAIN h.blocks : h.blocks[b] \in Header
         /\ h.head \in [Classes -> Nat] /\ h.fl \in SUBSET Nat /\ h.sl \in SUBSET Classes
         /\ h.failed \in BOOLEAN /\ h.harmed \in BOOLEAN
         /\ h = [blocks |-> h.blocks, head |-> h.head, fl |-> h.fl, sl |-> h.sl,
                 failed |-> h.failed, harmed |-> h.harmed]
BY DEF HeapOK

LEMMA HeapBuilt ==
  ASSUME NEW B, NEW D \in SUBSET Nat, B \in [D -> Header], NEW head \in [Classes -> Nat],
         NEW fl \in SUBSET Nat, NEW sl \in SUBSET Classes, NEW failed \in BOOLEAN,
         NEW harmed \in BOOLEAN, NEW h,
         h = [blocks |-> B, head |-> head, fl |-> fl, sl |-> sl, failed |-> failed,
              harmed |-> harmed]
  PROVE  HeapOK(h)
BY DEF HeapOK

LEMMA TiledFacts ==
  ASSUME NEW h, HeapOK(h), Tiled(h.blocks)
  PROVE  /\ \A b \in InnerBlocks(h.blocks) :
              /\ b \in DOMAIN h.blocks /\ b \in Nat /\ b # 0 /\ b < Sentinel
              /\ After(h.blocks, b) \in DOMAIN h.blocks /\ After(h.blocks, b) # FirstBlock
              /\ After(h.blocks, b) \in Nat /\ b + 16 <= After(h.blocks, b)
              /\ NextBlock(h, b) = After(h.blocks, b)
              /\ h.blocks[b].size \in 1 .. PoolBytes
              /\ ClassIn(h.blocks, b) \in Classes
         /\ \A b \in InnerBlocks(h.blocks), c \in InnerBlocks(h.blocks) :
              After(h.blocks, b) = After(h.blocks, c) => b = c
         /\ Sentinel \in Nat /\ 0 \notin DOMAIN h.blocks /\ FirstBlock # Sentinel
         /\ FirstBlock \in InnerBlocks(h.blocks)
<1> DEFINE B == h.blocks
<1>1. /\ \A b \in DOMAIN B : b \in Nat /\ B[b].size \in Nat
  BY HeapFields DEF Header
<1>2. Sentinel \in Nat /\ FirstBlock # Sentinel /\ FirstBlock \in Nat \ {0}
  BY PoolSizes DEF Sentinel, Overhead
<1>3. ASSUME NEW b \in InnerBlocks(B)
      PROVE  /\ b \in DOMAIN B /\ b \in Nat /\ b # 0 /\ b < Sentinel
             /\ After(B, b) \in DOMAIN B /\ After(B, b) # FirstBlock
             /\ After(B, b) \in Nat /\ b + 16 <= After(B, b)
             /\ NextBlock(h, b) = After(B, b)
             /\ B[b].size \in 1 .. PoolBytes
             /\ ClassIn(B, b) \in Classes
  <2>1. b \in DOMAIN B /\ b # Sentinel /\ b \in Nat /\ B[b].size \in Nat
    BY <1>1 DEF InnerBlocks
  <2>2. FirstBlock <= b /\ b <= Sentinel /\ 12 <= B[b].size /\ After(B, b) \in DOMAIN B
    BY <2>1 DEF Tiled
  <2>3. After(B, b) <= Sentinel BY <2>2 DEF Tiled
  <2>4. After(B, b) = b + B[b].size + 4 BY DEF After
  <2>5. B[b].size <= PoolBytes
    BY <1>2, <2>1, <2>2, <2>3, <2>4, PoolSizes DEF Sentinel, Overhead
  <2>6. ClassIn(B, b) \in Classes BY <2>1, <2>2, <2>5, SizesHaveClasses, PoolSizes DEF ClassIn
  <2>7. NextBlock(h, b) = After(B, b) BY DEF NextBlock, After, Overhead
  <2>8. b # 0 /\ b < Sentinel BY <1>2, <2>1, <2>2
  <2>9. After(B, b) # FirstBlock /\ After(B, b) \in Nat /\ b + 16 <= After(B, b)
    BY <1>2, <2>1, <2>2, <2>4
  <2>10. B[b].size \in 1 .. PoolBytes BY <2>1, <2>2, <2>5, PoolSizes
  <2> QED BY <2>1, <2>2, <2>6, <2>7, <2>8, <2>9, <2>10
<1>4. ASSUME NEW b \in InnerBlocks(B), NEW c \in InnerBlocks(B), After(B, b) = After(B, c)
      PROVE  b = c
  <2>1. b \in Nat /\ c \in Nat /\ b \in DOMAIN B /\ c \in DOMAIN B BY <1>3
  <2>2. ~ (b < c)
    <3>1. b < c => After(B, b) <= c BY <2>1 DEF Tiled
    <3> QED BY <1>3, <1>4, <3>1, <2>1
  <2>3. ~ (c < b)
    <3>1. c < b => After(B, c) <= b BY <2>1 DEF Tiled
    <3> QED BY <1>3, <1>4, <3>1, <2>1
  <2> QED BY <2>1, <2>2, <2>3
<1>5. 0 \notin DOMAIN B BY <1>1, <1>2 DEF Tiled
<1>6. FirstBlock \in InnerBlocks(B) BY <1>2 DEF Tiled, InnerBlocks
<1> QED BY <1>2, <1>3, <1>4, <1>5, <1>6

(* Sizes as they were.                                                      *)
LEMMA TiledStays ==
  ASSUME NEW B, NEW C, Tiled(B), DOMAIN C = DOMAIN B,
         \A b \in DOMAIN B : C[b].size = B[b].size,
         ~ C[Sentinel].free, ~ C[FirstBlock].prevFree
  PROVE  /\ Tiled(C) /\ InnerBlocks(C) = InnerBlocks(B)
         /\ \A b \in DOMAIN B : After(C, b) = After(B, b) /\ ClassIn(C, b) = ClassIn(B, b)
<1>1. \A b \in DOMAIN B : After(C, b) = After(B, b) BY DEF After
<1>2. InnerBlocks(C) = InnerBlocks(B) BY DEF InnerBlocks
<1>3. \A b \in InnerBlocks(B) : b \in DOMAIN B BY DEF InnerBlocks
<1>4. Sentinel \in DOMAIN B BY DEF Tiled
<1>5. Tiled(C) BY <1>1, <1>2, <1>3, <1>4 DEF Tiled
<1>6. \A b \in DOMAIN B : ClassIn(C, b) = ClassIn(B, b) BY DEF ClassIn
<1> QED BY <1>1, <1>2, <1>5, <1>6

(* The blocks C are the blocks B with block b split in two.                 *)
CutFrom(B, b, size, rest, C) ==
  /\ b \in InnerBlocks(B) /\ size \in Nat /\ 12 <= size /\ size % 4 = 0
  /\ 16 + size <= B[b].size /\ rest = b + size + 4 /\ DOMAIN C = DOMAIN B \cup {rest}
  /\ C[b].size = size /\ C[rest].size = B[b].size - size - 4
  /\ \A c \in DOMAIN B \ {b} : C[c].size = B[c].size
  /\ ~ C[Sentinel].free /\ ~ C[FirstBlock].prevFree

Cut(B, b, rest, C) ==
  /\ Tiled(C) /\ rest \notin DOMAIN B /\ InnerBlocks(C) = InnerBlocks(B) \cup {rest}
  /\ After(C, b) = rest /\ After(C, rest) = After(B, b)
  /\ \A c \in DOMAIN B \ {b} : After(C, c) = After(B, c) /\ ClassIn(C, c) = ClassIn(B, c)

LEMMA CutTiles ==
  ASSUME NEW h, HeapOK(h), NEW B, B = h.blocks, Tiled(B), NEW b, NEW size, NEW rest, NEW C,
         CutFrom(B, b, size, rest, C)
  PROVE  Cut(B, b, rest, C) /\ rest \in Nat
<1>0. /\ b \in InnerBlocks(B) /\ size \in Nat /\ 12 <= size /\ size % 4 = 0
      /\ 16 + size <= B[b].size /\ rest = b + size + 4 /\ DOMAIN C = DOMAIN B \cup {rest}
      /\ C[b].size = size /\ C[rest].size = B[b].size - size - 4
      /\ \A c \in DOMAIN B \ {b} : C[c].size = B[c].size
      /\ ~ C[Sentinel].free /\ ~ C[FirstBlock].prevFree
  BY DEF CutFrom
<1> USE <1>0
<1>1. \A c \in DOMAIN B : c \in Nat /\ B[c].size \in Nat BY HeapFields DEF Header
<1>2. /\ b \in DOMAIN B /\ b \in Nat /\ After(B, b) \in DOMAIN B /\ After(B, b) \in Nat
      /\ b < Sentinel /\ Sentinel \in Nat /\ b + 16 <= After(B, b)
  BY TiledFacts
<1>3. After(B, b) = b + B[b].size + 4 /\ B[b].size \in Nat /\ B[b].size % 4 = 0
  BY <1>1, <1>2 DEF After, Tiled
<1>4. rest \in Nat /\ b + 16 <= rest /\ rest + 16 <= After(B, b) BY <1>2, <1>3
<1>5. After(C, b) = rest BY DEF After
<1>6. C[rest].size \in Nat /\ 12 <= C[rest].size /\ C[rest].size % 4 = 0 BY <1>3
<1>7. After(C, rest) = After(B, b) BY <1>2, <1>3, <1>4 DEF After
<1>8. rest \notin DOMAIN B
  <2>1. SUFFICES ASSUME rest \in DOMAIN B PROVE FALSE OBVIOUS
  <2>2. b < rest BY <1>2, <1>4
  <2>3. After(B, b) <= rest BY <1>2, <2>1, <2>2 DEF Tiled
  <2> QED BY <1>2, <1>4, <2>3
<1>9. \A c \in DOMAIN B \ {b} : After(C, c) = After(B, c) /\ ClassIn(C, c) = ClassIn(B, c)
  BY DEF After, ClassIn
<1>10. rest # Sentinel /\ rest <= Sentinel /\ FirstBlock <= rest /\ rest % 4 = 0
  <2>1. After(B, b) <= Sentinel /\ FirstBlock <= b /\ b % 4 = 0 /\ FirstBlock \in Nat
    BY <1>2, PoolSizes DEF Tiled
  <2>2. (b + size + 4) % 4 = 0 BY <1>2, <2>1
  <2> QED BY <1>2, <1>4, <2>1, <2>2
<1>11. InnerBlocks(C) = InnerBlocks(B) \cup {rest} BY <1>10 DEF InnerBlocks
<1>12. Sentinel \in DOMAIN B /\ FirstBlock \in DOMAIN B /\ Sentinel # b
  BY <1>2 DEF Tiled
<1>13. ASSUME NEW x \in DOMAIN C, NEW y \in DOMAIN C, x < y PROVE After(C, x) <= y
  <2>1. CASE x = b /\ y # rest
    <3>1. y \in DOMAIN B /\ After(B, b) <= y BY <1>2, <1>13, <2>1 DEF Tiled
    <3> QED BY <1>1, <1>2, <1>4, <1>5, <2>1, <3>1
  <2>2. CASE x = b /\ y = rest BY <1>4, <1>5, <2>2
  <2>3. CASE x = rest
    <3>1. y # rest /\ y \in DOMAIN B /\ y \in Nat BY <1>1, <1>4, <1>13, <2>3
    <3>2. b < y BY <1>2, <1>4, <1>13, <2>3, <3>1
    <3>3. After(B, b) <= y BY <1>2, <3>1, <3>2 DEF Tiled
    <3> QED BY <1>7, <2>3, <3>3
  <2>4. CASE x # b /\ x # rest /\ y = rest
    <3>1. x \in DOMAIN B /\ x \in Nat BY <1>1, <2>4
    <3>2. x < b
      <4>1. SUFFICES ASSUME b < x PROVE FALSE BY <1>2, <2>4, <3>1
      <4>2. After(B, b) <= x BY <1>2, <3>1, <4>1 DEF Tiled
      <4> QED BY <1>2, <1>4, <1>13, <2>4, <3>1, <4>2
    <3>3. After(B, x) <= b BY <1>2, <3>1, <3>2 DEF Tiled
    <3>4. After(B, x) \in Nat BY <1>1, <3>1 DEF After
    <3> QED BY <1>2, <1>4, <1>9, <2>4, <3>1, <3>3, <3>4
  <2>5. CASE x # b /\ x # rest /\ y # rest
    <3>1. x \in DOMAIN B /\ y \in DOMAIN B BY <2>5
    <3>2. After(B, x) <= y BY <1>13, <3>1 DEF Tiled
    <3> QED BY <1>9, <2>5, <3>1, <3>2
  <2> QED BY <2>1, <2>2, <2>3, <2>4, <2>5
<1>14. ASSUME NEW c \in DOMAIN C \ {FirstBlock} PROVE \E x \in InnerBlocks(C) : After(C, x) = c
  <2>1. CASE c = rest BY <1>5, <1>11, <2>1
  <2>2. CASE c # rest
    <3>1. PICK x \in InnerBlocks(B) : After(B, x) = c BY <2>2 DEF Tiled
    <3>2. CASE x = b BY <1>7, <1>11, <3>1, <3>2
    <3>3. CASE x # b BY <1>9, <1>11, <3>1, <3>3 DEF InnerBlocks
    <3> QED BY <3>2, <3>3
  <2> QED BY <2>1, <2>2
<1>15. \A x \in InnerBlocks(C) :
          12 <= C[x].size /\ C[x].size % 4 = 0 /\ After(C, x) \in DOMAIN C
  <2> TAKE x \in InnerBlocks(C)
  <2>1. CASE x = b BY <1>5, <2>1
  <2>2. CASE x = rest BY <1>2, <1>6, <1>7, <2>2
  <2>3. CASE x # b /\ x # rest
    <3>1. x \in InnerBlocks(B) /\ x \in DOMAIN B BY <1>11, <2>3 DEF InnerBlocks
    <3>2. 12 <= B[x].size /\ B[x].size % 4 = 0 /\ After(B, x) \in DOMAIN B
      BY <3>1 DEF Tiled
    <3> QED BY <1>9, <2>3, <3>1, <3>2
  <2> QED BY <2>1, <2>2, <2>3
<1>16. \A x \in DOMAIN C : FirstBlock <= x /\ x <= Sentinel /\ x % 4 = 0
  BY <1>10 DEF Tiled
<1>17. C[Sentinel].size = 0 BY <1>12 DEF Tiled
<1>18. Tiled(C) BY <1>12, <1>13, <1>14, <1>15, <1>16, <1>17 DEF Tiled
<1> QED BY <1>4, <1>5, <1>7, <1>8, <1>9, <1>11, <1>18 DEF Cut

(* The blocks C are the blocks B with block b and the one behind it, n,     *)
(* made one.                                                                *)
JoinFrom(B, b, n, C) ==
  /\ b \in InnerBlocks(B) /\ n \in InnerBlocks(B) /\ n = After(B, b)
  /\ DOMAIN C = DOMAIN B \ {n} /\ C[b].size = B[b].size + B[n].size + 4
  /\ \A c \in DOMAIN B \ {b, n} : C[c].size = B[c].size
  /\ ~ C[Sentinel].free /\ ~ C[FirstBlock].prevFree

Join(B, b, n, C) ==
  /\ Tiled(C) /\ InnerBlocks(C) = InnerBlocks(B) \ {n} /\ b # n
  /\ After(C, b) = After(B, n) /\ After(B, n) # n
  /\ \A c \in DOMAIN B \ {b, n} : After(C, c) = After(B, c) /\ ClassIn(C, c) = ClassIn(B, c)
  /\ \A c \in InnerBlocks(B) \ {b, n} : After(B, c) # n /\ After(B, c) # After(B, n)

LEMMA JoinTiles ==
  ASSUME NEW h, HeapOK(h), NEW B, B = h.blocks, Tiled(B), NEW b, NEW n, NEW C,
         JoinFrom(B, b, n, C)
  PROVE  Join(B, b, n, C)
<1>0. /\ b \in InnerBlocks(B) /\ n \in InnerBlocks(B) /\ n = After(B, b)
      /\ DOMAIN C = DOMAIN B \ {n} /\ C[b].size = B[b].size + B[n].size + 4
      /\ \A c \in DOMAIN B \ {b, n} : C[c].size = B[c].size
      /\ ~ C[Sentinel].free /\ ~ C[FirstBlock].prevFree
  BY DEF JoinFrom
<1> USE <1>0
<1>1. \A c \in DOMAIN B : c \in Nat /\ B[c].size \in Nat BY HeapFields DEF Header
<1>2. /\ b \in DOMAIN B /\ b \in Nat /\ n \in DOMAIN B /\ n \in Nat /\ b + 16 <= n /\ n < Sentinel
      /\ n # FirstBlock /\ Sentinel \in Nat
      /\ After(B, n) \in DOMAIN B /\ After(B, n) \in Nat /\ n + 16 <= After(B, n)
  BY TiledFacts
<1>3. n = b + B[b].size + 4 /\ After(B, n) = n + B[n].size + 4 BY DEF After
<1>4. After(C, b) = After(B, n) BY <1>1, <1>2, <1>3 DEF After
<1>5. \A c \in DOMAIN B \ {b, n} : After(C, c) = After(B, c) /\ ClassIn(C, c) = ClassIn(B, c)
  BY DEF After, ClassIn
<1>6. InnerBlocks(C) = InnerBlocks(B) \ {n} BY DEF InnerBlocks
<1>7. \A c \in InnerBlocks(B) \ {b, n} : After(B, c) # n /\ After(B, c) # After(B, n)
  BY TiledFacts
<1>8. Sentinel \in DOMAIN C /\ FirstBlock \in DOMAIN C BY <1>2 DEF Tiled
<1>9. ASSUME NEW x \in DOMAIN C, NEW y \in DOMAIN C, x < y PROVE After(C, x) <= y
  <2>1. x \in DOMAIN B /\ y \in DOMAIN B /\ x # n /\ y # n /\ x \in Nat /\ y \in Nat BY <1>1
  <2>2. After(B, x) <= y BY <1>9, <2>1 DEF Tiled
  <2>3. CASE x = b
    <3>1. n < y BY <1>2, <2>1, <2>2, <2>3
    <3>2. After(B, n) <= y BY <1>2, <2>1, <3>1 DEF Tiled
    <3> QED BY <1>4, <2>3, <3>2
  <2>4. CASE x # b BY <1>5, <2>1, <2>2, <2>4
  <2> QED BY <2>3, <2>4
<1>10. ASSUME NEW c \in DOMAIN C \ {FirstBlock} PROVE \E x \in InnerBlocks(C) : After(C, x) = c
  <2>1. PICK x \in InnerBlocks(B) : After(B, x) = c BY DEF Tiled
  <2>2. c # n OBVIOUS
  <2>3. CASE x = n
    <3>1. b \in InnerBlocks(C) BY <1>2, <1>6
    <3> QED BY <1>4, <2>1, <2>3, <3>1
  <2>4. CASE x # n
    <3>1. x # b BY <2>1, <2>2
    <3>2. x \in InnerBlocks(C) /\ x \in DOMAIN B \ {b, n} BY <1>6, <2>4, <3>1 DEF InnerBlocks
    <3> QED BY <1>5, <2>1, <3>2
  <2> QED BY <2>3, <2>4
<1>11. ASSUME NEW x \in InnerBlocks(C)
       PROVE  12 <= C[x].size /\ C[x].size % 4 = 0 /\ After(C, x) \in DOMAIN C
  <2>1. x \in InnerBlocks(B) /\ x # n /\ x \in DOMAIN B BY <1>6 DEF InnerBlocks
  <2>2. \A z \in InnerBlocks(B) :
          /\ B[z].size \in Nat /\ 12 <= B[z].size /\ B[z].size % 4 = 0
          /\ After(B, z) \in DOMAIN B
    BY <1>1 DEF Tiled, InnerBlocks
  <2>3. CASE x = b
    <3>1. C[x].size \in Nat /\ 12 <= C[x].size /\ C[x].size % 4 = 0 BY <2>2, <2>3
    <3> QED BY <1>2, <1>4, <2>3, <3>1
  <2>4. CASE x # b
    <3>1. After(C, x) \in DOMAIN C BY <1>5, <1>7, <2>1, <2>2, <2>4
    <3> QED BY <2>1, <2>2, <2>4, <3>1
  <2> QED BY <2>3, <2>4
<1>12. \A x \in DOMAIN C : FirstBlock <= x /\ x <= Sentinel /\ x % 4 = 0 BY DEF Tiled
<1>13. C[Sentinel].size = 0 BY <1>2 DEF Tiled
<1>14. Tiled(C) BY <1>8, <1>9, <1>10, <1>11, <1>12, <1>13 DEF Tiled
<1> QED BY <1>2, <1>4, <1>5, <1>6, <1>7, <1>14 DEF Join

-----------------------------------------------------------------------------
(* What stays when headers or lists change.                                 *)

(* The lists stay if what is on them stays.                                 *)
LEMMA ListedStays ==
  ASSUME NEW h, NEW k, NEW L, NEW M, Listed(h, L),
         k.head = h.head, k.fl = h.fl, k.sl = h.sl,
         FreeIn(k.blocks) \ M = FreeIn(h.blocks) \ L,
         \A b \in FreeIn(h.blocks) \ L :
           k.blocks[b].next = h.blocks[b].next /\ k.blocks[b].size = h.blocks[b].size
  PROVE  Listed(k, M)
<1> DEFINE F == FreeIn(h.blocks) \ L
<1>1. PICK height : Heights(h, F, height) BY DEF Listed
<1>2. \A b \in F : ClassIn(k.blocks, b) = ClassIn(h.blocks, b) /\ k.blocks[b].next = h.blocks[b].next
  BY DEF ClassIn
<1> HIDE DEF F
<1>3. Heights(k, F, height) BY <1>1, <1>2 DEF Heights
<1> QED BY <1>3 DEF Listed, F

(* The head of a list taken off it.                                         *)
LEMMA HeadRemoved ==
  ASSUME NEW h, NEW X, NEW L, Whole(h, X, L), NEW c \in Classes, NEW b, b = h.head[c], b # NULL
  PROVE  /\ Whole(RemoveFreeBlock(h, b, c), X, L \cup {b})
         /\ RemoveFreeBlock(h, b, c).blocks = h.blocks
         /\ b \in FreeIn(h.blocks) \ L /\ ClassIn(h.blocks, b) = c
<1> DEFINE B == h.blocks
           F == FreeIn(B) \ L
           k == RemoveFreeBlock(h, b, c)
           next == B[b].next
           sl == h.sl \ {c}
<1>1. PICK height : Heights(h, F, height) BY DEF Whole, Listed
<1>2. b \in F /\ ClassIn(B, b) = c BY <1>1 DEF Heights
<1>3. HeapOK(h) /\ h.sl = {d \in Classes : h.head[d] # NULL} /\ h.fl = {d[1] : d \in h.sl}
  BY DEF Whole, Listed
<1>4. k = IF next # NULL THEN [h EXCEPT !.head[c] = next]
          ELSE [h EXCEPT !.head[c] = NULL, !.sl = sl,
                         !.fl = IF \E d \in sl : d[1] = c[1] THEN @ ELSE @ \ {c[1]}]
  BY DEF RemoveFreeBlock
<1>5. B[b] \in Header /\ next \in Nat BY <1>2, <1>3, HeapFields DEF FreeIn, InnerBlocks, Header
<1>6. FreeIn(B) \ (L \cup {b}) = F \ {b} OBVIOUS
<1>7. F \subseteq FreeIn(B) OBVIOUS
<1>8. CASE next # NULL
  <2>1. k = [h EXCEPT !.head[c] = next] BY <1>4, <1>8
  <2>2. /\ k.blocks = B /\ k.fl = h.fl /\ k.sl = h.sl /\ k.failed = h.failed /\ k.harmed = h.harmed
        /\ k.head = [h.head EXCEPT ![c] = next] /\ HeapOK(k)
    BY <1>3, <1>5, <2>1, HeapFields DEF HeapOK
  <2>3. /\ next \in F /\ ClassIn(B, next) = c /\ height[b] = height[next] + 1
    BY <1>1, <1>2, <1>8 DEF Heights
  <2>4. height[b] \in Nat /\ height[next] \in Nat BY <1>1, <1>2, <2>3 DEF Heights
  <2>5. next # b BY <2>3, <2>4
  <2>6. \A x \in F \ {b} : B[x].next # b
    <3> SUFFICES ASSUME NEW x \in F \ {b}, B[x].next = b PROVE FALSE
      OBVIOUS
    <3>1. b # NULL OBVIOUS
    <3>2. height[x] = height[b] + 1 /\ ClassIn(B, x) = c BY <1>1, <1>2, <3>1 DEF Heights
    <3>3. height[x] <= height[b] /\ height[x] \in Nat BY <1>1, <3>2 DEF Heights
    <3> QED BY <2>4, <3>2, <3>3
  <2>7. \A x \in F \ {b} : ClassIn(B, x) = c => height[x] <= height[next]
    <3> SUFFICES ASSUME NEW x \in F \ {b}, ClassIn(B, x) = c PROVE height[x] <= height[next]
      OBVIOUS
    <3>1. height[x] <= height[b] /\ height[x] # height[b] /\ height[x] \in Nat
      BY <1>1, <1>2 DEF Heights
    <3> QED BY <2>3, <2>4, <3>1
  <2> DEFINE lower == [x \in F \ {b} |-> height[x]]
  <2>8. \A d \in Classes : k.head[d] = IF d = c THEN next ELSE h.head[d]
    BY <1>3, <2>2, HeapFields
  <2>9. Heights(k, F \ {b}, lower)
    <3>1. lower \in [F \ {b} -> Nat \ {0}] BY <1>1 DEF Heights
    <3>2. \A x \in F \ {b} : IF B[x].next = NULL THEN lower[x] = 1
                  ELSE /\ B[x].next \in F \ {b} /\ ClassIn(B, B[x].next) = ClassIn(B, x)
                       /\ lower[x] = lower[B[x].next] + 1
      BY <1>1, <2>6 DEF Heights
    <3>3. \A x \in F \ {b}, y \in F \ {b} :
            ClassIn(B, x) = ClassIn(B, y) /\ lower[x] = lower[y] => x = y
      BY <1>1 DEF Heights
    <3>4. \A d \in Classes :
            k.head[d] = NULL \/ (k.head[d] \in F \ {b} /\ ClassIn(B, k.head[d]) = d)
      BY <1>1, <1>2, <2>3, <2>5, <2>8 DEF Heights
    <3>5. ASSUME NEW x \in F \ {b}
          PROVE  k.head[ClassIn(B, x)] # NULL /\ lower[x] <= lower[k.head[ClassIn(B, x)]]
      <4>1. ClassIn(B, x) \in Classes BY <1>3, TiledFacts DEF Whole, FreeIn
      <4>2. CASE ClassIn(B, x) = c
        <5>1. k.head[ClassIn(B, x)] = next BY <2>8, <4>1, <4>2
        <5>2. next \in F \ {b} /\ height[x] <= height[next] BY <2>3, <2>5, <2>7, <4>2
        <5>3. lower[x] = height[x] /\ lower[next] = height[next] BY <5>2
        <5> HIDE DEF lower, k
        <5> QED BY <1>8, <5>1, <5>2, <5>3
      <4>3. CASE ClassIn(B, x) # c
        <5>1. k.head[ClassIn(B, x)] = h.head[ClassIn(B, x)] BY <2>8, <4>1, <4>3
        <5>2. h.head[ClassIn(B, x)] # NULL /\ height[x] <= height[h.head[ClassIn(B, x)]]
          BY <1>1 DEF Heights
        <5>3. k.head[ClassIn(B, x)] \in F \ {b} BY <3>4, <4>1, <5>1, <5>2
        <5> QED BY <5>1, <5>2, <5>3
      <4> QED BY <4>2, <4>3
    <3>6. k.blocks = B BY <2>2
    <3> HIDE DEF lower, F, k, B
    <3> QED BY ONLY <3>1, <3>2, <3>3, <3>4, <3>5, <3>6, HeightsBuilt
  <2>10. k.sl = {d \in Classes : k.head[d] # NULL}
    BY <1>1, <1>2, <1>3, <1>8, <2>2, <2>8
  <2>11. Listed(k, L \cup {b}) BY <1>3, <1>6, <2>2, <2>9, <2>10 DEF Listed
  <2> HIDE DEF k
  <2> QED BY <1>2, <2>2, <2>11 DEF Whole, k
<1>9. CASE next = NULL
  <2>1. k = [h EXCEPT !.head[c] = NULL, !.sl = sl,
                      !.fl = IF \E d \in sl : d[1] = c[1] THEN @ ELSE @ \ {c[1]}]
    BY <1>4, <1>9
  <2>2. /\ k.blocks = B /\ k.failed = h.failed /\ k.harmed = h.harmed /\ k.sl = sl
        /\ k.fl = IF \E d \in sl : d[1] = c[1] THEN h.fl ELSE h.fl \ {c[1]}
        /\ k.head = [h.head EXCEPT ![c] = NULL]
    BY <1>3, <2>1, HeapFields
  <2>3. HeapOK(k)
    <3>1. NULL \in Nat BY DEF NULL
    <3>2. k.head \in [Classes -> Nat] BY <1>3, <2>2, <3>1, HeapFields
    <3>3. k.fl \in SUBSET Nat /\ k.sl \in SUBSET Classes BY <1>3, <2>2, HeapFields
    <3>4. k = [blocks |-> B, head |-> k.head, fl |-> k.fl, sl |-> k.sl,
               failed |-> h.failed, harmed |-> h.harmed]
      <4>1. h = [blocks |-> B, head |-> h.head, fl |-> h.fl, sl |-> h.sl,
                 failed |-> h.failed, harmed |-> h.harmed]
        BY <1>3, HeapFields
      <4> QED BY <2>1, <4>1
    <3>5. /\ DOMAIN B \in SUBSET Nat /\ B \in [DOMAIN B -> Header]
          /\ h.failed \in BOOLEAN /\ h.harmed \in BOOLEAN
      BY <1>3, HeapFields
    <3> HIDE DEF k
    <3> QED BY <3>2, <3>3, <3>4, <3>5, HeapBuilt
  <2>4. height[b] = 1 BY <1>1, <1>2, <1>9 DEF Heights
  <2>5. \A x \in F \ {b} : ClassIn(B, x) # c
    <3> SUFFICES ASSUME NEW x \in F \ {b}, ClassIn(B, x) = c PROVE FALSE OBVIOUS
    <3>1. height[x] <= height[b] /\ height[x] # height[b] /\ height[x] \in Nat \ {0}
      BY <1>1, <1>2 DEF Heights
    <3> QED BY <2>4, <3>1
  <2> DEFINE lower == [x \in F \ {b} |-> height[x]]
  <2>6. \A d \in Classes : k.head[d] = IF d = c THEN NULL ELSE h.head[d]
    BY <1>3, <2>2, HeapFields
  <2>7. Heights(k, F \ {b}, lower)
    <3>1. lower \in [F \ {b} -> Nat \ {0}] BY <1>1 DEF Heights
    <3>2. \A x \in F \ {b} : IF B[x].next = NULL THEN lower[x] = 1
                  ELSE /\ B[x].next \in F \ {b} /\ ClassIn(B, B[x].next) = ClassIn(B, x)
                       /\ lower[x] = lower[B[x].next] + 1
      BY <1>1, <1>2, <2>5 DEF Heights
    <3>3. \A x \in F \ {b}, y \in F \ {b} :
            ClassIn(B, x) = ClassIn(B, y) /\ lower[x] = lower[y] => x = y
      BY <1>1 DEF Heights
    <3>4. \A d \in Classes :
            k.head[d] = NULL \/ (k.head[d] \in F \ {b} /\ ClassIn(B, k.head[d]) = d)
      BY <1>1, <1>2, <2>6 DEF Heights
    <3>5. ASSUME NEW x \in F \ {b}
          PROVE  k.head[ClassIn(B, x)] # NULL /\ lower[x] <= lower[k.head[ClassIn(B, x)]]
      <4>1. ClassIn(B, x) \in Classes BY <1>3, TiledFacts DEF Whole, FreeIn
      <4>2. k.head[ClassIn(B, x)] = h.head[ClassIn(B, x)] BY <2>5, <2>6, <4>1
      <4>3. h.head[ClassIn(B, x)] # NULL /\ height[x] <= height[h.head[ClassIn(B, x)]]
        BY <1>1 DEF Heights
      <4>4. k.head[ClassIn(B, x)] \in F \ {b} BY <3>4, <4>1, <4>2, <4>3
      <4> QED BY <4>2, <4>3, <4>4
    <3>6. k.blocks = B BY <2>2
    <3> HIDE DEF lower, F, k, B
    <3> QED BY ONLY <3>1, <3>2, <3>3, <3>4, <3>5, <3>6, HeightsBuilt
  <2>8. k.sl = {d \in Classes : k.head[d] # NULL} BY <1>3, <2>2, <2>6
  <2>9. k.fl = {d[1] : d \in k.sl}
    <3>1. c \in h.sl BY <1>3
    <3>2. h.sl = sl \cup {c} BY <3>1
    <3>3. CASE \E d \in sl : d[1] = c[1]
      <4>1. k.fl = h.fl BY <2>2, <3>3
      <4>2. {d[1] : d \in h.sl} = {d[1] : d \in sl} BY <3>2, <3>3
      <4> QED BY <1>3, <2>2, <4>1, <4>2
    <3>4. CASE ~ \E d \in sl : d[1] = c[1]
      <4>1. k.fl = h.fl \ {c[1]} BY <2>2, <3>4
      <4>2. {d[1] : d \in h.sl} \ {c[1]} = {d[1] : d \in sl} BY <3>2, <3>4
      <4> QED BY <1>3, <2>2, <4>1, <4>2
    <3> QED BY <3>3, <3>4
  <2>10. Listed(k, L \cup {b}) BY <1>6, <2>2, <2>7, <2>8, <2>9 DEF Listed
  <2> HIDE DEF k
  <2> QED BY <1>2, <2>2, <2>3, <2>10 DEF Whole, k
<1> QED BY <1>8, <1>9

(* A free block is taken off its list, or was not at the head of it.        *)
LEMMA BlockRemoved ==
  ASSUME NEW h, NEW X, NEW L, Whole(h, X, L), NEW b \in FreeIn(h.blocks) \ L
  PROVE  /\ \/ RemoveBlock(h, b).harmed
            \/ /\ Whole(RemoveBlock(h, b), X, L \cup {b})
         /\ RemoveBlock(h, b).blocks = h.blocks
<1>1. HeapOK(h) /\ b \in InnerBlocks(h.blocks) BY DEF Whole, FreeIn
<1>2. ClassIn(h.blocks, b) \in Classes /\ b # 0 BY <1>1, TiledFacts DEF Whole
<1>3. RemoveBlock(h, b) = RemoveFreeBlock(h, b, ClassIn(h.blocks, b)) BY DEF RemoveBlock, ClassIn
<1>4. CASE h.head[ClassIn(h.blocks, b)] = b
  BY <1>2, <1>3, <1>4, HeadRemoved DEF NULL
<1>5. CASE h.head[ClassIn(h.blocks, b)] # b
  <2>1. RemoveBlock(h, b) = [h EXCEPT !.harmed = TRUE] BY <1>3, <1>5 DEF RemoveFreeBlock
  <2> QED BY <1>1, <2>1, HeapFields
<1> QED BY <1>4, <1>5

(* A free block put on its list.                                            *)
LEMMA BlockInserted ==
  ASSUME NEW h, NEW X, NEW L, Whole(h, X, L), NEW b \in FreeIn(h.blocks), b \in L
  PROVE  /\ Whole(InsertBlock(h, b), X, L \ {b})
         /\ DOMAIN InsertBlock(h, b).blocks = DOMAIN h.blocks
         /\ \A x \in DOMAIN h.blocks :
              /\ InsertBlock(h, b).blocks[x].size = h.blocks[x].size
              /\ InsertBlock(h, b).blocks[x].free = h.blocks[x].free
              /\ InsertBlock(h, b).blocks[x].prevFree = h.blocks[x].prevFree
              /\ InsertBlock(h, b).blocks[x].previous = h.blocks[x].previous
<1> DEFINE B == h.blocks
           F == FreeIn(B) \ L
           c == ClassIn(B, b)
           k == InsertBlock(h, b)
           C == k.blocks
           old == h.head[c]
<1>1. HeapOK(h) /\ b \in InnerBlocks(B) /\ Tiled(B) BY DEF Whole, FreeIn
<1>2. /\ c \in Classes /\ b # NULL /\ b \in DOMAIN B /\ b \in Nat
  BY <1>1, TiledFacts DEF NULL
<1>3. k = [h EXCEPT !.blocks[b].next = old, !.head[c] = b,
                    !.fl = @ \cup {c[1]}, !.sl = @ \cup {c}]
  BY DEF InsertBlock, ClassIn
<1>4. old \in Nat /\ c[1] \in Nat
  <2>1. old \in Nat BY <1>1, <1>2, HeapFields
  <2>2. PICK s \in Nat : c \in (0 .. InsertMapping(PoolBytes)[1]) \X (0 .. SlCount - 1)
    BY <1>2 DEF Classes
  <2> QED BY <2>1, <2>2
<1>5. /\ DOMAIN B \in SUBSET Nat /\ B \in [DOMAIN B -> Header] /\ h.head \in [Classes -> Nat]
      /\ h.fl \in SUBSET Nat /\ h.sl \in SUBSET Classes
      /\ h.failed \in BOOLEAN /\ h.harmed \in BOOLEAN
      /\ h = [blocks |-> B, head |-> h.head, fl |-> h.fl, sl |-> h.sl,
              failed |-> h.failed, harmed |-> h.harmed]
  BY <1>1, HeapFields
<1> HIDE DEF c, old, k
<1>6. /\ C = [B EXCEPT ![b] = [B[b] EXCEPT !.next = old]]
      /\ k.head = [h.head EXCEPT ![c] = b] /\ k.fl = h.fl \cup {c[1]} /\ k.sl = h.sl \cup {c}
      /\ k.failed = h.failed /\ k.harmed = h.harmed
      /\ k = [blocks |-> C, head |-> k.head, fl |-> k.fl, sl |-> k.sl,
              failed |-> h.failed, harmed |-> h.harmed]
  BY <1>3, <1>5
<1> HIDE DEF C
<1>7. HeapOK(k)
  <2>1. [B[b] EXCEPT !.next = old] \in Header BY <1>2, <1>4, <1>5 DEF Header
  <2>2. C \in [DOMAIN B -> Header] BY <1>6, <1>5, <2>1
  <2>3. k.head \in [Classes -> Nat] BY <1>2, <1>6, <1>5
  <2>4. k.fl \in SUBSET Nat BY <1>4, <1>6, <1>5
  <2>5. k.sl \in SUBSET Classes BY <1>2, <1>6, <1>5
  <2> QED BY <1>6, <1>5, <2>2, <2>3, <2>4, <2>5, HeapBuilt
<1>8. /\ DOMAIN C = DOMAIN B
      /\ \A x \in DOMAIN B : /\ C[x].size = B[x].size /\ C[x].free = B[x].free
                             /\ C[x].prevFree = B[x].prevFree /\ C[x].previous = B[x].previous
                             /\ C[x].next = IF x = b THEN old ELSE B[x].next
  BY <1>2, <1>6, <1>5 DEF Header
<1>9. FirstBlock \in DOMAIN B /\ Sentinel \in DOMAIN B BY <1>1 DEF Tiled
<1>10. /\ Tiled(C) /\ InnerBlocks(C) = InnerBlocks(B)
       /\ \A x \in DOMAIN B : After(C, x) = After(B, x) /\ ClassIn(C, x) = ClassIn(B, x)
  <2>1. ~ C[Sentinel].free /\ ~ C[FirstBlock].prevFree BY <1>1, <1>8, <1>9 DEF Tiled
  <2>2. \A x \in DOMAIN B : C[x].size = B[x].size BY <1>8
  <2> QED BY <1>1, <1>8, <2>1, <2>2, TiledStays
<1>11. \A x \in InnerBlocks(B) : x \in DOMAIN B /\ After(B, x) \in DOMAIN B
  BY <1>1, TiledFacts
<1>12. Flagged(C) BY <1>8, <1>10, <1>11 DEF Flagged, Whole
<1>13. Coalesced(C, X) BY <1>8, <1>10, <1>11 DEF Coalesced, Whole
<1>14. FreeIn(C) = FreeIn(B) BY <1>8, <1>10, <1>11 DEF FreeIn
<1>15. FreeIn(C) \ (L \ {b}) = F \cup {b} /\ b \notin F BY <1>14
<1>16. Listed(k, L \ {b})
  <2>1. PICK height : Heights(h, F, height) BY DEF Whole, Listed
  <2>2. old = NULL \/ (old \in F /\ ClassIn(B, old) = c) BY <1>2, <2>1 DEF Heights, old
  <2>3. \A x \in F : x \in InnerBlocks(B) /\ x \in DOMAIN B BY <1>11 DEF FreeIn
  <2>4. \A x \in F : ClassIn(B, x) = c => old # NULL /\ height[x] <= height[old]
    BY <2>1 DEF Heights, old
  <2> DEFINE top == IF old = NULL THEN 1 ELSE height[old] + 1
             higher == [x \in F \cup {b} |-> IF x = b THEN top ELSE height[x]]
  <2>5. height \in [F -> Nat \ {0}] BY <2>1 DEF Heights
  <2>6. top \in Nat \ {0} BY <2>2, <2>5
  <2>7. \A x \in F : ClassIn(B, x) = c => height[x] < top
    <3> SUFFICES ASSUME NEW x \in F, ClassIn(B, x) = c PROVE height[x] < top OBVIOUS
    <3>1. old # NULL /\ height[x] <= height[old] /\ old \in F BY <2>2, <2>4
    <3>2. height[x] \in Nat /\ height[old] \in Nat BY <2>5, <3>1
    <3> QED BY <3>1, <3>2
  <2>8. \A x \in F \cup {b} : ClassIn(C, x) = ClassIn(B, x) BY <1>2, <1>10, <2>3
  <2>9. ClassIn(B, b) = c BY DEF c
  <2>10. \A d \in Classes : k.head[d] = IF d = c THEN b ELSE h.head[d] BY <1>6, <1>5
  <2>11. Heights(k, F \cup {b}, higher)
    <3>1. higher \in [F \cup {b} -> Nat \ {0}] BY <2>5, <2>6
    <3>2. ASSUME NEW x \in F \cup {b}
          PROVE  IF C[x].next = NULL THEN higher[x] = 1
                 ELSE /\ C[x].next \in F \cup {b} /\ ClassIn(C, C[x].next) = ClassIn(C, x)
                      /\ higher[x] = higher[C[x].next] + 1
      <4>1. CASE x = b
        <5>1. C[x].next = old /\ higher[x] = top BY <1>2, <1>8, <4>1
        <5>2. CASE old = NULL BY <5>1, <5>2
        <5>3. CASE old # NULL
          <6>1. old \in F /\ ClassIn(B, old) = c /\ old # b BY <2>2, <5>3, <1>15
          <6>2. higher[old] = height[old] BY <6>1
          <6>3. ClassIn(C, old) = ClassIn(C, x) BY <2>8, <2>9, <4>1, <6>1
          <6> QED BY <5>1, <5>3, <6>1, <6>2, <6>3
        <5> QED BY <5>2, <5>3
      <4>2. CASE x # b
        <5>1. x \in F /\ C[x].next = B[x].next /\ higher[x] = height[x] BY <1>8, <2>3, <4>2
        <5>2. CASE B[x].next = NULL BY <2>1, <5>1, <5>2 DEF Heights
        <5>3. CASE B[x].next # NULL
          <6>1. /\ B[x].next \in F /\ ClassIn(B, B[x].next) = ClassIn(B, x)
                /\ height[x] = height[B[x].next] + 1
            BY <2>1, <5>1, <5>3 DEF Heights
          <6>2. B[x].next # b BY <6>1, <1>15
          <6> HIDE DEF F
          <6> QED BY <2>8, <5>1, <5>3, <6>1, <6>2
        <5> QED BY <5>2, <5>3
      <4> QED BY <4>1, <4>2
    <3>3. ASSUME NEW x \in F \cup {b}, NEW y \in F \cup {b},
                 ClassIn(C, x) = ClassIn(C, y), higher[x] = higher[y]
          PROVE  x = y
      <4>1. ClassIn(B, x) = ClassIn(B, y) BY <2>8, <3>3
      <4>2. CASE x # b /\ y # b
        <5>1. x \in F /\ y \in F /\ height[x] = height[y] BY <3>3, <4>2
        <5> QED BY <2>1, <4>1, <5>1 DEF Heights
      <4>3. CASE x = b /\ y # b
        <5>1. y \in F /\ ClassIn(B, y) = c /\ height[y] = top BY <2>9, <3>3, <4>1, <4>3
        <5> QED BY <2>5, <2>6, <2>7, <5>1
      <4>4. CASE x # b /\ y = b
        <5>1. x \in F /\ ClassIn(B, x) = c /\ height[x] = top BY <2>9, <3>3, <4>1, <4>4
        <5> QED BY <2>5, <2>6, <2>7, <5>1
      <4> QED BY <4>2, <4>3, <4>4
    <3>4. \A d \in Classes :
            k.head[d] = NULL \/ (k.head[d] \in F \cup {b} /\ ClassIn(C, k.head[d]) = d)
      BY <2>1, <2>8, <2>9, <2>10 DEF Heights
    <3>5. ASSUME NEW x \in F \cup {b}
          PROVE  k.head[ClassIn(C, x)] # NULL /\ higher[x] <= higher[k.head[ClassIn(C, x)]]
      <4>1. ClassIn(C, x) = ClassIn(B, x) /\ ClassIn(B, x) \in Classes
        <5>1. x \in InnerBlocks(B) BY <1>1, <2>3
        <5> QED BY <1>1, <2>8, <5>1, TiledFacts
      <4>2. CASE ClassIn(B, x) = c
        <5>1. k.head[ClassIn(C, x)] = b /\ higher[b] = top BY <1>2, <2>10, <4>1, <4>2
        <5>2. higher[x] <= top BY <2>5, <2>6, <2>7, <4>2
        <5> QED BY <1>2, <5>1, <5>2
      <4>3. CASE ClassIn(B, x) # c
        <5>1. x \in F /\ higher[x] = height[x] BY <2>9, <4>3
        <5>2. k.head[ClassIn(C, x)] = h.head[ClassIn(B, x)] BY <2>10, <4>1, <4>3
        <5>3. h.head[ClassIn(B, x)] # NULL /\ height[x] <= height[h.head[ClassIn(B, x)]]
          BY <2>1, <5>1 DEF Heights
        <5>4. h.head[ClassIn(B, x)] \in F BY <2>1, <4>1, <5>3 DEF Heights
        <5> QED BY <1>15, <5>1, <5>2, <5>3, <5>4
      <4> QED BY <4>2, <4>3
    <3> HIDE DEF higher, F
    <3> QED BY <3>1, <3>2, <3>3, <3>4, <3>5 DEF Heights, C
  <2>12. h.sl = {d \in Classes : h.head[d] # NULL} /\ h.fl = {d[1] : d \in h.sl}
    BY DEF Whole, Listed
  <2>13. k.sl = {d \in Classes : k.head[d] # NULL} BY <1>2, <1>6, <2>10, <2>12
  <2>14. k.fl = {d[1] : d \in k.sl} BY <1>6, <2>12
  <2> HIDE DEF F
  <2>15. \E height2 : Heights(k, FreeIn(k.blocks) \ (L \ {b}), height2)
    BY <1>15, <2>11 DEF C
  <2> QED BY <2>13, <2>14, <2>15 DEF Listed
<1>17. Whole(k, X, L \ {b}) BY <1>6, <1>7, <1>10, <1>12, <1>13, <1>16 DEF Whole, C
<1> QED BY <1>8, <1>17 DEF k, C

-----------------------------------------------------------------------------
(* What the functions on headers make of the blocks.                        *)

(* The heap with blocks C, all else as it was.                              *)
WithBlocks(h, C) ==
  [blocks |-> C, head |-> h.head, fl |-> h.fl, sl |-> h.sl, failed |-> h.failed,
   harmed |-> h.harmed]

LEMMA BlocksReplaced ==
  ASSUME NEW h, HeapOK(h), NEW D \in SUBSET Nat, NEW C \in [D -> Header]
  PROVE  /\ HeapOK(WithBlocks(h, C)) /\ [h EXCEPT !.blocks = C] = WithBlocks(h, C)
         /\ WithBlocks(h, C).blocks = C /\ WithBlocks(h, C).head = h.head
         /\ WithBlocks(h, C).fl = h.fl /\ WithBlocks(h, C).sl = h.sl
         /\ WithBlocks(h, C).failed = h.failed /\ WithBlocks(h, C).harmed = h.harmed
<1>1. /\ h.head \in [Classes -> Nat] /\ h.fl \in SUBSET Nat /\ h.sl \in SUBSET Classes
      /\ h.failed \in BOOLEAN /\ h.harmed \in BOOLEAN
      /\ h = [blocks |-> h.blocks, head |-> h.head, fl |-> h.fl, sl |-> h.sl,
              failed |-> h.failed, harmed |-> h.harmed]
  BY HeapFields
<1>2. HeapOK(WithBlocks(h, C)) BY <1>1, HeapBuilt DEF WithBlocks
<1>3. [h EXCEPT !.blocks = C] = WithBlocks(h, C) BY <1>1 DEF WithBlocks
<1> QED BY <1>2, <1>3 DEF WithBlocks

LEMMA LinkEffect ==
  ASSUME NEW h, HeapOK(h), NEW b \in Nat, NEW n \in DOMAIN h.blocks, NextBlock(h, b) = n
  PROVE  LinkBlockWithNext(h, b) =
           WithBlocks(h, [h.blocks EXCEPT ![n] = [h.blocks[n] EXCEPT !.previous = b]])
<1> DEFINE B == h.blocks
<1>1. B \in [DOMAIN B -> Header]
      /\ h = [blocks |-> B, head |-> h.head, fl |-> h.fl, sl |-> h.sl,
              failed |-> h.failed, harmed |-> h.harmed]
  BY HeapFields
<1>2. LinkBlockWithNext(h, b) = [h EXCEPT !.blocks[n].previous = b] BY DEF LinkBlockWithNext
<1> QED BY <1>1, <1>2 DEF WithBlocks

LEMMA MarkFreeEffect ==
  ASSUME NEW h, HeapOK(h), NEW b \in DOMAIN h.blocks, NEW n \in DOMAIN h.blocks,
         NextBlock(h, b) = n, n # b
  PROVE  MarkBlockFree(h, b) =
           WithBlocks(h, [h.blocks EXCEPT
                            ![n] = [h.blocks[n] EXCEPT !.previous = b, !.prevFree = TRUE],
                            ![b] = [h.blocks[b] EXCEPT !.free = TRUE]])
<1> DEFINE B == h.blocks
           C == [B EXCEPT ![n] = [B[n] EXCEPT !.previous = b]]
<1>1. b \in Nat /\ B \in [DOMAIN B -> Header] BY HeapFields
<1>2. LinkBlockWithNext(h, b) = WithBlocks(h, C) BY <1>1, LinkEffect
<1>3. MarkBlockFree(h, b) = [WithBlocks(h, C) EXCEPT !.blocks[n].prevFree = TRUE,
                                                     !.blocks[b].free = TRUE]
  BY <1>2 DEF MarkBlockFree
<1>4. C[n] = [B[n] EXCEPT !.previous = b] /\ C[b] = B[b] /\ DOMAIN C = DOMAIN B BY <1>1
<1>5. MarkBlockFree(h, b) =
        WithBlocks(h, [C EXCEPT ![n] = [C[n] EXCEPT !.prevFree = TRUE],
                                ![b] = [C[b] EXCEPT !.free = TRUE]])
  <2> HIDE DEF C
  <2> QED BY <1>3, <1>4 DEF WithBlocks
<1>6. [C EXCEPT ![n] = [C[n] EXCEPT !.prevFree = TRUE], ![b] = [C[b] EXCEPT !.free = TRUE]]
        = [B EXCEPT ![n] = [B[n] EXCEPT !.previous = b, !.prevFree = TRUE],
                    ![b] = [B[b] EXCEPT !.free = TRUE]]
  BY <1>1
<1> QED BY <1>5, <1>6

LEMMA MarkUsedEffect ==
  ASSUME NEW h, HeapOK(h), NEW b \in DOMAIN h.blocks, NEW n \in DOMAIN h.blocks,
         NextBlock(h, b) = n, n # b
  PROVE  MarkBlockUsed(h, b) =
           WithBlocks(h, [h.blocks EXCEPT ![n] = [h.blocks[n] EXCEPT !.prevFree = FALSE],
                                          ![b] = [h.blocks[b] EXCEPT !.free = FALSE]])
<1> DEFINE B == h.blocks
<1>1. B \in [DOMAIN B -> Header]
      /\ h = [blocks |-> B, head |-> h.head, fl |-> h.fl, sl |-> h.sl,
              failed |-> h.failed, harmed |-> h.harmed]
  BY HeapFields
<1>2. MarkBlockUsed(h, b) = [h EXCEPT !.blocks[n].prevFree = FALSE, !.blocks[b].free = FALSE]
  BY DEF MarkBlockUsed
<1> QED BY <1>1, <1>2 DEF WithBlocks

LEMMA HandOverEffect ==
  ASSUME NEW h, HeapOK(h), NEW b \in DOMAIN h.blocks, NEW n \in DOMAIN h.blocks,
         NextBlock(h, b) = n, n # b
  PROVE  HandOver(h, b) =
           WithBlocks(h, [h.blocks EXCEPT ![b] = [h.blocks[b] EXCEPT !.next = 0],
                                          ![n] = [h.blocks[n] EXCEPT !.previous = 0]])
<1> DEFINE B == h.blocks
<1>1. B \in [DOMAIN B -> Header]
      /\ h = [blocks |-> B, head |-> h.head, fl |-> h.fl, sl |-> h.sl,
              failed |-> h.failed, harmed |-> h.harmed]
  BY HeapFields
<1>2. HandOver(h, b) = [h EXCEPT !.blocks[b].next = 0, !.blocks[n].previous = 0]
  BY DEF HandOver, NULL
<1> QED BY <1>1, <1>2 DEF WithBlocks

(* An ASSERT that holds.                                                    *)
LEMMA AssertEffect ==
  ASSUME NEW h, HeapOK(h), NEW condition \in BOOLEAN, condition
  PROVE  Assert(h, condition) = h
<1>1. h.failed \in BOOLEAN
      /\ h = [blocks |-> h.blocks, head |-> h.head, fl |-> h.fl, sl |-> h.sl,
              failed |-> h.failed, harmed |-> h.harmed]
  BY HeapFields
<1>2. Assert(h, condition) = [h EXCEPT !.failed = h.failed \/ ~ condition] BY DEF Assert
<1>3. (h.failed \/ ~ condition) = h.failed BY <1>1
<1> QED BY <1>1, <1>2, <1>3

-----------------------------------------------------------------------------
(* What they keep.                                                          *)

(* The flags and links back are right but behind block b.                   *)
FlaggedBut(B, b) ==
  \A x \in InnerBlocks(B) \ {b} :
    /\ B[After(B, x)].prevFree = B[x].free
    /\ B[x].free => B[After(B, x)].previous = x

(* A block that is on no list, and may be free next to free blocks, before  *)
(* and after it is marked used and handed over.                             *)
Takeable(h, X, L, b) ==
  /\ HeapOK(h) /\ ~ h.failed /\ ~ h.harmed /\ Tiled(h.blocks)
  /\ b \in InnerBlocks(h.blocks) /\ (b \in L \/ ~ h.blocks[b].free)
  /\ FlaggedBut(h.blocks, b) /\ Coalesced(h.blocks, X) /\ Listed(h, L)
  /\ \A x \in X : x = b \/ After(h.blocks, x) = b

LEMMA TakeableMarked ==
  ASSUME NEW h, NEW X, NEW L, NEW b, Takeable(h, X, L, b), NEW k, k = MarkBlockUsed(h, b)
  PROVE  /\ Whole(k, {}, L \ {b}) /\ DOMAIN k.blocks = DOMAIN h.blocks
         /\ \A x \in DOMAIN h.blocks :
              /\ k.blocks[x].size = h.blocks[x].size
              /\ k.blocks[x].free = (x # b /\ h.blocks[x].free)
<1> SUFFICES ASSUME HeapOK(h), ~ h.failed, ~ h.harmed, Tiled(h.blocks), b \in InnerBlocks(h.blocks),
                    b \in L \/ ~ h.blocks[b].free, FlaggedBut(h.blocks, b),
                    Coalesced(h.blocks, X), Listed(h, L),
                    \A x \in X : x = b \/ After(h.blocks, x) = b
             PROVE  /\ Whole(k, {}, L \ {b}) /\ DOMAIN k.blocks = DOMAIN h.blocks
                    /\ \A x \in DOMAIN h.blocks :
                         /\ k.blocks[x].size = h.blocks[x].size
                         /\ k.blocks[x].free = (x # b /\ h.blocks[x].free)
  BY DEF Takeable
<1> DEFINE B == h.blocks
           n == After(B, b)
           C == [B EXCEPT ![n] = [B[n] EXCEPT !.prevFree = FALSE],
                          ![b] = [B[b] EXCEPT !.free = FALSE]]
<1>1. /\ b \in DOMAIN B /\ n \in DOMAIN B /\ NextBlock(h, b) = n /\ n # b /\ n # FirstBlock
      /\ b # Sentinel
  <2>1. b \in Nat /\ n \in Nat /\ b + 16 <= n /\ b < Sentinel /\ Sentinel \in Nat BY TiledFacts
  <2> QED BY <2>1, TiledFacts
<1>2. B \in [DOMAIN B -> Header] /\ DOMAIN B \in SUBSET Nat BY HeapFields
<1>3. k = WithBlocks(h, C) BY <1>1, MarkUsedEffect
<1> HIDE DEF n
<1>4. [B[n] EXCEPT !.prevFree = FALSE] \in Header /\ [B[b] EXCEPT !.free = FALSE] \in Header
  BY <1>1, <1>2 DEF Header
<1>5. C \in [DOMAIN B -> Header] BY <1>1, <1>2, <1>4
<1>6. /\ HeapOK(k) /\ k.blocks = C /\ k.head = h.head /\ k.fl = h.fl /\ k.sl = h.sl
      /\ k.failed = h.failed /\ k.harmed = h.harmed
  <2> HIDE DEF C
  <2> QED BY <1>2, <1>3, <1>5, BlocksReplaced
<1>7. /\ DOMAIN C = DOMAIN B
      /\ \A x \in DOMAIN B : /\ C[x].size = B[x].size /\ C[x].next = B[x].next
                             /\ C[x].previous = B[x].previous
                             /\ C[x].free = (x # b /\ B[x].free)
                             /\ C[x].prevFree = (x # n /\ B[x].prevFree)
  BY <1>1, <1>2 DEF Header
<1> HIDE DEF C
<1>8. FirstBlock \in DOMAIN B /\ Sentinel \in DOMAIN B BY DEF Tiled
<1>9. /\ Tiled(C) /\ InnerBlocks(C) = InnerBlocks(B)
      /\ \A x \in DOMAIN B : After(C, x) = After(B, x) /\ ClassIn(C, x) = ClassIn(B, x)
  <2>1. ~ C[Sentinel].free /\ ~ C[FirstBlock].prevFree BY <1>1, <1>7, <1>8 DEF Tiled
  <2>2. \A x \in DOMAIN B : C[x].size = B[x].size BY <1>7
  <2> QED BY <1>7, <2>1, <2>2, TiledStays
<1>10. \A x \in InnerBlocks(B) : x \in DOMAIN B /\ After(B, x) \in DOMAIN B
                                 /\ (After(B, x) = n => x = b)
  BY TiledFacts DEF n
<1>11. Flagged(C)
  <2> SUFFICES ASSUME NEW x \in InnerBlocks(B)
               PROVE  /\ C[After(B, x)].prevFree = C[x].free
                      /\ C[x].free => C[After(B, x)].previous = x
    BY <1>9, <1>10 DEF Flagged
  <2>1. CASE x = b BY <1>1, <1>7, <2>1 DEF n
  <2>2. CASE x # b BY <1>7, <1>10, <2>2 DEF FlaggedBut
  <2> QED BY <2>1, <2>2
<1>12. Coalesced(C, {})
  <2> SUFFICES ASSUME NEW x \in InnerBlocks(B), C[x].free, C[After(B, x)].free
               PROVE  FALSE
    BY <1>9, <1>10 DEF Coalesced
  <2>1. x \in DOMAIN B /\ After(B, x) \in DOMAIN B BY <1>10
  <2>2. x # b /\ B[x].free /\ After(B, x) # b /\ B[After(B, x)].free BY <1>7, <2>1
  <2> QED BY <2>2 DEF Coalesced
<1>13. FreeIn(C) = FreeIn(B) \ {b} BY <1>7, <1>9, <1>10 DEF FreeIn
<1>14. b \in L \/ b \notin FreeIn(B) BY DEF FreeIn
<1>15. FreeIn(C) \ (L \ {b}) = FreeIn(B) \ L BY <1>13, <1>14
<1>16. \A x \in FreeIn(B) \ L : C[x].next = B[x].next /\ C[x].size = B[x].size
  BY <1>7, <1>10 DEF FreeIn
<1>17. Listed(k, L \ {b}) BY <1>6, <1>15, <1>16, ListedStays
<1> QED BY <1>6, <1>7, <1>9, <1>11, <1>12, <1>17 DEF Whole

LEMMA HandedOver ==
  ASSUME NEW h, NEW X, NEW L, Whole(h, X, L), NEW b \in InnerBlocks(h.blocks),
         ~ h.blocks[b].free, NEW k, k = HandOver(h, b)
  PROVE  /\ Whole(k, X, L)
         /\ DOMAIN k.blocks = DOMAIN h.blocks
         /\ \A x \in DOMAIN h.blocks :
              k.blocks[x].size = h.blocks[x].size /\ k.blocks[x].free = h.blocks[x].free
<1> DEFINE B == h.blocks
           n == After(B, b)
           C == [B EXCEPT ![b] = [B[b] EXCEPT !.next = 0],
                          ![n] = [B[n] EXCEPT !.previous = 0]]
<1>0. HeapOK(h) /\ Tiled(B) /\ Flagged(B) /\ Coalesced(B, X) /\ Listed(h, L)
  BY DEF Whole
<1>1. /\ b \in DOMAIN B /\ n \in DOMAIN B /\ NextBlock(h, b) = n /\ n # b
  <2>1. b \in Nat /\ n \in Nat /\ b + 16 <= n BY <1>0, TiledFacts
  <2> QED BY <1>0, <2>1, TiledFacts
<1>2. B \in [DOMAIN B -> Header] /\ DOMAIN B \in SUBSET Nat BY <1>0, HeapFields
<1>3. k = WithBlocks(h, C) BY <1>0, <1>1, HandOverEffect
<1> HIDE DEF n
<1>4. [B[b] EXCEPT !.next = 0] \in Header /\ [B[n] EXCEPT !.previous = 0] \in Header
  BY <1>1, <1>2 DEF Header
<1>5. C \in [DOMAIN B -> Header] BY <1>1, <1>2, <1>4
<1>6. /\ HeapOK(k) /\ k.blocks = C /\ k.head = h.head /\ k.fl = h.fl /\ k.sl = h.sl
      /\ k.failed = h.failed /\ k.harmed = h.harmed
  <2> HIDE DEF C
  <2> QED BY <1>0, <1>2, <1>3, <1>5, BlocksReplaced
<1>7. /\ DOMAIN C = DOMAIN B
      /\ \A x \in DOMAIN B : /\ C[x].size = B[x].size /\ C[x].free = B[x].free
                             /\ C[x].prevFree = B[x].prevFree
                             /\ C[x].next = IF x = b THEN 0 ELSE B[x].next
                             /\ C[x].previous = IF x = n THEN 0 ELSE B[x].previous
  BY <1>1, <1>2 DEF Header
<1> HIDE DEF C
<1>8. FirstBlock \in DOMAIN B /\ Sentinel \in DOMAIN B BY <1>0 DEF Tiled
<1>9. /\ Tiled(C) /\ InnerBlocks(C) = InnerBlocks(B)
      /\ \A x \in DOMAIN B : After(C, x) = After(B, x) /\ ClassIn(C, x) = ClassIn(B, x)
  <2>1. ~ C[Sentinel].free /\ ~ C[FirstBlock].prevFree BY <1>0, <1>7, <1>8 DEF Tiled
  <2>2. \A x \in DOMAIN B : C[x].size = B[x].size BY <1>7
  <2> QED BY <1>0, <1>7, <2>1, <2>2, TiledStays
<1>10. \A x \in InnerBlocks(B) : x \in DOMAIN B /\ After(B, x) \in DOMAIN B
                                 /\ (After(B, x) = n => x = b)
  BY <1>0, TiledFacts DEF n
<1>11. Flagged(C) BY <1>0, <1>7, <1>9, <1>10 DEF Flagged
<1>12. Coalesced(C, X) BY <1>0, <1>7, <1>9, <1>10 DEF Coalesced
<1>13. FreeIn(C) = FreeIn(B) /\ b \notin FreeIn(B) BY <1>7, <1>9, <1>10 DEF FreeIn
<1>14. \A x \in FreeIn(B) \ L : C[x].next = B[x].next /\ C[x].size = B[x].size
  BY <1>7, <1>10, <1>13 DEF FreeIn
<1>15. Listed(k, L) BY <1>0, <1>6, <1>13, <1>14, ListedStays
<1> QED BY <1>6, <1>7, <1>9, <1>11, <1>12, <1>15 DEF Whole

LEMMA FreeMarked ==
  ASSUME NEW h, NEW L, Whole(h, {}, L), NEW b \in InnerBlocks(h.blocks),
         ~ h.blocks[b].free, NEW k, k = MarkBlockFree(h, b)
  PROVE  /\ Whole(k, {b} \cup {x \in InnerBlocks(h.blocks) : After(h.blocks, x) = b}, L \cup {b})
         /\ DOMAIN k.blocks = DOMAIN h.blocks
         /\ \A x \in DOMAIN h.blocks :
              /\ k.blocks[x].size = h.blocks[x].size
              /\ k.blocks[x].free = (x = b \/ h.blocks[x].free)
<1> DEFINE B == h.blocks
           n == After(B, b)
           X == {b} \cup {x \in InnerBlocks(B) : After(B, x) = b}
           C == [B EXCEPT ![n] = [B[n] EXCEPT !.previous = b, !.prevFree = TRUE],
                          ![b] = [B[b] EXCEPT !.free = TRUE]]
<1>0. HeapOK(h) /\ Tiled(B) /\ Flagged(B) /\ Coalesced(B, {}) /\ Listed(h, L)
  BY DEF Whole
<1>1. /\ b \in DOMAIN B /\ n \in DOMAIN B /\ NextBlock(h, b) = n /\ n # b /\ n # FirstBlock
      /\ b # Sentinel /\ b \in Nat
  <2>1. b \in Nat /\ n \in Nat /\ b + 16 <= n /\ b < Sentinel /\ Sentinel \in Nat
    BY <1>0, TiledFacts
  <2> QED BY <1>0, <2>1, TiledFacts
<1>2. B \in [DOMAIN B -> Header] /\ DOMAIN B \in SUBSET Nat BY <1>0, HeapFields
<1>3. k = WithBlocks(h, C)
  <2>1. HeapOK(h) /\ b \in DOMAIN h.blocks /\ n \in DOMAIN h.blocks BY <1>0, <1>1
  <2>2. k = MarkBlockFree(h, b) /\ NextBlock(h, b) = n /\ n # b BY <1>1
  <2> HIDE DEF n
  <2> QED BY ONLY <2>1, <2>2, MarkFreeEffect, Zenon
<1> HIDE DEF n
<1>4. [B[n] EXCEPT !.previous = b, !.prevFree = TRUE] \in Header
      /\ [B[b] EXCEPT !.free = TRUE] \in Header
  BY <1>1, <1>2 DEF Header
<1>5. C \in [DOMAIN B -> Header] BY <1>1, <1>2, <1>4
<1>6. /\ HeapOK(k) /\ k.blocks = C /\ k.head = h.head /\ k.fl = h.fl /\ k.sl = h.sl
      /\ k.failed = h.failed /\ k.harmed = h.harmed
  <2> HIDE DEF C
  <2> QED BY <1>0, <1>2, <1>3, <1>5, BlocksReplaced
<1>7. /\ DOMAIN C = DOMAIN B
      /\ \A x \in DOMAIN B : /\ C[x].size = B[x].size /\ C[x].next = B[x].next
                             /\ C[x].previous = IF x = n THEN b ELSE B[x].previous
                             /\ C[x].free = (x = b \/ B[x].free)
                             /\ C[x].prevFree = (x = n \/ B[x].prevFree)
  BY <1>1, <1>2 DEF Header
<1> HIDE DEF C
<1>8. FirstBlock \in DOMAIN B /\ Sentinel \in DOMAIN B BY <1>0 DEF Tiled
<1>9. /\ Tiled(C) /\ InnerBlocks(C) = InnerBlocks(B)
      /\ \A x \in DOMAIN B : After(C, x) = After(B, x) /\ ClassIn(C, x) = ClassIn(B, x)
  <2>1. ~ C[Sentinel].free /\ ~ C[FirstBlock].prevFree BY <1>0, <1>1, <1>7, <1>8 DEF Tiled
  <2>2. \A x \in DOMAIN B : C[x].size = B[x].size BY <1>7
  <2> QED BY <1>0, <1>7, <2>1, <2>2, TiledStays
<1>10. \A x \in InnerBlocks(B) : x \in DOMAIN B /\ After(B, x) \in DOMAIN B
                                 /\ (After(B, x) = n => x = b)
  BY <1>0, TiledFacts DEF n
<1>11. Flagged(C)
  <2> SUFFICES ASSUME NEW x \in InnerBlocks(B)
               PROVE  /\ C[After(B, x)].prevFree = C[x].free
                      /\ C[x].free => C[After(B, x)].previous = x
    BY <1>9, <1>10 DEF Flagged
  <2>1. CASE x = b BY <1>1, <1>7, <2>1 DEF n
  <2>2. CASE x # b
    <3>1. x \in DOMAIN B /\ After(B, x) \in DOMAIN B /\ After(B, x) # n BY <1>10, <2>2
    <3>2. B[After(B, x)].prevFree = B[x].free /\ (B[x].free => B[After(B, x)].previous = x)
      BY <1>0 DEF Flagged
    <3> QED BY <1>7, <2>2, <3>1, <3>2
  <2> QED BY <2>1, <2>2
<1>12. Coalesced(C, X) BY <1>0, <1>7, <1>9, <1>10 DEF Coalesced
<1>13. FreeIn(C) = FreeIn(B) \cup {b} /\ b \notin FreeIn(B)
  BY <1>7, <1>9, <1>10 DEF FreeIn
<1>14. FreeIn(C) \ (L \cup {b}) = FreeIn(B) \ L BY <1>13
<1>15. \A x \in FreeIn(B) \ L : C[x].next = B[x].next /\ C[x].size = B[x].size
  BY <1>7, <1>10 DEF FreeIn
<1>16. Listed(k, L \cup {b}) BY <1>0, <1>6, <1>14, <1>15, ListedStays
<1> QED BY <1>6, <1>7, <1>9, <1>11, <1>12, <1>16 DEF Whole

(* What splitting block b makes of the blocks: the second part is free and  *)
(* on no list.                                                              *)
LEMMA SplitEffect ==
  ASSUME NEW h, HeapOK(h), Tiled(h.blocks), NEW b \in InnerBlocks(h.blocks), NEW size \in Nat,
         12 <= size, size % 4 = 0, 16 + size <= h.blocks[b].size,
         NEW rest, rest = b + size + 4, NEW k, k = LinkBlockWithNext(SplitBlock(h, b, size), b)
  PROVE  /\ HeapOK(k) /\ k.head = h.head /\ k.fl = h.fl /\ k.sl = h.sl
         /\ k.failed = h.failed /\ k.harmed = h.harmed
         /\ DOMAIN k.blocks = DOMAIN h.blocks \cup {rest}
         /\ k.blocks[rest] = [size |-> h.blocks[b].size - size - 4, free |-> TRUE,
                              prevFree |-> TRUE, previous |-> b, next |-> 0]
         /\ \A x \in DOMAIN h.blocks :
              /\ k.blocks[x].size = IF x = b THEN size ELSE h.blocks[x].size
              /\ k.blocks[x].free = h.blocks[x].free
              /\ k.blocks[x].next = h.blocks[x].next
              /\ k.blocks[x].prevFree = (x = After(h.blocks, b) \/ h.blocks[x].prevFree)
              /\ k.blocks[x].previous =
                   IF x = After(h.blocks, b) THEN rest ELSE h.blocks[x].previous
<1> DEFINE B == h.blocks
           n == After(B, b)
           D == DOMAIN B \cup {rest}
           header == [size |-> B[b].size - size - 4, free |-> TRUE, prevFree |-> TRUE,
                      previous |-> 0, next |-> 0]
           C == [c \in D |-> CASE c = rest -> header
                               [] c = b    -> [B[b] EXCEPT !.size = size]
                               [] OTHER    -> B[c]]
<1>1. B \in [DOMAIN B -> Header] /\ DOMAIN B \in SUBSET Nat BY HeapFields
<1>2. /\ b \in DOMAIN B /\ b \in Nat /\ n \in DOMAIN B /\ n \in Nat /\ NextBlock(h, b) = n
      /\ b + 16 <= n
  BY TiledFacts
<1>3. n = b + B[b].size + 4 /\ B[b].size \in Nat BY <1>1, <1>2 DEF After, Header
<1>4. rest \in Nat /\ b + 16 <= rest /\ rest + 16 <= n BY <1>2, <1>3
<1>5. rest \notin DOMAIN B
  <2>1. SUFFICES ASSUME rest \in DOMAIN B PROVE FALSE OBVIOUS
  <2>2. b < rest BY <1>2, <1>4
  <2>3. n <= rest BY <1>2, <2>1, <2>2 DEF Tiled
  <2> QED BY <1>2, <1>4, <2>3
<1>6. header \in Header /\ header.size \in Nat /\ 12 <= header.size BY <1>3 DEF Header
<1>7. D \in SUBSET Nat BY <1>1, <1>4
<1>8. C[rest] = header /\ C[b] = [B[b] EXCEPT !.size = size] /\ \A c \in DOMAIN B \ {b} : C[c] = B[c]
  BY <1>2, <1>5
<1>9. C \in [D -> Header]
  <2>1. [B[b] EXCEPT !.size = size] \in Header BY <1>1, <1>2 DEF Header
  <2> HIDE DEF header
  <2>2. \A c \in D : C[c] \in Header BY <1>1, <1>6, <1>8, <2>1
  <2>3. C = [c \in D |-> C[c]] OBVIOUS
  <2> HIDE DEF C
  <2> QED BY <2>2, <2>3
<1> DEFINE h0 == WithBlocks(h, C)
<1>10. SplitBlock(h, b, size) =
         Assert(MarkBlockFree([h EXCEPT !.blocks = C], rest), header.size >= 12)
  BY DEF SplitBlock, SplitPoint, Overhead, NULL, BlockSizeMin, HeaderSize
<1> HIDE DEF C, header
<1>11. /\ HeapOK(h0) /\ [h EXCEPT !.blocks = C] = h0 /\ h0.blocks = C
       /\ h0.head = h.head /\ h0.fl = h.fl /\ h0.sl = h.sl /\ h0.failed = h.failed
       /\ h0.harmed = h.harmed
  BY <1>7, <1>9, BlocksReplaced
<1> HIDE DEF h0
<1> DEFINE E == [C EXCEPT ![n] = [C[n] EXCEPT !.previous = rest, !.prevFree = TRUE],
                          ![rest] = [C[rest] EXCEPT !.free = TRUE]]
           h1 == WithBlocks(h0, E)
<1>12. NextBlock(h0, rest) = n
  <2>1. header.size = B[b].size - size - 4 BY DEF header
  <2>2. NextBlock(h0, rest) = rest + header.size + 4 BY <1>8, <1>11 DEF NextBlock, Overhead
  <2> QED BY <1>2, <1>3, <2>1, <2>2
<1>13. DOMAIN C = D BY <1>9
<1> HIDE DEF n
<1>14. MarkBlockFree(h0, rest) = h1
  <2>1. rest \in DOMAIN h0.blocks /\ n \in DOMAIN h0.blocks /\ n # rest
    BY <1>2, <1>4, <1>11, <1>13
  <2>2. HeapOK(h0) /\ h0.blocks = C BY <1>11
  <2> HIDE DEF E, h1
  <2>3. MarkBlockFree(h0, rest) =
          WithBlocks(h0, [h0.blocks EXCEPT
                            ![n] = [h0.blocks[n] EXCEPT !.previous = rest, !.prevFree = TRUE],
                            ![rest] = [h0.blocks[rest] EXCEPT !.free = TRUE]])
    BY <1>12, <2>1, <2>2, MarkFreeEffect
  <2> USE DEF E, h1
  <2> QED BY <2>2, <2>3
<1>15. E \in [D -> Header]
  <2>1. C[n] \in Header /\ C[rest] \in Header BY <1>2, <1>9
  <2>2. [C[n] EXCEPT !.previous = rest, !.prevFree = TRUE] \in Header
        /\ [C[rest] EXCEPT !.free = TRUE] \in Header
    BY <1>4, <2>1 DEF Header
  <2> QED BY <1>9, <2>2
<1>16. E[rest] = [C[rest] EXCEPT !.free = TRUE]
       /\ E[n] = [C[n] EXCEPT !.previous = rest, !.prevFree = TRUE]
       /\ \A c \in D \ {rest, n} : E[c] = C[c]
  <2>1. n # rest /\ n \in D /\ rest \in D BY <1>2, <1>4
  <2> HIDE DEF D
  <2> QED BY <1>13, <2>1
<1> HIDE DEF E
<1>17. /\ HeapOK(h1) /\ h1.blocks = E
       /\ h1.head = h.head /\ h1.fl = h.fl /\ h1.sl = h.sl /\ h1.failed = h.failed
       /\ h1.harmed = h.harmed
  <2>1. HeapOK(h0) BY <1>11
  <2> HIDE DEF D, h1
  <2>2. h1 = WithBlocks(h0, E) BY DEF h1
  <2>3. HeapOK(h1) /\ h1.blocks = E /\ h1.head = h0.head /\ h1.fl = h0.fl /\ h1.sl = h0.sl
        /\ h1.failed = h0.failed /\ h1.harmed = h0.harmed
    BY <1>7, <1>15, <2>1, <2>2, BlocksReplaced
  <2> QED BY <1>11, <2>3
<1> HIDE DEF h1
<1>18. SplitBlock(h, b, size) = h1
  <2>1. (header.size >= 12) = TRUE BY <1>6
  <2>2. SplitBlock(h, b, size) = Assert(h1, header.size >= 12) BY <1>10, <1>11, <1>14
  <2> QED BY <1>17, <2>1, <2>2, AssertEffect
<1>19. b \in D \ {rest, n} BY <1>2, <1>4
<1>20. NextBlock(h1, b) = rest
  <2>1. E[b].size = size BY <1>1, <1>2, <1>8, <1>16, <1>19 DEF Header
  <2> QED BY <1>17, <2>1 DEF NextBlock, Overhead
<1> DEFINE G == [E EXCEPT ![rest] = [E[rest] EXCEPT !.previous = b]]
<1>21. rest \in DOMAIN E BY <1>15
<1>22. k = WithBlocks(h1, G)
  <2> HIDE DEF D
  <2> QED BY <1>2, <1>17, <1>18, <1>20, <1>21, LinkEffect
<1>23. G \in [D -> Header]
  <2>1. [E[rest] EXCEPT !.previous = b] \in Header BY <1>2, <1>15, <1>21 DEF Header
  <2> QED BY <1>15, <2>1
<1>24. G[rest] = [E[rest] EXCEPT !.previous = b] /\ \A c \in D \ {rest} : G[c] = E[c]
  BY <1>15, <1>21
<1> HIDE DEF G
<1>25. /\ HeapOK(k) /\ k.blocks = G
       /\ k.head = h.head /\ k.fl = h.fl /\ k.sl = h.sl /\ k.failed = h.failed
       /\ k.harmed = h.harmed
  BY <1>7, <1>17, <1>22, <1>23, BlocksReplaced
<1>26. DOMAIN G = D BY <1>23
<1>27. G[rest] = [size |-> B[b].size - size - 4, free |-> TRUE, prevFree |-> TRUE,
                  previous |-> b, next |-> 0]
  <2>1. G[rest] = [[header EXCEPT !.free = TRUE] EXCEPT !.previous = b] BY <1>8, <1>16, <1>24
  <2> QED BY <2>1 DEF header
<1>28. ASSUME NEW x \in DOMAIN B
       PROVE  /\ G[x].size = IF x = b THEN size ELSE B[x].size
              /\ G[x].free = B[x].free /\ G[x].next = B[x].next
              /\ G[x].prevFree = (x = n \/ B[x].prevFree)
              /\ G[x].previous = IF x = n THEN rest ELSE B[x].previous
  <2>1. x # rest /\ x \in D \ {rest} /\ G[x] = E[x] BY <1>5, <1>24
  <2>2. B[x] \in Header /\ B[b] \in Header BY <1>1, <1>2
  <2>3. CASE x = n
    <3>1. n # b BY <1>19
    <3>2. C[n] = B[n] BY <1>8, <2>3, <3>1
    <3>3. G[x] = [B[x] EXCEPT !.previous = rest, !.prevFree = TRUE] BY <1>16, <2>1, <2>3, <3>2
    <3> QED BY <2>2, <2>3, <3>1, <3>3 DEF Header
  <2>4. CASE x = b
    <3>1. G[x] = [B[b] EXCEPT !.size = size] BY <1>8, <1>16, <1>19, <2>1, <2>4
    <3>2. x # n BY <1>19, <2>4
    <3> QED BY <2>2, <2>4, <3>1, <3>2 DEF Header
  <2>5. CASE x # n /\ x # b
    <3>1. G[x] = B[x] BY <1>8, <1>16, <2>1, <2>5
    <3> QED BY <2>2, <2>5, <3>1 DEF Header
  <2> QED BY <2>3, <2>4, <2>5
<1> QED BY <1>25, <1>26, <1>27, <1>28 DEF n

(* A free block on no list split into two such blocks.                      *)
Splits(h, X, L, b, size) ==
  /\ Whole(h, X, L) /\ b \in FreeIn(h.blocks) /\ b \in L /\ b \notin X
  /\ size \in Nat /\ 12 <= size /\ size % 4 = 0 /\ 16 + size <= h.blocks[b].size

Split(h, k, X, L, b, size, rest) ==
  /\ Whole(k, X \cup {b}, L \cup {rest})
  /\ DOMAIN k.blocks = DOMAIN h.blocks \cup {rest} /\ rest \notin DOMAIN h.blocks
  /\ k.blocks[rest].free /\ k.blocks[rest].size = h.blocks[b].size - size - 4
  /\ rest \in InnerBlocks(k.blocks)
  /\ b \in InnerBlocks(k.blocks) /\ k.blocks[b].size = size /\ k.blocks[b].free
  /\ After(k.blocks, b) = rest
  /\ \A x \in InnerBlocks(h.blocks) \ {b} : After(k.blocks, x) = After(h.blocks, x)
  /\ \A x \in DOMAIN h.blocks \ {b} :
       k.blocks[x].size = h.blocks[x].size /\ k.blocks[x].free = h.blocks[x].free

LEMMA FreeSplit ==
  ASSUME NEW h, NEW X, NEW L, NEW b, NEW size, Splits(h, X, L, b, size),
         NEW rest, rest = b + size + 4, NEW k, k = LinkBlockWithNext(SplitBlock(h, b, size), b)
  PROVE  Split(h, k, X, L, b, size, rest)
<1> USE DEF Splits
<1> DEFINE B == h.blocks
           C == k.blocks
           n == After(B, b)
<1>0. HeapOK(h) /\ Tiled(B) /\ Flagged(B) /\ Coalesced(B, X) /\ Listed(h, L)
      /\ b \in InnerBlocks(B) /\ B[b].free /\ ~ h.failed /\ ~ h.harmed
  BY DEF Whole, FreeIn
<1>1. /\ HeapOK(k) /\ k.head = h.head /\ k.fl = h.fl /\ k.sl = h.sl
      /\ k.failed = h.failed /\ k.harmed = h.harmed
      /\ DOMAIN C = DOMAIN B \cup {rest}
      /\ C[rest] = [size |-> B[b].size - size - 4, free |-> TRUE,
                    prevFree |-> TRUE, previous |-> b, next |-> 0]
      /\ \A x \in DOMAIN B :
              /\ C[x].size = IF x = b THEN size ELSE B[x].size
              /\ C[x].free = B[x].free
              /\ C[x].next = B[x].next
              /\ C[x].prevFree = (x = n \/ B[x].prevFree)
              /\ C[x].previous = IF x = n THEN rest ELSE B[x].previous
  BY <1>0, SplitEffect
<1> HIDE DEF C
<1>2. /\ b \in DOMAIN B /\ n \in DOMAIN B /\ n # FirstBlock /\ n \in Nat /\ b \in Nat
      /\ b + 16 <= n
  BY <1>0, TiledFacts
<1>3. FirstBlock \in DOMAIN B /\ Sentinel \in DOMAIN B /\ ~ B[Sentinel].free
      /\ ~ B[FirstBlock].prevFree
  BY <1>0 DEF Tiled
<1>4. ~ C[Sentinel].free /\ ~ C[FirstBlock].prevFree BY <1>1, <1>2, <1>3
<1>5. C[b].size = size /\ C[rest].size = B[b].size - size - 4
      /\ \A c \in DOMAIN B \ {b} : C[c].size = B[c].size
  BY <1>1, <1>2
<1>6. /\ Tiled(C) /\ rest \notin DOMAIN B /\ InnerBlocks(C) = InnerBlocks(B) \cup {rest}
      /\ After(C, b) = rest /\ After(C, rest) = n
      /\ \A c \in DOMAIN B \ {b} : After(C, c) = After(B, c) /\ ClassIn(C, c) = ClassIn(B, c)
  <2>1. CutFrom(B, b, size, rest, C) BY <1>0, <1>1, <1>4, <1>5 DEF CutFrom
  <2>2. Cut(B, b, rest, C) BY <1>0, <2>1, CutTiles
  <2> HIDE DEF B
  <2> QED BY <2>2 DEF Cut
<1>7. \A x \in InnerBlocks(B) : x \in DOMAIN B /\ After(B, x) \in DOMAIN B
                                 /\ (After(B, x) = n => x = b)
  BY <1>0, TiledFacts
<1> HIDE DEF n
<1>8. Flagged(C)
  <2> SUFFICES ASSUME NEW x \in InnerBlocks(C)
               PROVE  /\ C[After(C, x)].prevFree = C[x].free
                      /\ C[x].free => C[After(C, x)].previous = x
    BY DEF Flagged
  <2>0. \A y \in DOMAIN B : B[y].free \in BOOLEAN /\ B[y].prevFree \in BOOLEAN
    BY <1>0, HeapFields DEF Header
  <2>1. CASE x = b
    <3>1. C[b].free = TRUE /\ C[rest].prevFree = TRUE /\ C[rest].previous = b
      BY <1>0, <1>1, <1>2, <2>0
    <3> QED BY <1>6, <2>1, <3>1
  <2>2. CASE x = rest
    <3>1. C[n].prevFree = TRUE
      <4>1. C[n].prevFree = (n = n \/ B[n].prevFree) BY <1>1, <1>2
      <4> QED BY <4>1
    <3>2. C[rest].free = TRUE /\ C[n].previous = rest BY <1>1, <1>2
    <3> QED BY <1>6, <2>2, <3>1, <3>2
  <2>3. CASE x # b /\ x # rest
    <3>1. x \in InnerBlocks(B) /\ x \in DOMAIN B /\ After(C, x) = After(B, x)
          /\ After(B, x) \in DOMAIN B /\ After(B, x) # n
      BY <1>6, <1>7, <2>3
    <3>2. B[After(B, x)].prevFree = B[x].free /\ (B[x].free => B[After(B, x)].previous = x)
      <4>1. Flagged(B) BY <1>0
      <4> HIDE DEF B
      <4> QED BY <3>1, <4>1 DEF Flagged
    <3>3. C[x].free = B[x].free /\ C[After(B, x)].prevFree = B[After(B, x)].prevFree
          /\ C[After(B, x)].previous = B[After(B, x)].previous
      BY <1>1, <2>0, <3>1
    <3> QED BY <3>1, <3>2, <3>3
  <2> QED BY <2>1, <2>2, <2>3
<1>9. Coalesced(C, X \cup {b})
  <2> SUFFICES ASSUME NEW x \in InnerBlocks(C), C[x].free, C[After(C, x)].free
               PROVE  x \in X \cup {b}
    BY DEF Coalesced
  <2>1. CASE x = rest
    <3>1. B[n].free BY <1>1, <1>2, <1>6, <2>1
    <3> QED BY <1>0, <3>1 DEF Coalesced, n
  <2>2. CASE x # b /\ x # rest
    <3>1. x \in InnerBlocks(B) /\ x \in DOMAIN B /\ After(C, x) = After(B, x)
          /\ After(B, x) \in DOMAIN B
      BY <1>6, <1>7, <2>2
    <3> QED BY <1>0, <1>1, <3>1 DEF Coalesced
  <2> QED BY <2>1, <2>2
<1>10. FreeIn(C) = FreeIn(B) \cup {rest} BY <1>1, <1>6, <1>7 DEF FreeIn
<1>11. FreeIn(C) \ (L \cup {rest}) = FreeIn(B) \ L BY <1>6, <1>7, <1>10 DEF FreeIn
<1>12. \A x \in FreeIn(B) \ L : C[x].next = B[x].next /\ C[x].size = B[x].size
  BY <1>1, <1>7 DEF FreeIn
<1>13. Listed(k, L \cup {rest}) BY <1>0, <1>1, <1>11, <1>12, ListedStays DEF C
<1>14. Whole(k, X \cup {b}, L \cup {rest}) BY <1>0, <1>1, <1>6, <1>8, <1>9, <1>13 DEF Whole, C
<1>15. \A x \in InnerBlocks(B) \ {b} : After(C, x) = After(B, x) BY <1>6, <1>7
<1>16. C[b].free /\ C[rest].free /\ \A x \in DOMAIN B : C[x].free = B[x].free
  BY <1>0, <1>1, <1>2
<1> QED BY <1>0, <1>1, <1>5, <1>6, <1>14, <1>15, <1>16 DEF Split, C

(* What absorbing block b into a, the one before it, makes of the blocks.   *)
LEMMA AbsorbEffect ==
  ASSUME NEW h, HeapOK(h), Tiled(h.blocks), NEW a \in InnerBlocks(h.blocks),
         NEW b \in InnerBlocks(h.blocks), After(h.blocks, a) = b,
         NEW k, k = AbsorbBlock(h, a, b)
  PROVE  /\ HeapOK(k) /\ k.head = h.head /\ k.fl = h.fl /\ k.sl = h.sl
         /\ k.failed = h.failed /\ k.harmed = h.harmed
         /\ DOMAIN k.blocks = DOMAIN h.blocks \ {b}
         /\ \A x \in DOMAIN k.blocks :
              /\ k.blocks[x].size = IF x = a THEN h.blocks[a].size + h.blocks[b].size + 4
                                    ELSE h.blocks[x].size
              /\ k.blocks[x].free = h.blocks[x].free
              /\ k.blocks[x].next = h.blocks[x].next
              /\ k.blocks[x].prevFree = h.blocks[x].prevFree
              /\ k.blocks[x].previous =
                   IF x = After(h.blocks, b) THEN a ELSE h.blocks[x].previous
<1> DEFINE B == h.blocks
           n == After(B, b)
           D == DOMAIN B \ {b}
           sum == B[a].size + B[b].size + 4
           C == [x \in D |-> IF x = a THEN [B[a] EXCEPT !.size = sum] ELSE B[x]]
<1>1. B \in [DOMAIN B -> Header] /\ DOMAIN B \in SUBSET Nat BY HeapFields
<1>2. /\ a \in DOMAIN B /\ a \in Nat /\ b \in DOMAIN B /\ b \in Nat /\ n \in DOMAIN B
      /\ n \in Nat /\ a + 16 <= b /\ b + 16 <= n
  BY TiledFacts
<1>3. n = b + B[b].size + 4 /\ b = a + B[a].size + 4 /\ B[a].size \in Nat /\ B[b].size \in Nat
  BY <1>1, <1>2 DEF After, Header
<1>4. sum \in Nat /\ n = a + sum + 4 BY <1>2, <1>3
<1>5. a # b /\ a \in D /\ n \in D /\ n # a BY <1>2
<1>6. D \in SUBSET Nat BY <1>1
<1>7. C[a] = [B[a] EXCEPT !.size = sum] /\ \A x \in D \ {a} : C[x] = B[x] BY <1>5
<1>8. C \in [D -> Header]
  <2>1. [B[a] EXCEPT !.size = sum] \in Header
    <3> HIDE DEF sum
    <3> QED BY <1>1, <1>2, <1>4 DEF Header
  <2> QED BY <1>1, <2>1
<1> DEFINE h0 == WithBlocks(h, C)
<1>9. AbsorbBlock(h, a, b) = LinkBlockWithNext([h EXCEPT !.blocks = C], a)
  <2> DEFINE grown == [h.blocks EXCEPT ![a].size = @ + h.blocks[b].size + Overhead]
  <2>1. grown = [B EXCEPT ![a] = [B[a] EXCEPT !.size = sum]] BY <1>1, <1>2 DEF Overhead
  <2>2. \A x \in D : [B EXCEPT ![a] = [B[a] EXCEPT !.size = sum]][x] = C[x] BY <1>1, <1>2
  <2>3. Restrict(grown, D) = C BY <2>1, <2>2 DEF Restrict
  <2> QED BY <2>3 DEF AbsorbBlock
<1> HIDE DEF C, sum
<1>10. /\ HeapOK(h0) /\ [h EXCEPT !.blocks = C] = h0 /\ h0.blocks = C
       /\ h0.head = h.head /\ h0.fl = h.fl /\ h0.sl = h.sl /\ h0.failed = h.failed
       /\ h0.harmed = h.harmed
  <2> HIDE DEF D
  <2> QED BY <1>6, <1>8, BlocksReplaced
<1> HIDE DEF h0
<1>11. C[a].size = sum BY <1>1, <1>2, <1>7 DEF Header
<1>12. NextBlock(h0, a) = n BY <1>4, <1>10, <1>11 DEF NextBlock, Overhead
<1> HIDE DEF n
<1> DEFINE E == [C EXCEPT ![n] = [C[n] EXCEPT !.previous = a]]
<1>13. k = WithBlocks(h0, E)
  <2>1. n \in DOMAIN h0.blocks BY <1>5, <1>8, <1>10
  <2> QED BY <1>2, <1>9, <1>10, <1>12, <2>1, LinkEffect
<1>14. E \in [D -> Header]
  <2>1. [C[n] EXCEPT !.previous = a] \in Header BY <1>2, <1>5, <1>8 DEF Header
  <2> QED BY <1>8, <2>1
<1>15. E[n] = [C[n] EXCEPT !.previous = a] /\ \A x \in D \ {n} : E[x] = C[x]
  <2> HIDE DEF D
  <2> QED BY <1>5, <1>8
<1> HIDE DEF E
<1>16. /\ HeapOK(k) /\ k.blocks = E /\ k.head = h.head /\ k.fl = h.fl /\ k.sl = h.sl
       /\ k.failed = h.failed /\ k.harmed = h.harmed
  <2>1. HeapOK(h0) BY <1>10
  <2> HIDE DEF D
  <2>2. HeapOK(k) /\ k.blocks = E /\ k.head = h0.head /\ k.fl = h0.fl /\ k.sl = h0.sl
        /\ k.failed = h0.failed /\ k.harmed = h0.harmed
    BY <1>6, <1>13, <1>14, <2>1, BlocksReplaced
  <2> QED BY <1>10, <2>2
<1>17. DOMAIN E = D BY <1>14
<1>18. ASSUME NEW x \in D
       PROVE  /\ E[x].size = IF x = a THEN sum ELSE B[x].size
              /\ E[x].free = B[x].free /\ E[x].next = B[x].next
              /\ E[x].prevFree = B[x].prevFree
              /\ E[x].previous = IF x = n THEN a ELSE B[x].previous
  <2>1. B[x] \in Header BY <1>1
  <2>2. CASE x = n
    <3>1. E[x] = [B[x] EXCEPT !.previous = a] BY <1>5, <1>7, <1>15, <2>2
    <3> QED BY <1>5, <2>1, <2>2, <3>1 DEF Header
  <2>3. CASE x = a
    <3>1. E[x] = [B[x] EXCEPT !.size = sum] BY <1>5, <1>7, <1>15, <2>3
    <3> QED BY <1>5, <2>1, <2>3, <3>1 DEF Header
  <2>4. CASE x # n /\ x # a
    <3>1. E[x] = B[x] BY <1>7, <1>15, <2>4
    <3> QED BY <2>4, <3>1
  <2> QED BY <2>2, <2>3, <2>4
<1> QED BY <1>16, <1>17, <1>18 DEF n, sum

MergedX(X, a, b) == (X \ {a, b}) \cup (IF b \in X THEN {a} ELSE {})

(* A free block on no list absorbed into the block before it, which is used *)
(* or on no list itself.  If it is used, its flag in the next block is not  *)
(* right yet.                                                               *)
Absorption(h, X, L, a, b, k) ==
  /\ HeapOK(k) /\ ~ k.failed /\ ~ k.harmed /\ Tiled(k.blocks)
  /\ Coalesced(k.blocks, MergedX(X, a, b)) /\ Listed(k, L \ {b})
  /\ FlaggedBut(k.blocks, a) /\ (h.blocks[a].free => Flagged(k.blocks))
  /\ InnerBlocks(k.blocks) = InnerBlocks(h.blocks) \ {b} /\ a # b
  /\ a \in InnerBlocks(k.blocks)
  /\ k.blocks[a].size = h.blocks[a].size + h.blocks[b].size + 4
  /\ After(k.blocks, a) = After(h.blocks, b)
  /\ \A x \in InnerBlocks(k.blocks) \ {a} :
       k.blocks[x].size = h.blocks[x].size /\ After(k.blocks, x) = After(h.blocks, x)
  /\ \A x \in DOMAIN k.blocks : k.blocks[x].free = h.blocks[x].free
  /\ DOMAIN k.blocks = DOMAIN h.blocks \ {b}

LEMMA Absorbed ==
  ASSUME NEW h, NEW X, NEW L, Whole(h, X, L), NEW a \in InnerBlocks(h.blocks),
         NEW b \in FreeIn(h.blocks), b \in L, After(h.blocks, a) = b,
         a \in L \/ ~ h.blocks[a].free, NEW k, k = AbsorbBlock(h, a, b)
  PROVE  Absorption(h, X, L, a, b, k)
<1> DEFINE B == h.blocks
           C == k.blocks
           n == After(B, b)
<1>0. HeapOK(h) /\ Tiled(B) /\ Flagged(B) /\ Coalesced(B, X) /\ Listed(h, L)
      /\ b \in InnerBlocks(B) /\ B[b].free /\ ~ h.failed /\ ~ h.harmed
  BY DEF Whole, FreeIn
<1>1. /\ HeapOK(k) /\ k.head = h.head /\ k.fl = h.fl /\ k.sl = h.sl
      /\ k.failed = h.failed /\ k.harmed = h.harmed
      /\ DOMAIN C = DOMAIN B \ {b}
      /\ \A x \in DOMAIN C :
              /\ C[x].size = IF x = a THEN B[a].size + B[b].size + 4 ELSE B[x].size
              /\ C[x].free = B[x].free
              /\ C[x].next = B[x].next
              /\ C[x].prevFree = B[x].prevFree
              /\ C[x].previous = IF x = n THEN a ELSE B[x].previous
  BY <1>0, AbsorbEffect
<1> HIDE DEF C
<1>2. /\ a \in DOMAIN B /\ b \in DOMAIN B /\ n \in DOMAIN B /\ n # b /\ a # b /\ b # Sentinel
      /\ b # FirstBlock
  <2>1. a \in Nat /\ b \in Nat /\ a + 16 <= b /\ n \in Nat /\ b + 16 <= n BY <1>0, TiledFacts
  <2> QED BY <1>0, <2>1, TiledFacts DEF InnerBlocks
<1>3. FirstBlock \in DOMAIN B /\ Sentinel \in DOMAIN B /\ ~ B[Sentinel].free
      /\ ~ B[FirstBlock].prevFree
  BY <1>0 DEF Tiled
<1>4. ~ C[Sentinel].free /\ ~ C[FirstBlock].prevFree
  <2>1. Sentinel \in DOMAIN C /\ FirstBlock \in DOMAIN C BY <1>1, <1>2, <1>3
  <2> QED BY <1>1, <1>3, <2>1
<1>5. C[a].size = B[a].size + B[b].size + 4
      /\ \A c \in DOMAIN B \ {a, b} : C[c].size = B[c].size
  BY <1>1, <1>2
<1>6. /\ Tiled(C) /\ InnerBlocks(C) = InnerBlocks(B) \ {b}
      /\ After(C, a) = n
      /\ \A c \in DOMAIN B \ {a, b} : After(C, c) = After(B, c) /\ ClassIn(C, c) = ClassIn(B, c)
      /\ \A c \in InnerBlocks(B) \ {a, b} : After(B, c) # b /\ After(B, c) # n
  <2>1. JoinFrom(B, a, b, C) BY <1>0, <1>1, <1>4, <1>5 DEF JoinFrom
  <2>2. Join(B, a, b, C) BY <1>0, <2>1, JoinTiles
  <2> HIDE DEF B
  <2> QED BY <2>2 DEF Join, n
<1>7. \A x \in InnerBlocks(B) : x \in DOMAIN B /\ After(B, x) \in DOMAIN B
  BY <1>0, TiledFacts
<1>8. \A y \in DOMAIN B : B[y].free \in BOOLEAN /\ B[y].prevFree \in BOOLEAN
  BY <1>0, HeapFields DEF Header
<1>9. B[n].prevFree = TRUE
  <2>1. B[n].prevFree = B[b].free BY <1>0 DEF Flagged
  <2> QED BY <1>0, <1>2, <1>8, <2>1
<1> HIDE DEF n
<1>10. ASSUME NEW x \in InnerBlocks(C) \ {a}
       PROVE  /\ C[After(C, x)].prevFree = C[x].free
              /\ C[x].free => C[After(C, x)].previous = x
  <2>1. x \in InnerBlocks(B) \ {a, b} /\ x \in DOMAIN C /\ After(C, x) = After(B, x)
        /\ After(B, x) \in DOMAIN C /\ After(B, x) # n
    BY <1>1, <1>6, <1>7
  <2>2. Flagged(B) BY <1>0
  <2>3. B[After(B, x)].prevFree = B[x].free /\ (B[x].free => B[After(B, x)].previous = x)
    <3> HIDE DEF B
    <3> QED BY <2>1, <2>2 DEF Flagged
  <2> QED BY <1>1, <2>1, <2>3
<1>11. ASSUME B[a].free PROVE Flagged(C)
  <2>1. a \in DOMAIN C /\ n \in DOMAIN C BY <1>1, <1>2
  <2>2. C[a].free = B[a].free /\ C[n].prevFree = B[n].prevFree /\ C[n].previous = a
    BY <1>1, <2>1
  <2>3. C[After(C, a)].prevFree = C[a].free /\ C[After(C, a)].previous = a
    BY <1>2, <1>6, <1>8, <1>9, <1>11, <2>2
  <2> QED BY <1>10, <2>3 DEF Flagged
<1>12. Coalesced(C, MergedX(X, a, b))
  <2> SUFFICES ASSUME NEW x \in InnerBlocks(C), C[x].free, C[After(C, x)].free
               PROVE  x \in MergedX(X, a, b)
    BY DEF Coalesced
  <2>0. Coalesced(B, X) BY <1>0
  <2>1. CASE x = a
    <3>1. B[n].free BY <1>1, <1>2, <1>6, <2>1
    <3>2. b \in X BY <1>0, <2>0, <3>1 DEF Coalesced, n
    <3> QED BY <2>1, <3>2 DEF MergedX
  <2>2. CASE x # a
    <3>1. x \in InnerBlocks(B) \ {a, b} /\ x \in DOMAIN C /\ After(C, x) = After(B, x)
          /\ After(B, x) \in DOMAIN C
      BY <1>1, <1>6, <1>7, <2>2
    <3>2. B[x].free /\ B[After(B, x)].free BY <1>1, <3>1
    <3>3. x \in X BY <2>0, <3>1, <3>2 DEF Coalesced
    <3> QED BY <3>1, <3>3 DEF MergedX
  <2> QED BY <2>1, <2>2
<1>13. FreeIn(C) = FreeIn(B) \ {b} BY <1>1, <1>6, <1>7 DEF FreeIn
<1>14. FreeIn(C) \ (L \ {b}) = FreeIn(B) \ L BY <1>13
<1>15. \A x \in FreeIn(B) \ L : C[x].next = B[x].next /\ C[x].size = B[x].size
  BY <1>1, <1>7 DEF FreeIn
<1>16. Listed(k, L \ {b}) BY <1>0, <1>1, <1>14, <1>15, ListedStays DEF C
<1>17. \A x \in InnerBlocks(C) \ {a} : C[x].size = B[x].size /\ After(C, x) = After(B, x)
  BY <1>5, <1>6, <1>7
<1>18. \A x \in DOMAIN C : C[x].free = B[x].free BY <1>1
<1>19. a \in InnerBlocks(C) BY <1>2, <1>6
<1> QED BY <1>0, <1>1, <1>2, <1>5, <1>6, <1>10, <1>11, <1>12, <1>16, <1>17, <1>18, <1>19 DEF Absorption, FlaggedBut, C, n

-----------------------------------------------------------------------------
(* What the operations of the allocator keep.                               *)

Used(B) == {b \in InnerBlocks(B) : ~ B[b].free}

(* From h to k block b came into use, at least size bytes, and nothing else *)
(* that is used changed.                                                    *)
Takes(h, k, b, size) ==
  /\ Whole(k, {}, {})
  /\ b \notin Used(h.blocks) /\ Used(k.blocks) = Used(h.blocks) \cup {b}
  /\ \A x \in Used(h.blocks) : k.blocks[x].size = h.blocks[x].size
  /\ size <= k.blocks[b].size

LEMMA Taken ==
  ASSUME NEW h, NEW X, NEW L, NEW b, Takeable(h, X, L, b),
         NEW k, k = HandOver(MarkBlockUsed(h, b), b)
  PROVE  /\ Whole(k, {}, L \ {b}) /\ DOMAIN k.blocks = DOMAIN h.blocks
         /\ \A x \in DOMAIN h.blocks :
              /\ k.blocks[x].size = h.blocks[x].size
              /\ k.blocks[x].free = (x # b /\ h.blocks[x].free)
<1>1. PICK m : m = MarkBlockUsed(h, b) OBVIOUS
<1>3. /\ Whole(m, {}, L \ {b}) /\ DOMAIN m.blocks = DOMAIN h.blocks
      /\ \A x \in DOMAIN h.blocks :
           /\ m.blocks[x].size = h.blocks[x].size
           /\ m.blocks[x].free = (x # b /\ h.blocks[x].free)
  BY <1>1, TakeableMarked
<1>4. b \in InnerBlocks(m.blocks) /\ ~ m.blocks[b].free /\ b \in DOMAIN h.blocks
  BY <1>3 DEF Takeable, InnerBlocks
<1>5. k = HandOver(m, b) BY <1>1
<1>6. /\ Whole(k, {}, L \ {b}) /\ DOMAIN k.blocks = DOMAIN m.blocks
      /\ \A x \in DOMAIN m.blocks :
           k.blocks[x].size = m.blocks[x].size /\ k.blocks[x].free = m.blocks[x].free
  BY <1>3, <1>4, <1>5, HandedOver
<1> QED BY <1>3, <1>6

(* X is nothing but block b and the one before it.                          *)
Beside(B, b, X) == X \subseteq InnerBlocks(B) /\ \A x \in X : x = b \/ After(B, x) = b

(* What is used in h is in k, and as large.                                 *)
SameUse(h, k) ==
  /\ Used(k.blocks) = Used(h.blocks)
  /\ \A x \in Used(h.blocks) : k.blocks[x].size = h.blocks[x].size

(* A free block on no list is on its list.                                  *)
LEMMA Inserted ==
  ASSUME NEW h, NEW X, NEW L, Whole(h, X, L), NEW b \in FreeIn(h.blocks), b \in L,
         NEW k, k = InsertBlock(h, b)
  PROVE  /\ Whole(k, X, L \ {b}) /\ DOMAIN k.blocks = DOMAIN h.blocks /\ SameUse(h, k)
         /\ InnerBlocks(k.blocks) = InnerBlocks(h.blocks)
         /\ FreeIn(k.blocks) = FreeIn(h.blocks)
         /\ \A x \in DOMAIN h.blocks :
              /\ k.blocks[x].size = h.blocks[x].size /\ k.blocks[x].free = h.blocks[x].free
              /\ After(k.blocks, x) = After(h.blocks, x)
<1>1. /\ Whole(k, X, L \ {b}) /\ DOMAIN k.blocks = DOMAIN h.blocks
      /\ \A x \in DOMAIN h.blocks :
           k.blocks[x].size = h.blocks[x].size /\ k.blocks[x].free = h.blocks[x].free
  BY BlockInserted
<1>2. InnerBlocks(k.blocks) = InnerBlocks(h.blocks) BY <1>1 DEF InnerBlocks
<1>3. \A x \in InnerBlocks(h.blocks) : x \in DOMAIN h.blocks BY DEF InnerBlocks
<1>4. FreeIn(k.blocks) = FreeIn(h.blocks) BY <1>1, <1>2, <1>3 DEF FreeIn
<1>5. \A x \in DOMAIN h.blocks : After(k.blocks, x) = After(h.blocks, x) BY <1>1 DEF After
<1>6. SameUse(h, k) BY <1>1, <1>2, <1>3 DEF SameUse, Used
<1> QED BY <1>1, <1>2, <1>4, <1>5, <1>6

(* TrimFreeBlock of a block on no list.                                     *)
LEMMA Trimmed ==
  ASSUME NEW h, NEW X, NEW b \in FreeIn(h.blocks), Whole(h, X, {b}), Beside(h.blocks, b, X),
         b \notin X,
         NEW size \in Nat, 12 <= size, size % 4 = 0, size <= h.blocks[b].size,
         NEW k, k = TrimFreeBlock(h, b, size)
  PROVE  /\ \E Y : Whole(k, Y, {b}) /\ Beside(k.blocks, b, Y)
         /\ b \in FreeIn(k.blocks) /\ size <= k.blocks[b].size
         /\ SameUse(h, k)
<1> DEFINE B == h.blocks
           rest == b + size + 4
<1>1. HeapOK(h) /\ b \in InnerBlocks(B) /\ b \in DOMAIN B /\ B[b].free /\ B[b].free \in BOOLEAN
      /\ Tiled(B)
  <2>1. HeapOK(h) /\ b \in InnerBlocks(B) /\ b \in DOMAIN B /\ B[b].free /\ Tiled(B)
    BY DEF Whole, FreeIn, InnerBlocks
  <2> QED BY <2>1, HeapFields DEF Header
<1>2. Assert(h, B[b].free) = h BY <1>1, AssertEffect
<1>3. CASE ~ CanSplitBlock(h, b, size)
  <2>1. k = h BY <1>2, <1>3 DEF TrimFreeBlock
  <2> QED BY <2>1 DEF SameUse
<1>4. CASE CanSplitBlock(h, b, size)
  <2>1. 16 + size <= B[b].size BY <1>1, <1>4, HeapFields DEF CanSplitBlock, HeaderSize, Header
  <2> DEFINE s == LinkBlockWithNext(SplitBlock(h, b, size), b)
  <2>2. k = InsertBlock(s, rest) BY <1>2, <1>4 DEF TrimFreeBlock, SplitPoint, Overhead
  <2>3. /\ Whole(s, X \cup {b}, {b} \cup {rest})
        /\ DOMAIN s.blocks = DOMAIN B \cup {rest} /\ rest \notin DOMAIN B
        /\ s.blocks[rest].free
        /\ rest \in InnerBlocks(s.blocks)
        /\ b \in InnerBlocks(s.blocks) /\ s.blocks[b].size = size /\ s.blocks[b].free
        /\ \A x \in InnerBlocks(B) \ {b} : After(s.blocks, x) = After(B, x)
        /\ \A x \in DOMAIN B \ {b} :
             s.blocks[x].size = B[x].size /\ s.blocks[x].free = B[x].free
    <3>1. PICK L : L = {b} OBVIOUS
    <3>2. Splits(h, X, L, b, size) BY <2>1, <3>1 DEF Splits
    <3>3. Split(h, s, X, L, b, size, rest) BY <3>2, FreeSplit
    <3> HIDE DEF s, rest
    <3>4. Split(h, s, X, {b}, b, size, rest) BY <3>1, <3>3
    <3> QED BY <3>4 DEF Split
  <2> HIDE DEF s, rest
  <2>4. /\ Whole(k, X \cup {b}, ({b} \cup {rest}) \ {rest}) /\ DOMAIN k.blocks = DOMAIN s.blocks
        /\ SameUse(s, k) /\ InnerBlocks(k.blocks) = InnerBlocks(s.blocks)
        /\ FreeIn(k.blocks) = FreeIn(s.blocks)
        /\ \A x \in DOMAIN s.blocks :
              /\ k.blocks[x].size = s.blocks[x].size /\ After(k.blocks, x) = After(s.blocks, x)
    <3>1. rest \in FreeIn(s.blocks) BY <2>3 DEF FreeIn
    <3>2. PICK L, Y : L = {b} \cup {rest} /\ Y = X \cup {b} OBVIOUS
    <3>3. rest \in L /\ Whole(s, Y, L) BY <2>3, <3>2
    <3>4. /\ Whole(k, Y, L \ {rest}) /\ DOMAIN k.blocks = DOMAIN s.blocks
          /\ SameUse(s, k) /\ InnerBlocks(k.blocks) = InnerBlocks(s.blocks)
          /\ FreeIn(k.blocks) = FreeIn(s.blocks)
          /\ \A x \in DOMAIN s.blocks :
               /\ k.blocks[x].size = s.blocks[x].size /\ After(k.blocks, x) = After(s.blocks, x)
      BY <2>2, <3>1, <3>3, Inserted
    <3> QED BY <3>2, <3>4
  <2>5. ({b} \cup {rest}) \ {rest} = {b} BY <1>1, <2>3
  <2>6. Beside(k.blocks, b, X \cup {b})
    <3>1. \A x \in InnerBlocks(B) : x \in DOMAIN B /\ x \in InnerBlocks(s.blocks)
      BY <2>3 DEF InnerBlocks
    <3>2. ASSUME NEW x \in X, x # b PROVE After(k.blocks, x) = b /\ x \in InnerBlocks(k.blocks)
      <4>1. x \in InnerBlocks(B) /\ After(B, x) = b BY <3>2 DEF Beside
      <4> QED BY <2>3, <2>4, <3>1, <3>2, <4>1
    <3>3. b \in InnerBlocks(k.blocks) BY <2>3, <2>4
    <3> QED BY <3>2, <3>3 DEF Beside
  <2>7. SameUse(h, s)
    <3>1. rest \notin Used(s.blocks) /\ b \notin Used(s.blocks) /\ b \notin Used(B)
      BY <1>1, <2>3 DEF Used
    <3>2. ASSUME NEW x, x # rest, x # b PROVE x \in Used(s.blocks) <=> x \in Used(B)
      BY <2>3, <3>2 DEF Used, InnerBlocks
    <3>3. rest \notin Used(B) BY <2>3 DEF Used, InnerBlocks
    <3>4. Used(s.blocks) = Used(B) BY <3>1, <3>2, <3>3
    <3>5. \A x \in Used(B) : x \in DOMAIN B \ {b} BY <3>1 DEF Used, InnerBlocks
    <3> QED BY <2>3, <3>4, <3>5 DEF SameUse
  <2>8. SameUse(h, k) BY <2>4, <2>7 DEF SameUse
  <2>9. b \in FreeIn(k.blocks) /\ size <= k.blocks[b].size
    <3>1. b \in FreeIn(s.blocks) /\ b \in DOMAIN s.blocks BY <2>3 DEF FreeIn, InnerBlocks
    <3> QED BY <2>3, <2>4, <3>1
  <2> QED BY <2>4, <2>5, <2>6, <2>8, <2>9
<1> QED BY <1>3, <1>4

LEMMA Prepared ==
  ASSUME NEW h, NEW X, NEW b \in FreeIn(h.blocks), Whole(h, X, {b}), Beside(h.blocks, b, X),
         b \notin X,
         NEW size \in Nat, 12 <= size, size % 4 = 0, size <= h.blocks[b].size
  PROVE  Takes(h, PrepareBlockForUse(h, b, size), b, size)
<1> DEFINE t == TrimFreeBlock(h, b, size)
           k == PrepareBlockForUse(h, b, size)
<1>1. b # NULL BY TiledFacts DEF Whole, FreeIn, NULL
<1>2. k = HandOver(MarkBlockUsed(t, b), b) BY <1>1 DEF PrepareBlockForUse
<1>3. /\ \E Y : Whole(t, Y, {b}) /\ Beside(t.blocks, b, Y)
      /\ b \in FreeIn(t.blocks) /\ size <= t.blocks[b].size
      /\ SameUse(h, t)
  BY Trimmed
<1> HIDE DEF t, k
<1>4. PICK Y : Whole(t, Y, {b}) /\ Beside(t.blocks, b, Y) BY <1>3
<1>5. /\ Whole(k, {}, {b} \ {b}) /\ DOMAIN k.blocks = DOMAIN t.blocks
      /\ \A x \in DOMAIN t.blocks :
              /\ k.blocks[x].size = t.blocks[x].size
              /\ k.blocks[x].free = (x # b /\ t.blocks[x].free)
  <2>1. /\ HeapOK(t) /\ ~ t.failed /\ ~ t.harmed /\ Tiled(t.blocks)
        /\ b \in InnerBlocks(t.blocks) /\ Coalesced(t.blocks, Y)
    BY <1>3, <1>4 DEF Whole, FreeIn
  <2>4. PICK L : L = {b} OBVIOUS
  <2>5. b \in L /\ Listed(t, L) BY <1>4, <2>4 DEF Whole
  <2>2. FlaggedBut(t.blocks, b) BY <1>4 DEF Whole, Flagged, FlaggedBut
  <2>3. \A x \in Y : x = b \/ After(t.blocks, x) = b BY <1>4 DEF Beside
  <2>6. /\ Whole(k, {}, L \ {b}) /\ DOMAIN k.blocks = DOMAIN t.blocks
        /\ \A x \in DOMAIN t.blocks :
             /\ k.blocks[x].size = t.blocks[x].size
             /\ k.blocks[x].free = (x # b /\ t.blocks[x].free)
    <3>1. Takeable(t, Y, L, b) BY <2>1, <2>2, <2>3, <2>5 DEF Takeable
    <3> QED BY <1>2, <3>1, Taken
  <2> QED BY <2>4, <2>6
<1>6. {b} \ {b} = {} OBVIOUS
<1>7. Used(k.blocks) = Used(t.blocks) \cup {b}
  <2>1. b \in InnerBlocks(t.blocks) BY <1>3 DEF FreeIn
  <2> QED BY <1>5, <2>1 DEF Used, InnerBlocks
<1>8. b \notin Used(t.blocks) BY <1>3 DEF Used, FreeIn
<1>9. \A x \in Used(t.blocks) : x \in DOMAIN t.blocks BY DEF Used, InnerBlocks
<1>10. b \in DOMAIN t.blocks BY <1>3 DEF FreeIn, InnerBlocks
<1> QED BY <1>3, <1>5, <1>6, <1>7, <1>8, <1>9, <1>10 DEF Takes, SameUse, k

-----------------------------------------------------------------------------
(* The search for a free block.                                             *)

LEMMA LeastOf ==
  ASSUME NEW S \in SUBSET Nat, S # {}
  PROVE  Min(S) \in S /\ \A y \in S : Min(S) <= y
<1>1. \E x \in S : \A y \in S : x <= y BY LeastNatural
<1> QED BY <1>1 DEF Min

(* The class found is the first one that is not before the class searched   *)
(* for and has a block.                                                     *)
FirstFrom(h, class, c) ==
  /\ c \in h.sl /\ ~ Before(c, class)
  /\ \A d \in h.sl : ~ Before(d, class) => ~ Before(d, c)

LEMMA Searched ==
  ASSUME NEW h, h.sl \subseteq Classes, h.fl = {c[1] : c \in h.sl},
         NEW l \in Nat, NEW i \in Nat, NEW class, class = <<l, i>>
  PROVE  \/ /\ SearchSuitableBlock(h, class) = {}
            /\ \A c \in h.sl : Before(c, class)
         \/ \E c : SearchSuitableBlock(h, class) = {c} /\ FirstFrom(h, class, c)
<1> DEFINE here  == {c \in h.sl : c[1] = l /\ c[2] >= i}
           above == {n \in h.fl : n > l}
           level == IF here # {} THEN here ELSE {c \in h.sl : c[1] = Min(above)}
           least == CHOOSE c \in level : \A d \in level : c[2] <= d[2]
<1>1. SearchSuitableBlock(h, class) = IF here = {} /\ above = {} THEN {} ELSE {least}
  BY DEF SearchSuitableBlock
<1>2. \A c \in h.sl : c[1] \in Nat /\ c[2] \in Nat
  <2>1. PICK m, j : InClass(PoolBytes, m, j) BY PoolSizes, EverySizeHasAClass
  <2>2. m \in Nat /\ InsertMapping(PoolBytes)[1] = m BY <2>1 DEF InClass
  <2>3. Classes = (0 .. m) \X (0 .. SlCount - 1) BY <2>2 DEF Classes
  <2> QED BY <2>2, <2>3, Counts
<1>3. \A n \in h.fl : n \in Nat BY <1>2
<1>4. ASSUME level # {}, level \subseteq h.sl PROVE least \in level /\ \A d \in level : least[2] <= d[2]
  <2> DEFINE T == {c[2] : c \in level}
  <2> HIDE DEF level
  <2>1. T \in SUBSET Nat /\ T # {} BY <1>2, <1>4
  <2>2. PICK x \in T : \A y \in T : x <= y BY <2>1, LeastNatural
  <2>3. PICK c \in level : x = c[2] BY <2>2
  <2>4. \A d \in level : c[2] <= d[2] BY <2>2, <2>3
  <2> QED BY <2>3, <2>4
<1>5. CASE here = {} /\ above = {}
  <2>1. \A c \in h.sl : c[1] \in h.fl OBVIOUS
  <2>2. \A c \in h.sl : ~ (c[1] > l) /\ ~ (c[1] = l /\ c[2] >= i) BY <1>5, <2>1
  <2>3. \A c \in h.sl : Before(c, class) BY <1>2, <2>2 DEF Before
  <2> QED BY <1>1, <1>5, <2>3
<1>6. CASE here # {}
  <2>1. least \in here /\ \A d \in here : least[2] <= d[2] BY <1>4, <1>6
  <2> HIDE DEF least
  <2>2. FirstFrom(h, class, least)
    <3>1. least \in h.sl /\ least[1] = l /\ least[2] >= i BY <2>1
    <3>2. ASSUME NEW d \in h.sl, ~ Before(d, class) PROVE ~ Before(d, least)
      <4>1. d[1] = l => least[2] <= d[2] BY <1>2, <2>1, <3>2 DEF Before
      <4> QED BY <1>2, <3>1, <3>2, <4>1 DEF Before
    <3>3. ~ Before(least, class) BY <1>2, <3>1 DEF Before
    <3> QED BY <3>1, <3>2, <3>3 DEF FirstFrom
  <2> QED BY <1>1, <1>6, <2>2
<1>7. CASE here = {} /\ above # {}
  <2>1. Min(above) \in above /\ \A y \in above : Min(above) <= y
    <3>1. above \in SUBSET Nat BY <1>3
    <3> HIDE DEF above
    <3> QED BY <1>7, <3>1, LeastOf
  <2>2. PICK m : m = Min(above) OBVIOUS
  <2>3. m \in h.fl /\ m > l /\ m \in Nat /\ \A y \in h.fl : y > l => m <= y BY <1>3, <2>1, <2>2
  <2>4. level = {c \in h.sl : c[1] = m} BY <1>7, <2>2
  <2>5. level # {} /\ level \subseteq h.sl BY <2>3, <2>4
  <2>6. least \in level /\ \A d \in level : least[2] <= d[2] BY <1>4, <2>5
  <2> HIDE DEF least, level
  <2>7. FirstFrom(h, class, least)
    <3>1. least \in h.sl /\ least[1] = m BY <2>4, <2>6
    <3>2. ASSUME NEW d \in h.sl, ~ Before(d, class) PROVE ~ Before(d, least)
      <4>1. d[1] \in h.fl OBVIOUS
      <4>2. ~ (d[1] = l /\ d[2] >= i) BY <1>7
      <4>3. d[1] > l BY <1>2, <3>2, <4>2 DEF Before
      <4>4. m <= d[1] BY <2>3, <4>1, <4>3
      <4>5. d[1] = m => least[2] <= d[2] BY <2>4, <2>6
      <4> QED BY <1>2, <2>3, <3>1, <4>4, <4>5 DEF Before
    <3>3. ~ Before(least, class) BY <1>2, <2>3, <3>1 DEF Before
    <3> QED BY <3>1, <3>2, <3>3 DEF FirstFrom
  <2> QED BY <1>1, <1>7, <2>7
<1> QED BY <1>5, <1>6, <1>7

(* What a request of size bytes may ask the lists for.                      *)
Askable(size) == size \in Nat /\ 12 <= size /\ size <= Bit[29] /\ size % 4 = 0

FoundNone(h, size) ==
  \A b \in FreeIn(h.blocks) : Before(ClassIn(h.blocks, b), SearchMapping(size))

FoundOne(h, size, r) ==
  /\ r.block \in FreeIn(h.blocks) /\ Whole(r.heap, {}, {r.block}) /\ r.heap.blocks = h.blocks
  /\ size <= h.blocks[r.block].size
  /\ ~ Before(ClassIn(h.blocks, r.block), SearchMapping(size))
  /\ \A b \in FreeIn(h.blocks) :
       \/ Before(ClassIn(h.blocks, b), SearchMapping(size))
       \/ ~ Before(ClassIn(h.blocks, b), ClassIn(h.blocks, r.block))

(* No block is found, or one of the first class with blocks whose blocks    *)
(* are all large enough.                                                    *)
LEMMA Located ==
  ASSUME NEW h, Whole(h, {}, {}), NEW size, Askable(size), NEW r, r = LocateFreeBlock(h, size)
  PROVE  \/ r = [heap |-> h, block |-> NULL] /\ FoundNone(h, size)
         \/ r.block # NULL /\ FoundOne(h, size, r)
<1> DEFINE B == h.blocks
           F == FreeIn(B)
           class == SearchMapping(size)
<1>1. HeapOK(h) /\ Tiled(B) /\ Listed(h, {}) BY DEF Whole
<1>2. PICK height : Heights(h, F \ {}, height) BY <1>1 DEF Listed
<1>3. F \ {} = F OBVIOUS
<1>4. h.sl = {c \in Classes : h.head[c] # NULL} /\ h.fl = {c[1] : c \in h.sl} BY <1>1 DEF Listed
<1>5. ASSUME NEW b \in F PROVE ClassIn(B, b) \in h.sl
  <2>1. b \in InnerBlocks(B) BY DEF FreeIn
  <2>2. ClassIn(B, b) \in Classes BY <1>1, <2>1, TiledFacts
  <2>3. h.head[ClassIn(B, b)] # NULL BY <1>2, <1>3 DEF Heights
  <2> QED BY <1>4, <2>2, <2>3
<1>6. ASSUME NEW c \in h.sl PROVE h.head[c] \in F /\ ClassIn(B, h.head[c]) = c /\ h.head[c] # NULL
  <2>1. c \in Classes /\ h.head[c] # NULL BY <1>4
  <2> QED BY <1>2, <1>3, <2>1 DEF Heights
<1>7. \E l \in Nat, i \in Nat : class = <<l, i>>
  <2>1. size \in Nat /\ 12 <= size /\ size <= Bit[29] /\ size \in 1 .. Bit[30] - 1
    BY BitValues DEF Askable
  <2>2. PICK l, i : InClass(size, l, i) BY <2>1, EverySizeHasAClass
  <2>3. PICK t \in 1 .. Bit[30] - 1 : class = InsertMapping(t) BY <2>1, <2>2, SearchRounds
  <2>4. PICK m, j : InClass(t, m, j) BY <2>3, EverySizeHasAClass
  <2>5. class = <<m, j>> /\ m \in Nat /\ j \in Nat BY <2>3, <2>4, Counts DEF InClass
  <2> QED BY <2>5
<1>8. PICK l \in Nat, i \in Nat : class = <<l, i>> BY <1>7
<1>9. size # 0 BY DEF Askable
<1> HIDE DEF class
<1>10. h.sl \subseteq Classes BY <1>4
<1>11. LocateFreeBlock(h, size) =
         LET found == SearchSuitableBlock(h, class)
             block == h.head[CHOOSE c \in found : TRUE]
         IN  IF found = {} THEN [heap |-> h, block |-> NULL]
             ELSE [heap |-> RemoveFreeBlock(Assert(h, h.blocks[block].size >= size), block,
                                            CHOOSE c \in found : TRUE),
                   block |-> block]
  BY <1>9 DEF LocateFreeBlock, class
<1>12. CASE SearchSuitableBlock(h, class) = {} /\ \A c \in h.sl : Before(c, class)
  <2>1. r = [heap |-> h, block |-> NULL] BY <1>11, <1>12
  <2>2. FoundNone(h, size) BY <1>5, <1>12 DEF FoundNone, class
  <2> QED BY <2>1, <2>2
<1>13. CASE \E c : SearchSuitableBlock(h, class) = {c} /\ FirstFrom(h, class, c)
  <2>1. PICK c : SearchSuitableBlock(h, class) = {c} /\ FirstFrom(h, class, c) BY <1>13
  <2>2. {c} # {} /\ (CHOOSE d \in {c} : TRUE) = c OBVIOUS
  <2>3. PICK b : b = h.head[c] OBVIOUS
  <2>4. r = [heap |-> RemoveFreeBlock(Assert(h, B[b].size >= size), b, c), block |-> b]
    BY <1>11, <2>1, <2>2, <2>3
  <2>5. c \in h.sl /\ b \in F /\ ClassIn(B, b) = c /\ b # NULL BY <1>6, <2>1, <2>3 DEF FirstFrom
  <2>6. B[b].size \in Nat /\ size <= B[b].size
    <3>1. b \in InnerBlocks(B) BY <2>5 DEF FreeIn
    <3>2. B[b].size \in 1 .. PoolBytes BY <1>1, <3>1, TiledFacts
    <3>3. B[b].size \in 1 .. Bit[30] - 1 BY <3>2, PoolSizes, BitValues
    <3>4. B[b].size % 4 = 0 BY <1>1, <3>1 DEF Tiled
    <3>5. ~ Before(InsertMapping(B[b].size), SearchMapping(size))
      BY <2>1, <2>5 DEF FirstFrom, ClassIn, class
    <3>6. PICK s : s = B[b].size OBVIOUS
    <3>7. s \in 1 .. Bit[30] - 1 /\ s % 4 = 0 /\ ~ Before(InsertMapping(s), SearchMapping(size))
      BY <3>3, <3>4, <3>5, <3>6
    <3>8. size <= s BY <3>7, SearchedClassesFit DEF Askable
    <3> QED BY <3>2, <3>6, <3>8, PoolSizes
  <2>7. Assert(h, B[b].size >= size) = h
    <3>1. (B[b].size >= size) = TRUE BY <2>6 DEF Askable
    <3> QED BY <1>1, <3>1, AssertEffect
  <2>8. /\ Whole(RemoveFreeBlock(h, b, c), {}, {} \cup {b})
        /\ RemoveFreeBlock(h, b, c).blocks = h.blocks
    <3>1. c \in Classes BY <1>4, <2>5
    <3> QED BY <2>3, <2>5, <3>1, HeadRemoved
  <2>9. {} \cup {b} = {b} OBVIOUS
  <2>10. r.block = b /\ r.heap = RemoveFreeBlock(h, b, c) BY <2>4, <2>7
  <2>11. \A d \in F : Before(ClassIn(B, d), class) \/ ~ Before(ClassIn(B, d), c)
    BY <1>5, <2>1 DEF FirstFrom
  <2>12. ~ Before(c, class) BY <2>1 DEF FirstFrom
  <2>13. FoundOne(h, size, r)
    BY <2>5, <2>6, <2>8, <2>9, <2>10, <2>11, <2>12 DEF FoundOne, class
  <2> QED BY <2>5, <2>10, <2>13
<1> QED BY <1>4, <1>8, <1>10, <1>12, <1>13, Searched

-----------------------------------------------------------------------------
(* Rounding.                                                                *)

LEMMA Multiples ==
  ASSUME NEW k \in Nat, NEW q \in Nat, NEW a \in Nat, k < q
  PROVE  k * a + a <= q * a
<1> DEFINE d == q - k - 1
           x == k * a
           y == d * a
<1>1. d \in Nat /\ q = k + 1 + d OBVIOUS
<1>2. x \in Nat BY SMT
<1> HIDE DEF d
<1>3. y \in Nat BY <1>1
<1>4. q * a = x + a + y BY <1>1
<1> HIDE DEF x, y
<1>5. q * a = x + a + y => x + a <= q * a BY <1>2, <1>3
<1> QED BY <1>4, <1>5 DEF x

LEMMA RoundedUp ==
  ASSUME NEW x \in Nat, NEW a \in Nat \ {0}
  PROVE  /\ AlignUp(x, a) \in Nat /\ x <= AlignUp(x, a) /\ AlignUp(x, a) <= x + a - 1
         /\ \E k \in Nat : AlignUp(x, a) = k * a /\ k <= AlignUp(x, a)
         /\ a % 4 = 0 => AlignUp(x, a) % 4 = 0
<1> DEFINE q == (x + a - 1) \div a
           r == (x + a - 1) % a
           y == q * a
<1>1. q \in Nat /\ x + a - 1 = (q * a) + r /\ r \in 0 .. a - 1 OBVIOUS
<1>2. AlignUp(x, a) = y BY DEF AlignUp
<1> HIDE DEF q, r
<1>3. y \in Nat /\ q <= y BY <1>1
<1>4. x + a - 1 = y + r BY <1>1
<1>5. a % 4 = 0 => y % 4 = 0
  <2> HAVE a % 4 = 0
  <2>1. PICK j \in Nat : a = 4 * j BY a = 4 * (a \div 4), a \div 4 \in Nat
  <2> DEFINE z == q * j
  <2>2. z \in Nat /\ y = 4 * z BY <1>1, <2>1
  <2> HIDE DEF y, z
  <2> QED BY <2>2
<1>6. x <= y /\ y <= x + a - 1
  <2> HIDE DEF y
  <2> QED BY <1>1, <1>3, <1>4
<1>7. \E k \in Nat : y = k * a /\ k <= y BY <1>1, <1>3
<1> HIDE DEF y
<1> QED BY <1>2, <1>3, <1>5, <1>6, <1>7

LEMMA Larger == ASSUME NEW x \in Nat, NEW y \in Nat PROVE Max({x, y}) = IF x >= y THEN x ELSE y
BY DEF Max

(* What an alignment that clients ask for is.                               *)
IsAlignment(a) == a \in Nat /\ 4 <= a /\ a % 4 = 0 /\ a <= Bit[14]

LEMMA AlignmentsAre == \A a \in Alignments : IsAlignment(a)
<1> TAKE a \in Alignments
<1>1. a \in Nat \ {0} /\ a % 4 = 0 BY TlsfAssumption DEF Align
<1>2. PICK k \in 2 .. 14 : a = Bit[k] BY TlsfAssumption
<1>3. k = 14 \/ 2 * Bit[k] <= Bit[14]
  <2>1. k \in 0 .. 30 /\ 14 \in 0 .. 30 /\ (k = 14 \/ k < 14) OBVIOUS
  <2>2. CASE k < 14 BY <2>1, <2>2, BitsGrow
  <2> QED BY <2>1, <2>2
<1>4. a <= Bit[14] BY <1>1, <1>2, <1>3, BitValues
<1> QED BY <1>1, <1>4 DEF IsAlignment

LEMMA RequestsAdjusted ==
  ASSUME NEW size \in Sizes
  PROVE  /\ AdjustRequestSize(size) \in Nat /\ 12 <= AdjustRequestSize(size)
         /\ AdjustRequestSize(size) % 4 = 0 /\ size <= AdjustRequestSize(size)
         /\ AdjustRequestSize(size) <= Bit[28] + 12
<1> DEFINE x == AlignUp(size, 4)
<1>1. size \in Nat \ {0} /\ size <= Bit[28] BY TlsfAssumption, BitValues DEF MaxRequest
<1>2. x \in Nat /\ size <= x /\ x <= size + 4 - 1 /\ x % 4 = 0
  <2>1. PICK f \in Nat \ {0} : f = 4 OBVIOUS
  <2>2. f % 4 = 0 BY <2>1
  <2>3. AlignUp(size, f) \in Nat /\ size <= AlignUp(size, f) /\ AlignUp(size, f) <= size + f - 1
        /\ AlignUp(size, f) % 4 = 0
    BY <1>1, <2>2, RoundedUp
  <2> QED BY <2>1, <2>3
<1>3. AdjustRequestSize(size) = Max({x, 12})
  BY <1>1 DEF AdjustRequestSize, Align, BlockSizeMin, HeaderSize
<1> HIDE DEF x
<1>4. AdjustRequestSize(size) = IF x >= 12 THEN x ELSE 12 BY <1>2, <1>3, Larger
<1> QED BY <1>1, <1>2, <1>4, BitValues

(* The first aligned place in a block that leaves room for a block before   *)
(* it, or none.                                                             *)
LEMMA PlaceIsAligned ==
  ASSUME NEW b \in Nat, b % 4 = 0, NEW a, IsAlignment(a), NEW p, p = AlignedIn(b, a)
  PROVE  /\ p \in Nat /\ p % 4 = 0 /\ \E k \in 0 .. p : p = k * a
         /\ p = b \/ (b + 16 <= p /\ p <= b + a + 12)
         /\ a = 4 => p = b
<1> DEFINE y == AlignUp(b, a)
           short == 16 - (y - b)
           m == Max({short, a})
<1>1. a \in Nat \ {0} /\ 4 <= a /\ a % 4 = 0 BY DEF IsAlignment
<1>2. /\ y \in Nat /\ b <= y /\ y <= b + a - 1 /\ y % 4 = 0
      /\ \E k \in Nat : y = k * a /\ k <= y
  BY <1>1, RoundedUp
<1>3. p = IF y = b \/ short <= 0 THEN y ELSE AlignUp(y + m, a)
  BY DEF AlignedIn, HeaderSize
<1> HIDE DEF y
<1>4. CASE y = b \/ short <= 0
  <2>1. p = y BY <1>3, <1>4
  <2>2. p = b \/ (b + 16 <= p /\ p <= b + a + 12) BY <1>1, <1>2, <1>4, <2>1
  <2>3. a = 4 => p = b BY <1>1, <1>2, <2>1
  <2>4. \E k \in 0 .. p : p = k * a BY <1>2, <2>1
  <2> QED BY <1>2, <2>1, <2>2, <2>3, <2>4
<1>5. CASE ~ (y = b \/ short <= 0)
  <2>1. short \in Nat /\ b + 4 <= y /\ short <= 12 /\ 8 <= a BY <1>1, <1>2, <1>5
  <2>2. m = IF short >= a THEN short ELSE a BY <1>1, <2>1, Larger
  <2>3. m \in Nat /\ short <= m /\ a <= m /\ m <= IF a = 8 THEN 12 ELSE a BY <1>1, <2>1, <2>2
  <2>4. p = AlignUp(y + m, a) BY <1>3, <1>5
  <2> HIDE DEF m
  <2>5. /\ p \in Nat /\ y + m <= p /\ p <= y + m + a - 1 /\ p % 4 = 0
        /\ \E k \in Nat : p = k * a /\ k <= p
    <3>1. PICK n \in Nat : n = y + m BY <1>2, <2>3
    <3>2. p = AlignUp(n, a) BY <2>4, <3>1
    <3>3. /\ p \in Nat /\ n <= p /\ p <= n + a - 1 /\ p % 4 = 0
          /\ \E k \in Nat : p = k * a /\ k <= p
      BY <1>1, <3>2, RoundedUp
    <3> QED BY <3>1, <3>3
  <2>6. b + 16 <= p BY <1>2, <2>1, <2>3, <2>5
  <2>7. p <= b + a + 12
    <3>1. PICK k \in Nat : y = k * a BY <1>2
    <3>2. PICK q \in Nat : p = q * a BY <2>5
    <3>3. CASE a = 8
      <4>1. p <= y + 16
        <5>1. p <= y + 19 BY <1>2, <2>3, <2>5, <3>3
        <5>2. y = k * 8 /\ p = q * 8 BY <3>1, <3>2, <3>3
        <5> QED BY <5>1, <5>2
      <4>2. y <= b + 4 BY <1>1, <1>2, <2>1, <3>3
      <4> QED BY <1>1, <1>2, <2>5, <3>3, <4>1, <4>2
    <3>4. CASE a # 8
      <4>1. m = a BY <1>1, <2>3, <3>4
      <4>2. p <= y + a
        <5>1. SUFFICES ASSUME y + a < p PROVE FALSE BY <1>1, <1>2, <2>5
        <5>2. k + 1 \in Nat /\ (k + 1) * a = k * a + a BY <1>1
        <5>3. k + 1 < q
          <6>1. SUFFICES ASSUME q <= k + 1 PROVE FALSE OBVIOUS
          <6>2. q = k + 1 \/ q < k + 1 BY <6>1
          <6>3. q < k + 1 => q * a + a <= (k + 1) * a BY <1>1, <5>2, Multiples
          <6> DEFINE u == q * a
                     v == (k + 1) * a
          <6>4. u = p /\ v = y + a BY <3>1, <3>2, <5>2
          <6>5. q = k + 1 => u = v OBVIOUS
          <6>6. q < k + 1 => u + a <= v BY <6>3
          <6> HIDE DEF u, v
          <6> QED BY <1>1, <1>2, <2>5, <5>1, <6>2, <6>4, <6>5, <6>6
        <5>4. (k + 1) * a + a <= q * a BY <1>1, <5>2, <5>3, Multiples
        <5> DEFINE u == q * a
                   v == (k + 1) * a
        <5>5. u = p /\ v = y + a /\ v + a <= u BY <3>1, <3>2, <5>2, <5>4
        <5> HIDE DEF u, v
        <5> QED BY <1>1, <1>2, <2>5, <4>1, <5>5
      <4>3. y <= b + 12 BY <1>1, <1>2, <1>5
      <4> QED BY <1>1, <1>2, <2>5, <4>2, <4>3
    <3> QED BY <3>3, <3>4
  <2>8. a # 4 BY <1>1, <2>1
  <2>9. \E k \in 0 .. p : p = k * a BY <2>5
  <2> QED BY <2>5, <2>6, <2>7, <2>8, <2>9
<1> QED BY <1>4, <1>5

-----------------------------------------------------------------------------
(* What a request gets: nothing, or a block that was not in use.            *)

Served(h, r, size) ==
  \/ r = [heap |-> h, block |-> NULL]
  \/ r.block # NULL /\ Takes(h, r.heap, r.block, size)

LEMMA FoundPrepared ==
  ASSUME NEW h, NEW s, NEW f, NEW size, FoundOne(h, s, f), size \in Nat, 12 <= size, size % 4 = 0,
         size <= s, s \in Nat
  PROVE  Takes(h, PrepareBlockForUse(f.heap, f.block, size), f.block, size)
<1> DEFINE b == f.block
           g == f.heap
           k == PrepareBlockForUse(g, b, size)
<1>1. /\ b \in FreeIn(h.blocks) /\ Whole(g, {}, {b}) /\ g.blocks = h.blocks /\ s <= h.blocks[b].size
  BY DEF FoundOne
<1>2. b \in FreeIn(g.blocks) /\ Beside(g.blocks, b, {}) /\ b \notin {} BY <1>1 DEF Beside
<1>3. size <= g.blocks[b].size
  <2>1. b \in InnerBlocks(g.blocks) /\ HeapOK(g) /\ Tiled(g.blocks) BY <1>2, <1>1 DEF FreeIn, Whole
  <2>2. g.blocks[b].size \in 1 .. PoolBytes BY <2>1, TiledFacts
  <2>3. g.blocks[b].size \in Nat BY <2>2, PoolSizes
  <2> QED BY <1>1, <2>3
<1> HIDE DEF b, g
<1>4. Takes(g, PrepareBlockForUse(g, b, size), b, size) BY <1>1, <1>2, <1>3, Prepared
<1>5. Takes(h, k, b, size) BY <1>1, <1>4 DEF Takes
<1> QED BY <1>5 DEF b, g

LEMMA Allocated ==
  ASSUME NEW h, Whole(h, {}, {}), NEW size \in Sizes, NEW r, r = TlsfAllocate(h, size)
  PROVE  Served(h, r, AdjustRequestSize(size))
<1> DEFINE n == AdjustRequestSize(size)
           f == LocateFreeBlock(h, n)
<1>1. n \in Nat /\ 12 <= n /\ n % 4 = 0 /\ n <= Bit[29]
  BY RequestsAdjusted, BitValues
<1>2. Askable(n) BY <1>1 DEF Askable
<1>3. r = [heap |-> PrepareBlockForUse(f.heap, f.block, n), block |-> f.block]
  BY DEF TlsfAllocate
<1> HIDE DEF n
<1>4. \/ f = [heap |-> h, block |-> NULL] /\ FoundNone(h, n)
      \/ f.block # NULL /\ FoundOne(h, n, f)
  BY <1>2, Located
<1> HIDE DEF f
<1>5. CASE f = [heap |-> h, block |-> NULL]
  BY <1>3, <1>5 DEF Served, PrepareBlockForUse
<1>6. CASE f.block # NULL /\ FoundOne(h, n, f)
  <2>1. Takes(h, PrepareBlockForUse(f.heap, f.block, n), f.block, n)
    BY <1>1, <1>6, FoundPrepared
  <2> QED BY <1>3, <1>6, <2>1 DEF Served, n
<1> QED BY <1>4, <1>5, <1>6

(* The place in a free block of a request that is aligned: the gap before   *)
(* it goes back to the lists.                                               *)
WithGap(h, s, f, size, a, gap) ==
  /\ FoundOne(h, s, f) /\ size \in Nat /\ 12 <= size /\ size % 4 = 0
  /\ IsAlignment(a) /\ s = AlignUp(size + a + 16, a)
  /\ gap \in Nat /\ gap % 4 = 0 /\ 16 <= gap /\ gap <= a + 12

LEMMA LeadTrimmed ==
  ASSUME NEW h, NEW s, NEW f, NEW size, NEW a, NEW gap, WithGap(h, s, f, size, a, gap),
         NEW t, t = TrimLeadingFreeBlock(f.heap, f.block, gap)
  PROVE  /\ t.block = f.block + gap
         /\ Takes(h, PrepareBlockForUse(t.heap, t.block, size), t.block, size)
<1>0. /\ FoundOne(h, s, f) /\ size \in Nat /\ 12 <= size /\ size % 4 = 0
      /\ IsAlignment(a) /\ s = AlignUp(size + a + 16, a)
      /\ gap \in Nat /\ gap % 4 = 0 /\ 16 <= gap /\ gap <= a + 12
  BY DEF WithGap
<1> USE <1>0
<1> DEFINE b == f.block
           g == f.heap
           rest == b + gap
           split == LinkBlockWithNext(SplitBlock(g, b, gap - 4), b)
<1>1. /\ b \in FreeIn(h.blocks) /\ Whole(g, {}, {b}) /\ g.blocks = h.blocks /\ s <= h.blocks[b].size
  BY DEF FoundOne
<1>2. b \in FreeIn(g.blocks) /\ b \notin {} BY <1>1
<1>3. /\ b \in InnerBlocks(g.blocks) /\ HeapOK(g) /\ Tiled(g.blocks)
      /\ g.blocks[b].size \in Nat /\ b \in Nat /\ g.blocks[b].size % 4 = 0
  <2>1. b \in InnerBlocks(g.blocks) /\ HeapOK(g) /\ Tiled(g.blocks) BY <1>2, <1>1 DEF FreeIn, Whole
  <2>2. g.blocks[b].size \in 1 .. PoolBytes /\ b \in Nat BY <2>1, TiledFacts
  <2>3. g.blocks[b].size \in Nat /\ g.blocks[b].size % 4 = 0 BY <2>1, <2>2, PoolSizes DEF Tiled
  <2> QED BY <2>1, <2>2, <2>3
<1>4. size + a + 16 <= g.blocks[b].size
  <2>1. a \in Nat \ {0} BY DEF IsAlignment
  <2>2. PICK n \in Nat : n = size + a + 16 BY <2>1
  <2>3. s \in Nat /\ n <= s BY <2>1, <2>2, RoundedUp
  <2> QED BY <1>1, <1>3, <2>2, <2>3
<1>5. CanSplitBlock(g, b, gap) BY <1>3, <1>4 DEF CanSplitBlock, HeaderSize, IsAlignment
<1>6. t = [heap |-> InsertBlock(split, b), block |-> rest]
  <2>1. SplitPoint(b, gap - 4) = rest BY <1>3 DEF SplitPoint, Overhead
  <2> QED BY <1>5, <2>1 DEF TrimLeadingFreeBlock, Overhead
<1> HIDE DEF b, g, split
<1>7. PICK L, front : L = {b} /\ front = gap - 4 /\ front \in Nat
  <2>1. gap - 4 \in Nat OBVIOUS
  <2> QED BY <2>1
<1>8. Splits(g, {}, L, b, front)
  <2>1. 12 <= front /\ front % 4 = 0 /\ 16 + front <= g.blocks[b].size
    BY <1>3, <1>4, <1>7 DEF IsAlignment
  <2> QED BY <1>1, <1>2, <1>7, <2>1 DEF Splits
<1>9. Split(g, split, {}, L, b, front, rest)
  <2>1. rest = b + front + 4 BY <1>3, <1>7
  <2>2. split = LinkBlockWithNext(SplitBlock(g, b, front), b) BY <1>7 DEF split
  <2> HIDE DEF rest
  <2> QED BY <1>8, <2>1, <2>2, FreeSplit
<1> HIDE DEF rest
<1>10. /\ Whole(split, {} \cup {b}, L \cup {rest})
       /\ DOMAIN split.blocks = DOMAIN g.blocks \cup {rest} /\ rest \notin DOMAIN g.blocks
       /\ split.blocks[rest].free /\ split.blocks[rest].size = g.blocks[b].size - front - 4
       /\ rest \in InnerBlocks(split.blocks)
       /\ b \in InnerBlocks(split.blocks) /\ split.blocks[b].free
       /\ After(split.blocks, b) = rest
       /\ \A x \in DOMAIN g.blocks \ {b} :
            split.blocks[x].size = g.blocks[x].size /\ split.blocks[x].free = g.blocks[x].free
  BY <1>9 DEF Split
<1>11. PICK X, M : X = {b} /\ M = L \cup {rest} OBVIOUS
<1>12. b \in FreeIn(split.blocks) /\ rest \in FreeIn(split.blocks) /\ b \in M
       /\ b \in DOMAIN g.blocks /\ b # rest /\ Whole(split, X, M)
  <2>1. {} \cup {b} = {b} OBVIOUS
  <2> QED BY <1>3, <1>7, <1>10, <1>11, <2>1 DEF FreeIn, InnerBlocks
<1> DEFINE k == InsertBlock(split, b)
<1>13. /\ Whole(k, X, M \ {b}) /\ DOMAIN k.blocks = DOMAIN split.blocks /\ SameUse(split, k)
       /\ InnerBlocks(k.blocks) = InnerBlocks(split.blocks)
       /\ FreeIn(k.blocks) = FreeIn(split.blocks)
       /\ \A x \in DOMAIN split.blocks :
             /\ k.blocks[x].size = split.blocks[x].size
             /\ After(k.blocks, x) = After(split.blocks, x)
  <2>1. k = InsertBlock(split, b) /\ Whole(split, X, M) /\ b \in FreeIn(split.blocks) /\ b \in M
    BY <1>12
  <2> HIDE DEF k
  <2> QED BY <2>1, Inserted
<1>14. t.heap = k /\ t.block = rest BY <1>6
<1> HIDE DEF k
<1>15. M \ {b} = {rest} BY <1>7, <1>11, <1>12
<1>16. SameUse(g, split)
  <2>1. rest \notin Used(split.blocks) /\ b \notin Used(split.blocks) /\ b \notin Used(g.blocks)
    BY <1>2, <1>10 DEF Used, FreeIn
  <2>2. ASSUME NEW x, x # rest, x # b PROVE x \in Used(split.blocks) <=> x \in Used(g.blocks)
    <3>1. DOMAIN split.blocks = DOMAIN g.blocks \cup {rest} BY <1>10
    <3>2. x \in DOMAIN g.blocks => split.blocks[x].free = g.blocks[x].free BY <1>10, <2>2
    <3> QED BY <2>2, <3>1, <3>2 DEF Used, InnerBlocks
  <2>3. rest \notin Used(g.blocks) BY <1>10 DEF Used, InnerBlocks
  <2>4. Used(split.blocks) = Used(g.blocks) BY <2>1, <2>2, <2>3
  <2>5. \A x \in Used(g.blocks) : x \in DOMAIN g.blocks \ {b} BY <2>1 DEF Used, InnerBlocks
  <2> QED BY <1>10, <2>4, <2>5 DEF SameUse
<1>17. rest \in DOMAIN split.blocks /\ b \in DOMAIN split.blocks BY <1>10, <1>12
<1>18. /\ rest \in FreeIn(k.blocks) /\ Whole(k, X, {rest}) /\ Beside(k.blocks, rest, X)
       /\ rest \notin X /\ size <= k.blocks[rest].size
  <2>1. k.blocks[rest].size = g.blocks[b].size - front - 4 BY <1>10, <1>13, <1>17
  <2>2. size <= k.blocks[rest].size BY <1>3, <1>4, <1>7, <2>1 DEF IsAlignment
  <2>3. After(k.blocks, b) = rest /\ b \in InnerBlocks(k.blocks) BY <1>10, <1>13, <1>17
  <2>4. Beside(k.blocks, rest, X) BY <1>11, <2>3 DEF Beside
  <2> QED BY <1>11, <1>12, <1>13, <1>15, <2>2, <2>4
<1>19. Takes(k, PrepareBlockForUse(k, rest, size), rest, size) BY <1>18, Prepared
<1>20. Takes(h, PrepareBlockForUse(k, rest, size), rest, size)
  BY <1>1, <1>13, <1>16, <1>19 DEF Takes, SameUse
<1> QED BY <1>14, <1>20 DEF rest, b

LEMMA AlignedAllocated ==
  ASSUME NEW h, Whole(h, {}, {}), NEW size \in Sizes, NEW a, IsAlignment(a),
         NEW r, r = TlsfAlign(h, a, size)
  PROVE  /\ Served(h, r, AdjustRequestSize(size))
         /\ r.block # NULL => \E k \in 0 .. r.block : r.block = k * a
<1> DEFINE n == AdjustRequestSize(size)
           withGap == AlignUp(n + a + 16, a)
           s == IF a <= 4 THEN n ELSE withGap
           f == LocateFreeBlock(h, s)
           gap == AlignedIn(f.block, a) - f.block
           t == IF gap = 0 THEN f ELSE TrimLeadingFreeBlock(f.heap, f.block, gap)
<1>1. n \in Nat /\ 12 <= n /\ n % 4 = 0 /\ n <= Bit[28] + 12 /\ n <= Bit[29]
  BY RequestsAdjusted, BitValues
<1> HIDE DEF n
<1>2. a \in Nat \ {0} /\ 4 <= a /\ a % 4 = 0 /\ a <= Bit[14] BY DEF IsAlignment
<1>3. withGap \in Nat /\ n + a + 16 <= withGap /\ withGap % 4 = 0 /\ withGap <= Bit[29]
  <2>1. PICK m \in Nat : m = n + a + 16 BY <1>1, <1>2
  <2>2. PICK w : w = AlignUp(m, a) OBVIOUS
  <2>3. w \in Nat /\ m <= w /\ w <= m + a - 1 /\ w % 4 = 0 BY <1>2, <2>2, RoundedUp
  <2>4. w = withGap BY <2>1, <2>2
  <2> HIDE DEF withGap
  <2> QED BY <1>1, <1>2, <2>1, <2>3, <2>4, BitValues
<1>4. Askable(s) /\ n <= s
  <2> HIDE DEF withGap
  <2> QED BY <1>1, <1>2, <1>3 DEF Askable
<1>5. r = IF f.block = NULL THEN f
          ELSE [heap |-> PrepareBlockForUse(t.heap, t.block, n), block |-> t.block]
  BY DEF TlsfAlign, Align, HeaderSize, n
<1> HIDE DEF s
<1>6. \/ f = [heap |-> h, block |-> NULL] /\ FoundNone(h, s)
      \/ f.block # NULL /\ FoundOne(h, s, f)
  BY <1>4, Located
<1>7. CASE f = [heap |-> h, block |-> NULL]
  BY <1>5, <1>7 DEF Served
<1>8. CASE f.block # NULL /\ FoundOne(h, s, f)
  <2> DEFINE b == f.block
             p == AlignedIn(b, a)
  <2>1. b \in Nat /\ b % 4 = 0
    <3>1. b \in FreeIn(h.blocks) BY <1>8 DEF FoundOne
    <3>2. b \in InnerBlocks(h.blocks) /\ b \in DOMAIN h.blocks BY <3>1 DEF FreeIn, InnerBlocks
    <3>3. HeapOK(h) /\ Tiled(h.blocks) BY DEF Whole
    <3> HIDE DEF b
    <3> QED BY <3>2, <3>3, TiledFacts DEF Tiled
  <2>2. /\ p \in Nat /\ p % 4 = 0 /\ \E k \in 0 .. p : p = k * a
        /\ p = b \/ (b + 16 <= p /\ p <= b + a + 12)
        /\ a = 4 => p = b
    <3> HIDE DEF b
    <3> QED BY <2>1, PlaceIsAligned
  <2>3. r = [heap |-> PrepareBlockForUse(t.heap, t.block, n), block |-> t.block]
    BY <1>5, <1>8
  <2>4. gap = p - b OBVIOUS
  <2> HIDE DEF gap, p
  <2>5. CASE p = b
    <3>1. t = f BY <2>1, <2>4, <2>5
    <3>2. Takes(h, PrepareBlockForUse(f.heap, f.block, n), f.block, n)
      <4>1. s \in Nat BY <1>4 DEF Askable
      <4> HIDE DEF f
      <4> QED BY <1>1, <1>4, <1>8, <4>1, FoundPrepared
    <3>3. r.block = b /\ r.heap = PrepareBlockForUse(f.heap, f.block, n) BY <2>3, <3>1
    <3> QED BY <1>8, <2>2, <2>5, <3>2, <3>3 DEF Served, n
  <2>6. CASE p # b
    <3>1. a # 4 /\ gap \in Nat /\ gap % 4 = 0 /\ 16 <= gap /\ gap <= a + 12 /\ gap # 0
      BY <1>2, <2>1, <2>2, <2>4, <2>6
    <3>2. s = AlignUp(n + a + 16, a) BY <1>2, <3>1 DEF s
    <3>3. t = TrimLeadingFreeBlock(f.heap, f.block, gap) BY <3>1
    <3> HIDE DEF t, f
    <3>4. /\ t.block = f.block + gap
          /\ Takes(h, PrepareBlockForUse(t.heap, t.block, n), t.block, n)
      <4>1. WithGap(h, s, f, n, a, gap) BY <1>1, <1>8, <3>1, <3>2 DEF WithGap
      <4> QED BY <3>3, <4>1, LeadTrimmed
    <3>5. t.block = p BY <2>1, <2>2, <2>4, <3>4
    <3>6. p # NULL BY <2>1, <2>2, <2>6, <1>8 DEF NULL
    <3> QED BY <2>2, <2>3, <3>4, <3>5, <3>6 DEF Served, n
  <2> QED BY <2>5, <2>6
<1> QED BY <1>6, <1>7, <1>8

-----------------------------------------------------------------------------
(* A heap that is harmed stays so.                                          *)

IsHeap(h) ==
  h = [blocks |-> h.blocks, head |-> h.head, fl |-> h.fl, sl |-> h.sl, failed |-> h.failed,
       harmed |-> h.harmed]

Marred(h) == IsHeap(h) /\ h.harmed

(* k is a heap, and harmed if h is.                                         *)
From(h, k) == IsHeap(k) /\ k.harmed = h.harmed

LEMMA EveryStepIsFrom ==
  ASSUME NEW h, IsHeap(h)
  PROVE  /\ \A condition : From(h, Assert(h, condition))
         /\ \A b : From(h, LinkBlockWithNext(h, b))
         /\ \A b : From(h, InsertBlock(h, b))
         /\ \A C : From(h, [h EXCEPT !.blocks = C])
         /\ Marred([h EXCEPT !.harmed = TRUE])
<1>1. ASSUME NEW condition PROVE From(h, Assert(h, condition))
  BY DEF Assert, From, IsHeap
<1>2. ASSUME NEW b PROVE From(h, LinkBlockWithNext(h, b))
  BY DEF LinkBlockWithNext, From, IsHeap
<1>3. ASSUME NEW b PROVE From(h, InsertBlock(h, b))
  <2> DEFINE class == InsertMapping(h.blocks[b].size)
  <2>1. InsertBlock(h, b) =
          [h EXCEPT !.blocks[b].next = h.head[class], !.head[class] = b,
                    !.fl = h.fl \cup {class[1]}, !.sl = h.sl \cup {class}]
    BY DEF InsertBlock
  <2> HIDE DEF class
  <2> QED BY <2>1 DEF From, IsHeap
<1>4. ASSUME NEW C PROVE From(h, [h EXCEPT !.blocks = C]) BY DEF From, IsHeap
<1>5. Marred([h EXCEPT !.harmed = TRUE])
  <2>1. PICK k : k = [h EXCEPT !.harmed = TRUE] OBVIOUS
  <2>2. k = [blocks |-> h.blocks, head |-> h.head, fl |-> h.fl, sl |-> h.sl,
             failed |-> h.failed, harmed |-> TRUE]
    BY <2>1 DEF IsHeap
  <2> QED BY <2>1, <2>2 DEF Marred, IsHeap
<1> QED BY <1>1, <1>2, <1>3, <1>4, <1>5

LEMMA RemovalIsFrom ==
  ASSUME NEW h, IsHeap(h), NEW b
  PROVE  IsHeap(RemoveBlock(h, b)) /\ (RemoveBlock(h, b).harmed = h.harmed \/ RemoveBlock(h, b).harmed)
<1> DEFINE class == InsertMapping(h.blocks[b].size)
           next == h.blocks[b].next
           sl == h.sl \ {class}
           fl == IF \E c \in sl : c[1] = class[1] THEN h.fl ELSE h.fl \ {class[1]}
           k == RemoveBlock(h, b)
<1>1. k = IF h.head[class] # b THEN [h EXCEPT !.harmed = TRUE]
          ELSE IF next # NULL THEN [h EXCEPT !.head[class] = next]
          ELSE [h EXCEPT !.head[class] = NULL, !.sl = sl, !.fl = fl]
  BY DEF RemoveBlock, RemoveFreeBlock
<1> HIDE DEF class, next, sl, fl, k
<1>2. CASE k = [h EXCEPT !.harmed = TRUE] BY <1>2 DEF IsHeap, k
<1>3. CASE k = [h EXCEPT !.head[class] = next] BY <1>3 DEF IsHeap, k
<1>4. CASE k = [h EXCEPT !.head[class] = NULL, !.sl = sl, !.fl = fl] BY <1>4 DEF IsHeap, k
<1> QED BY <1>1, <1>2, <1>3, <1>4

LEMMA AbsorbIsFrom == ASSUME NEW h, IsHeap(h), NEW a, NEW b PROVE From(h, AbsorbBlock(h, a, b))
<1> DEFINE grown == [h.blocks EXCEPT ![a].size = @ + h.blocks[b].size + Overhead]
           C == Restrict(grown, DOMAIN h.blocks \ {b})
           g == [h EXCEPT !.blocks = C]
<1>1. AbsorbBlock(h, a, b) = LinkBlockWithNext(g, a) BY DEF AbsorbBlock
<1> HIDE DEF C
<1>2. From(h, g) BY EveryStepIsFrom
<1> HIDE DEF g
<1>3. From(g, LinkBlockWithNext(g, a)) BY <1>2, EveryStepIsFrom DEF From
<1> QED BY <1>1, <1>2, <1>3 DEF From

LEMMA NextMergeIsFrom ==
  ASSUME NEW h, IsHeap(h), NEW b
  PROVE  IsHeap(MergeBlockWithNext(h, b)) /\ (h.harmed => MergeBlockWithNext(h, b).harmed)
<1> DEFINE next == NextBlock(h, b)
           g == RemoveBlock(h, next)
<1>1. MergeBlockWithNext(h, b) = IF ~ h.blocks[next].free THEN h ELSE AbsorbBlock(g, b, next)
  BY DEF MergeBlockWithNext
<1>2. IsHeap(g) /\ (g.harmed = h.harmed \/ g.harmed) BY RemovalIsFrom
<1> HIDE DEF g, next
<1>3. From(g, AbsorbBlock(g, b, next)) BY <1>2, AbsorbIsFrom
<1> QED BY <1>1, <1>2, <1>3 DEF From

LEMMA FlagsAreFrom ==
  ASSUME NEW h, IsHeap(h), NEW n, NEW b
  PROVE  From(h, [h EXCEPT !.blocks[n].prevFree = TRUE, !.blocks[b].free = TRUE])
<1> DEFINE C == [h.blocks EXCEPT ![n].prevFree = TRUE, ![b].free = TRUE]
<1>1. [h EXCEPT !.blocks[n].prevFree = TRUE, !.blocks[b].free = TRUE] = [h EXCEPT !.blocks = C]
  BY DEF IsHeap
<1> HIDE DEF C
<1> QED BY <1>1, EveryStepIsFrom

LEMMA MarkingsAreFrom ==
  ASSUME NEW h, IsHeap(h), NEW b
  PROVE  From(h, MarkBlockUsed(h, b)) /\ From(h, MarkBlockFree(h, b)) /\ From(h, HandOver(h, b))
<1>1. PICK n : n = NextBlock(h, b) OBVIOUS
<1>2. From(h, MarkBlockUsed(h, b))
  <2>1. MarkBlockUsed(h, b) = [h EXCEPT !.blocks[n].prevFree = FALSE, !.blocks[b].free = FALSE]
    BY <1>1 DEF MarkBlockUsed
  <2> QED BY <2>1 DEF From, IsHeap
<1>3. From(h, HandOver(h, b))
  <2>1. HandOver(h, b) = [h EXCEPT !.blocks[b].next = 0, !.blocks[n].previous = 0]
    BY <1>1 DEF HandOver, NULL
  <2> QED BY <2>1 DEF From, IsHeap
<1>4. From(h, MarkBlockFree(h, b))
  <2>1. PICK g : g = LinkBlockWithNext(h, b) OBVIOUS
  <2>2. From(h, g) BY <2>1, EveryStepIsFrom
  <2>3. MarkBlockFree(h, b) = [g EXCEPT !.blocks[n].prevFree = TRUE, !.blocks[b].free = TRUE]
    BY <1>1, <2>1 DEF MarkBlockFree
  <2>4. IsHeap(g) BY <2>2 DEF From
  <2>5. From(g, [g EXCEPT !.blocks[n].prevFree = TRUE, !.blocks[b].free = TRUE])
    BY <2>4, FlagsAreFrom
  <2> QED BY <2>2, <2>3, <2>5 DEF From
<1> QED BY <1>2, <1>3, <1>4

-----------------------------------------------------------------------------
(* Giving back.                                                             *)

(* A free block on no list and the one behind it made one.                  *)
LEMMA FreeAbsorbed ==
  ASSUME NEW h, NEW X, NEW L, Whole(h, X, L), NEW a \in FreeIn(h.blocks), a \in L,
         NEW b \in FreeIn(h.blocks), b \notin L, After(h.blocks, a) = b,
         NEW k, k = AbsorbBlock(RemoveBlock(h, b), a, b)
  PROVE  \/ Marred(k)
         \/ /\ Whole(k, MergedX(X, a, b), L) /\ a \in FreeIn(k.blocks) /\ SameUse(h, k)
<1> DEFINE g == RemoveBlock(h, b)
<1>1. (g.harmed \/ Whole(g, X, L \cup {b})) /\ g.blocks = h.blocks BY BlockRemoved
<1>2. k = AbsorbBlock(g, a, b) OBVIOUS
<1>3. CASE g.harmed
  <2>1. IsHeap(h) BY HeapFields DEF Whole, IsHeap
  <2>2. IsHeap(g) BY <2>1, RemovalIsFrom
  <2> HIDE DEF g
  <2>3. From(g, k) BY <1>2, <2>2, AbsorbIsFrom
  <2> QED BY <1>3, <2>3 DEF From, Marred
<1> HIDE DEF g
<1>4. CASE Whole(g, X, L \cup {b})
  <2>1. PICK M : M = L \cup {b} OBVIOUS
  <2>2. /\ Whole(g, X, M) /\ a \in InnerBlocks(g.blocks) /\ b \in FreeIn(g.blocks) /\ b \in M
        /\ After(g.blocks, a) = b /\ a \in M /\ g.blocks[a].free /\ g.blocks[b].free
    BY <1>1, <1>4, <2>1 DEF FreeIn
  <2>3. Absorption(g, X, M, a, b, k) BY <1>2, <2>2, Absorbed
  <2>4. M \ {b} = L BY <2>1
  <2>5. Whole(k, MergedX(X, a, b), L) BY <2>2, <2>3, <2>4 DEF Absorption, Whole
  <2>6. a \in FreeIn(k.blocks)
    BY <2>2, <2>3 DEF Absorption, FreeIn, InnerBlocks
  <2>7. Used(k.blocks) = Used(g.blocks)
    <3>1. b \notin Used(g.blocks) BY <2>2 DEF Used
    <3>2. \A x \in InnerBlocks(k.blocks) : k.blocks[x].free = g.blocks[x].free
      BY <2>3 DEF Absorption, InnerBlocks
    <3> QED BY <2>3, <3>1, <3>2 DEF Absorption, Used
  <2>8. SameUse(g, k)
    <3>1. \A x \in Used(g.blocks) : x \in InnerBlocks(k.blocks) \ {a}
      BY <2>2, <2>7 DEF Used
    <3> QED BY <2>3, <2>7, <3>1 DEF Absorption, SameUse
  <2> QED BY <1>1, <2>5, <2>6, <2>8 DEF SameUse
<1> QED BY <1>1, <1>3, <1>4

FreeBeside(B, p) == {p} \cup {x \in InnerBlocks(B) : After(B, x) = p}

LEMMA MergedPrevious ==
  ASSUME NEW h, NEW p \in FreeIn(h.blocks), NEW L, L = {p}, Whole(h, FreeBeside(h.blocks, p), L),
         NEW r, r = MergeBlockWithPrevious(h, p)
  PROVE  \/ Marred(r.heap)
         \/ /\ Whole(r.heap, {r.block}, {r.block}) /\ r.block \in FreeIn(r.heap.blocks)
            /\ SameUse(h, r.heap)
<1> DEFINE B == h.blocks
           previous == B[p].previous
<1>1. /\ HeapOK(h) /\ Tiled(B) /\ Flagged(B) /\ Coalesced(B, FreeBeside(B, p))
      /\ p \in InnerBlocks(B) /\ B[p].free /\ p \in DOMAIN B
  BY DEF Whole, FreeIn, InnerBlocks
<1>2. CASE ~ B[p].prevFree
  <2>1. r = [heap |-> h, block |-> p] BY <1>2 DEF MergeBlockWithPrevious
  <2>2. Coalesced(B, L)
    <3> SUFFICES ASSUME NEW x \in InnerBlocks(B), B[x].free, B[After(B, x)].free PROVE x \in L
      BY DEF Coalesced
    <3>1. After(B, x) = p => ~ B[x].free BY <1>1, <1>2 DEF Flagged
    <3>2. x \in FreeBeside(B, p) BY <1>1 DEF Coalesced
    <3> QED BY <3>1, <3>2 DEF FreeBeside
  <2>3. Whole(h, L, L) BY <2>2 DEF Whole
  <2> QED BY <2>1, <2>3 DEF SameUse
<1>3. CASE B[p].prevFree
  <2>1. p # FirstBlock BY <1>1, <1>3 DEF Tiled
  <2>2. PICK a \in InnerBlocks(B) : After(B, a) = p BY <1>1, <2>1 DEF Tiled
  <2>3. B[a].free /\ previous = a /\ a \in FreeIn(B) /\ a \in DOMAIN B
    <3>1. B[p].prevFree = B[a].free /\ (B[a].free => previous = a) BY <1>1, <2>2 DEF Flagged
    <3> QED BY <1>3, <3>1 DEF FreeIn, InnerBlocks
  <2>4. r = [heap |-> AbsorbBlock(RemoveBlock(h, a), a, p), block |-> a]
    BY <1>3, <2>3 DEF MergeBlockWithPrevious
  <2>5. a # p
    <3>1. a \in Nat /\ a + 16 <= After(B, a) BY <1>1, TiledFacts
    <3> QED BY <2>2, <3>1
  <2> DEFINE g == RemoveBlock(h, a)
             k == AbsorbBlock(g, a, p)
  <2>6. (g.harmed \/ Whole(g, FreeBeside(B, p), L \cup {a})) /\ g.blocks = B
    <3>1. a \in FreeIn(h.blocks) \ L BY <2>3, <2>5
    <3> QED BY <3>1, BlockRemoved
  <2>7. r.heap = k /\ r.block = a BY <2>4
  <2>8. CASE g.harmed
    <3>1. IsHeap(h) BY <1>1, HeapFields DEF IsHeap
    <3>2. IsHeap(g) BY <3>1, RemovalIsFrom
    <3> HIDE DEF g
    <3>3. From(g, k) BY <3>2, AbsorbIsFrom
    <3> QED BY <2>7, <2>8, <3>3 DEF From, Marred
  <2> HIDE DEF g
  <2>9. CASE Whole(g, FreeBeside(B, p), L \cup {a})
    <3>1. PICK M, X : M = L \cup {a} /\ X = FreeBeside(B, p) OBVIOUS
    <3>2. /\ Whole(g, X, M) /\ a \in InnerBlocks(g.blocks) /\ p \in FreeIn(g.blocks) /\ p \in M
          /\ After(g.blocks, a) = p /\ a \in M /\ g.blocks[a].free /\ g.blocks[p].free
      BY <1>1, <2>2, <2>3, <2>6, <2>9, <3>1 DEF FreeIn
    <3>3. k = AbsorbBlock(g, a, p) OBVIOUS
    <3> HIDE DEF k
    <3>4. Absorption(g, X, M, a, p, k) BY <3>2, <3>3, Absorbed
    <3>5. M \ {p} = {a} BY <2>5, <3>1
    <3>6. MergedX(X, a, p) = {a}
      <4>1. p \in X BY <3>1 DEF FreeBeside
      <4>2. \A x \in X : x = p \/ x = a
        BY <1>1, <2>2, <3>1, TiledFacts DEF FreeBeside
      <4> QED BY <4>1, <4>2 DEF MergedX
    <3>7. Whole(k, {a}, {a}) BY <3>2, <3>4, <3>5, <3>6 DEF Absorption, Whole
    <3>8. a \in FreeIn(k.blocks)
      BY <3>2, <3>4 DEF Absorption, FreeIn, InnerBlocks
    <3>9. Used(k.blocks) = Used(g.blocks)
      <4>1. p \notin Used(g.blocks) BY <3>2 DEF Used
      <4>2. \A x \in InnerBlocks(k.blocks) : k.blocks[x].free = g.blocks[x].free
        BY <3>4 DEF Absorption, InnerBlocks
      <4> QED BY <3>4, <4>1, <4>2 DEF Absorption, Used
    <3>10. SameUse(g, k)
      <4>1. \A x \in Used(g.blocks) : x \in InnerBlocks(k.blocks) \ {a}
        BY <3>2, <3>9 DEF Used
      <4> QED BY <3>4, <3>9, <4>1 DEF Absorption, SameUse
    <3> QED BY <2>6, <2>7, <3>7, <3>8, <3>10 DEF SameUse
  <2> QED BY <2>6, <2>8, <2>9
<1> QED BY <1>2, <1>3

LEMMA MergedNext ==
  ASSUME NEW h, NEW b \in FreeIn(h.blocks), NEW L, L = {b}, Whole(h, L, L),
         NEW k, k = MergeBlockWithNext(h, b)
  PROVE  \/ Marred(k)
         \/ Whole(k, {}, {b}) /\ b \in FreeIn(k.blocks) /\ SameUse(h, k)
<1> DEFINE B == h.blocks
           n == After(B, b)
<1>1. HeapOK(h) /\ Tiled(B) /\ Coalesced(B, L) /\ b \in InnerBlocks(B)
  BY DEF Whole, FreeIn
<1>2. NextBlock(h, b) = n /\ n \in DOMAIN B /\ b \in Nat /\ b + 16 <= n /\ n \in Nat
  BY <1>1, TiledFacts
<1>3. k = IF ~ B[n].free THEN h ELSE AbsorbBlock(RemoveBlock(h, n), b, n)
  BY <1>2 DEF MergeBlockWithNext
<1> HIDE DEF n
<1>4. CASE ~ B[n].free
  <2>1. Coalesced(B, {}) BY <1>1, <1>4 DEF Coalesced, n
  <2>2. Whole(h, {}, L) BY <2>1 DEF Whole
  <2> QED BY <1>3, <1>4, <2>2 DEF SameUse
<1>5. CASE B[n].free
  <2>1. n # Sentinel BY <1>1, <1>5 DEF Tiled
  <2>2. n \in FreeIn(B) /\ n \notin L /\ b \in L /\ After(B, b) = n
    BY <1>2, <1>5, <2>1 DEF FreeIn, InnerBlocks, n
  <2>3. k = AbsorbBlock(RemoveBlock(h, n), b, n) BY <1>3, <1>5
  <2>4. \/ Marred(k)
        \/ /\ Whole(k, MergedX(L, b, n), L) /\ b \in FreeIn(k.blocks) /\ SameUse(h, k)
    BY <2>2, <2>3, FreeAbsorbed
  <2>5. MergedX(L, b, n) = {} BY <2>2 DEF MergedX
  <2> QED BY <2>4, <2>5
<1> QED BY <1>4, <1>5

(* From h to k block p was given back.                                      *)
Returns(h, k, p) ==
  /\ Whole(k, {}, {}) /\ Used(k.blocks) = Used(h.blocks) \ {p}
  /\ \A x \in Used(h.blocks) \ {p} : k.blocks[x].size = h.blocks[x].size

LEMMA Freed ==
  ASSUME NEW h, Whole(h, {}, {}), NEW p \in Used(h.blocks), NEW k, k = TlsfFree(h, p)
  PROVE  Marred(k) \/ Returns(h, k, p)
<1> DEFINE B == h.blocks
           m == MarkBlockFree(h, p)
           r == MergeBlockWithPrevious(m, p)
           g == MergeBlockWithNext(r.heap, r.block)
<1>1. p \in InnerBlocks(B) /\ ~ B[p].free /\ p \in DOMAIN B BY DEF Used, InnerBlocks
<1>2. k = IF r.heap.failed THEN r.heap ELSE InsertBlock(g, r.block) BY DEF TlsfFree
<1>3. /\ Whole(m, FreeBeside(B, p), {} \cup {p}) /\ DOMAIN m.blocks = DOMAIN B
      /\ \A x \in DOMAIN B : /\ m.blocks[x].size = B[x].size
                             /\ m.blocks[x].free = (x = p \/ B[x].free)
  <2>1. PICK q : q = MarkBlockFree(h, p) OBVIOUS
  <2>2. /\ Whole(q, {p} \cup {x \in InnerBlocks(h.blocks) : After(h.blocks, x) = p}, {} \cup {p})
        /\ DOMAIN q.blocks = DOMAIN h.blocks
        /\ \A x \in DOMAIN h.blocks : /\ q.blocks[x].size = h.blocks[x].size
                                      /\ q.blocks[x].free = (x = p \/ h.blocks[x].free)
    BY <1>1, <2>1, FreeMarked
  <2> QED BY <2>1, <2>2 DEF FreeBeside
<1> HIDE DEF m
<1>4. InnerBlocks(m.blocks) = InnerBlocks(B) /\ FreeBeside(m.blocks, p) = FreeBeside(B, p)
  <2>1. InnerBlocks(m.blocks) = InnerBlocks(B) BY <1>3 DEF InnerBlocks
  <2>2. \A x \in InnerBlocks(B) : After(m.blocks, x) = After(B, x)
    BY <1>3 DEF InnerBlocks, After
  <2> QED BY <2>1, <2>2 DEF FreeBeside
<1>5. p \in FreeIn(m.blocks) BY <1>1, <1>3, <1>4 DEF FreeIn
<1>6. /\ Used(m.blocks) = Used(B) \ {p}
      /\ \A x \in Used(B) \ {p} : m.blocks[x].size = B[x].size
  BY <1>3, <1>4 DEF Used, InnerBlocks
<1>7. \/ Marred(r.heap)
      \/ /\ Whole(r.heap, {r.block}, {r.block}) /\ r.block \in FreeIn(r.heap.blocks)
         /\ SameUse(m, r.heap)
  <2>1. PICK L : L = {p} OBVIOUS
  <2>2. {} \cup {p} = L BY <2>1
  <2>3. Whole(m, FreeBeside(m.blocks, p), L) BY <1>3, <1>4, <2>2
  <2> HIDE DEF r
  <2>4. r = MergeBlockWithPrevious(m, p) BY DEF r
  <2> QED BY <1>5, <2>1, <2>3, <2>4, MergedPrevious
<1> HIDE DEF r
<1>8. CASE Marred(r.heap)
  <2>1. IsHeap(g) /\ g.harmed BY <1>8, NextMergeIsFrom DEF Marred
  <2> HIDE DEF g
  <2>2. From(g, InsertBlock(g, r.block)) BY <2>1, EveryStepIsFrom
  <2> QED BY <1>2, <1>8, <2>1, <2>2 DEF From, Marred
<1>9. CASE /\ Whole(r.heap, {r.block}, {r.block}) /\ r.block \in FreeIn(r.heap.blocks)
           /\ SameUse(m, r.heap)
  <2>1. PICK q, b : q = r.heap /\ b = r.block OBVIOUS
  <2>2. PICK L : L = {b} OBVIOUS
  <2>3. Whole(q, L, L) /\ b \in FreeIn(q.blocks) /\ SameUse(m, q) BY <1>9, <2>1, <2>2
  <2>4. g = MergeBlockWithNext(q, b) BY <2>1
  <2>5. k = InsertBlock(g, b) BY <1>2, <2>1, <2>3 DEF Whole
  <2> HIDE DEF g
  <2>6. \/ Marred(g)
        \/ Whole(g, {}, {b}) /\ b \in FreeIn(g.blocks) /\ SameUse(q, g)
    BY <2>2, <2>3, <2>4, MergedNext
  <2>7. CASE Marred(g)
    <3>1. From(g, k) BY <2>5, <2>7, EveryStepIsFrom DEF Marred
    <3> QED BY <2>7, <3>1 DEF From, Marred
  <2>8. CASE Whole(g, {}, {b}) /\ b \in FreeIn(g.blocks) /\ SameUse(q, g)
    <3>1. Whole(g, {}, L) /\ b \in L BY <2>2, <2>8
    <3>2. Whole(k, {}, L \ {b}) /\ SameUse(g, k) BY <2>5, <2>8, <3>1, Inserted
    <3>3. L \ {b} = {} BY <2>2
    <3>4. /\ Used(k.blocks) = Used(m.blocks)
          /\ \A x \in Used(m.blocks) : k.blocks[x].size = m.blocks[x].size
      BY <2>3, <2>8, <3>2 DEF SameUse
    <3>5. Returns(h, k, p) BY <1>6, <3>2, <3>3, <3>4 DEF Returns
    <3> QED BY <3>5
  <2> QED BY <2>6, <2>7, <2>8
<1> QED BY <1>7, <1>8, <1>9

-----------------------------------------------------------------------------
(* Growing and shrinking in place.                                          *)

(* Block p is used in k as in h, and at least n bytes.                      *)
Keeps(h, k, p, n) ==
  /\ Whole(k, {}, {}) /\ Used(k.blocks) = Used(h.blocks)
  /\ \A x \in Used(h.blocks) \ {p} : k.blocks[x].size = h.blocks[x].size
  /\ n <= k.blocks[p].size

(* Trimming a used block harms the heap, or changes nothing.                *)
LEMMA TrimHarms ==
  ASSUME NEW h, IsHeap(h), NEW p, NEW n, NEW g, g = TrimUsedBlock(h, p, n)
  PROVE  Marred(g) \/ g = Assert(h, ~ h.blocks[p].free)
<1> DEFINE rest == SplitPoint(p, n)
           c == Assert(h, ~ h.blocks[p].free)
           s == SplitBlock(c, p, n)
           m == MergeBlockWithNext(s, rest)
           i == InsertBlock(m, rest)
<1>1. IsHeap(c) BY EveryStepIsFrom DEF From
<1>2. g = IF ~ CanSplitBlock(h, p, n) THEN c ELSE [i EXCEPT !.harmed = TRUE]
  BY DEF TrimUsedBlock
<1> HIDE DEF c
<1>3. IsHeap(s)
  <2> DEFINE header == [size |-> c.blocks[p].size - n - Overhead, free |-> TRUE, prevFree |-> TRUE,
                        previous |-> NULL, next |-> NULL]
             C == [x \in DOMAIN c.blocks \cup {rest} |->
                     CASE x = rest -> header
                       [] x = p    -> [c.blocks[p] EXCEPT !.size = n]
                       [] OTHER    -> c.blocks[x]]
             e == [c EXCEPT !.blocks = C]
  <2>1. s = Assert(MarkBlockFree(e, rest), header.size >= BlockSizeMin) BY DEF SplitBlock
  <2> HIDE DEF C, header, rest
  <2>2. From(c, e) BY <1>1, EveryStepIsFrom
  <2> HIDE DEF e
  <2>3. From(e, MarkBlockFree(e, rest)) BY <2>2, MarkingsAreFrom DEF From
  <2>4. PICK f : f = MarkBlockFree(e, rest) OBVIOUS
  <2>5. From(f, Assert(f, header.size >= BlockSizeMin)) BY <2>3, <2>4, EveryStepIsFrom DEF From
  <2> HIDE DEF s
  <2> QED BY <2>1, <2>4, <2>5 DEF From
<1> HIDE DEF s
<1>4. IsHeap(m) BY <1>3, NextMergeIsFrom
<1> HIDE DEF m
<1>5. IsHeap(i) BY <1>4, EveryStepIsFrom DEF From
<1> HIDE DEF i
<1>6. Marred([i EXCEPT !.harmed = TRUE]) BY <1>5, EveryStepIsFrom
<1> QED BY <1>2, <1>6 DEF c

LEMMA NotTrimmed ==
  ASSUME NEW h, Whole(h, {}, {}), NEW p \in Used(h.blocks), NEW n,
         NEW g, g = TrimUsedBlock(h, p, n)
  PROVE  Marred(g) \/ g = h
<1>1. HeapOK(h) /\ ~ h.blocks[p].free /\ IsHeap(h)
  BY HeapFields DEF Whole, Used, IsHeap
<1>2. Assert(h, ~ h.blocks[p].free) = h
  <2>1. (~ h.blocks[p].free) = TRUE BY <1>1
  <2> QED BY <1>1, <2>1, AssertEffect
<1> QED BY <1>1, <1>2, TrimHarms

LEMMA MarredTrimmed ==
  ASSUME NEW h, Marred(h), NEW p, NEW n PROVE Marred(TrimUsedBlock(h, p, n))
<1>1. PICK g : g = TrimUsedBlock(h, p, n) OBVIOUS
<1>2. Marred(g) \/ g = Assert(h, ~ h.blocks[p].free) BY <1>1, TrimHarms DEF Marred
<1>3. Marred(Assert(h, ~ h.blocks[p].free)) BY EveryStepIsFrom DEF From, Marred
<1> QED BY <1>1, <1>2, <1>3

LEMMA Grown ==
  ASSUME NEW h, Whole(h, {}, {}), NEW p \in Used(h.blocks), NEW n, After(h.blocks, p) = n,
         h.blocks[n].free, NEW g, g = MergeBlockWithNext(h, p)
  PROVE  \/ Marred(g)
         \/ /\ Takeable(g, {}, {}, p)
            /\ InnerBlocks(g.blocks) = InnerBlocks(h.blocks) \ {n}
            /\ g.blocks[p].size = h.blocks[p].size + h.blocks[n].size + 4
            /\ \A x \in InnerBlocks(g.blocks) : g.blocks[x].free = h.blocks[x].free
            /\ \A x \in InnerBlocks(g.blocks) \ {p} : g.blocks[x].size = h.blocks[x].size
<1> DEFINE B == h.blocks
           f == RemoveBlock(h, n)
<1>1. HeapOK(h) /\ Tiled(B) /\ p \in InnerBlocks(B) /\ ~ B[p].free
  BY DEF Whole, Used
<1>2. NextBlock(h, p) = n /\ n \in DOMAIN B BY <1>1, TiledFacts
<1>3. n # Sentinel BY <1>1 DEF Tiled
<1>4. n \in FreeIn(B) \ {} BY <1>2, <1>3 DEF FreeIn, InnerBlocks
<1>5. g = AbsorbBlock(f, p, n) BY <1>2 DEF MergeBlockWithNext
<1>6. (f.harmed \/ Whole(f, {}, {} \cup {n})) /\ f.blocks = B BY <1>4, BlockRemoved
<1>7. CASE f.harmed
  <2>1. IsHeap(h) BY <1>1, HeapFields DEF IsHeap
  <2>2. IsHeap(f) BY <2>1, RemovalIsFrom
  <2> HIDE DEF f
  <2>3. From(f, g) BY <1>5, <2>2, AbsorbIsFrom
  <2> QED BY <1>7, <2>3 DEF From, Marred
<1> HIDE DEF f
<1>8. CASE Whole(f, {}, {} \cup {n})
  <2>1. PICK M, X : M = {} \cup {n} /\ X = {} OBVIOUS
  <2>2. /\ Whole(f, X, M) /\ p \in InnerBlocks(f.blocks) /\ n \in FreeIn(f.blocks) /\ n \in M
        /\ After(f.blocks, p) = n /\ ~ f.blocks[p].free
    BY <1>1, <1>4, <1>6, <1>8, <2>1
  <2>3. Absorption(f, X, M, p, n, g) BY <1>5, <2>2, Absorbed
  <2>4. M \ {n} = {} /\ MergedX(X, p, n) = {} BY <2>1 DEF MergedX
  <2>5. p \in DOMAIN g.blocks BY <2>3 DEF Absorption, InnerBlocks
  <2>6. Takeable(g, {}, {}, p) BY <2>2, <2>3, <2>4, <2>5 DEF Absorption, Takeable
  <2>7. \A x \in InnerBlocks(g.blocks) : g.blocks[x].free = h.blocks[x].free
    BY <1>6, <2>3 DEF Absorption, InnerBlocks
  <2> QED BY <1>6, <2>3, <2>6, <2>7 DEF Absorption
<1> QED BY <1>6, <1>7, <1>8

(* From h to k block p was given up for block b, of at least n bytes.       *)
Holds(h, k, p, b, n) ==
  /\ Whole(k, {}, {}) /\ Used(k.blocks) = (Used(h.blocks) \ {p}) \cup {b}
  /\ \A x \in Used(h.blocks) \ {p, b} : k.blocks[x].size = h.blocks[x].size
  /\ n <= k.blocks[b].size

(* n bytes at b are in the pool, and apart from the blocks of S.            *)
Place(h, b, n, S) ==
  /\ b \in Nat /\ b % 4 = 0 /\ FirstBlock <= b /\ b + n <= PoolEnd
  /\ \A x \in S : x \in Nat /\ h.blocks[x].size \in Nat
                  /\ (x + h.blocks[x].size <= b \/ b + n <= x)

LEMMA UsedApart ==
  ASSUME NEW h, HeapOK(h), Tiled(h.blocks), NEW b \in Used(h.blocks), NEW n \in Nat,
         n <= h.blocks[b].size
  PROVE  Place(h, b, n, Used(h.blocks) \ {b})
<1> DEFINE B == h.blocks
<1>1. ASSUME NEW x \in Used(B)
      PROVE  /\ x \in DOMAIN B /\ x \in Nat /\ B[x].size \in Nat /\ After(B, x) = x + B[x].size + 4
             /\ FirstBlock <= x /\ x % 4 = 0 /\ After(B, x) \in DOMAIN B
  <2>1. x \in InnerBlocks(B) /\ x \in DOMAIN B BY DEF Used, InnerBlocks
  <2>2. x \in Nat /\ B[x].size \in Nat BY <2>1, HeapFields DEF Header
  <2> QED BY <2>1, <2>2 DEF After, Tiled
<1>2. b + n <= PoolEnd
  <2>1. After(B, b) <= Sentinel BY <1>1 DEF Tiled
  <2> QED BY <1>1, <2>1, PoolSizes DEF Sentinel, PoolEnd, Overhead
<1>3. ASSUME NEW x \in Used(B) \ {b} PROVE x + B[x].size <= b \/ b + n <= x
  <2>1. x < b => After(B, x) <= b BY <1>1 DEF Tiled
  <2>2. b < x => After(B, b) <= x BY <1>1 DEF Tiled
  <2> QED BY <1>1, <2>1, <2>2
<1> QED BY <1>1, <1>2, <1>3 DEF Place

LEMMA TakenApart ==
  ASSUME NEW h, NEW k, NEW b, NEW n \in Nat, Takes(h, k, b, n)
  PROVE  Place(h, b, n, Used(h.blocks))
<1>1. HeapOK(k) /\ Tiled(k.blocks) /\ b \in Used(k.blocks) /\ n <= k.blocks[b].size
  BY DEF Takes, Whole
<1>2. Place(k, b, n, Used(k.blocks) \ {b}) BY <1>1, UsedApart
<1>3. Used(k.blocks) \ {b} = Used(h.blocks) BY DEF Takes
<1> QED BY <1>2, <1>3 DEF Place, Takes

(* What a request for another size gets: nothing, or a block, p again or    *)
(* one that was not in use.                                                 *)
Exchanged(h, r, p, n) ==
  \/ r = [heap |-> h, block |-> NULL]
  \/ /\ r.block # NULL /\ (r.block = p \/ r.block \notin Used(h.blocks))
     /\ Place(h, r.block, n, Used(h.blocks) \ {r.block})
     /\ Marred(r.heap) \/ Holds(h, r.heap, p, r.block, n)

LEMMA Moved ==
  ASSUME NEW h, Whole(h, {}, {}), NEW p \in Used(h.blocks), NEW n \in Nat, NEW m,
         Served(h, m, n), NEW r,
         r = IF m.block = NULL THEN m ELSE [heap |-> TlsfFree(m.heap, p), block |-> m.block]
  PROVE  Exchanged(h, r, p, n)
<1>1. CASE m = [heap |-> h, block |-> NULL] BY <1>1 DEF Exchanged
<1>2. CASE m.block # NULL /\ Takes(h, m.heap, m.block, n)
  <2>1. PICK k, b : k = m.heap /\ b = m.block OBVIOUS
  <2>2. Takes(h, k, b, n) /\ b # NULL /\ r.block = b /\ r.heap = TlsfFree(k, p)
    BY <1>2, <2>1
  <2>3. PICK f : f = TlsfFree(k, p) OBVIOUS
  <2>4. Whole(k, {}, {}) /\ p \in Used(k.blocks) /\ b \notin Used(h.blocks) /\ p # b
    BY <2>2 DEF Takes
  <2>5. Marred(f) \/ Returns(k, f, p) BY <2>3, <2>4, Freed
  <2>6. Place(h, b, n, Used(h.blocks)) BY <2>2, TakenApart
  <2>7. Used(h.blocks) \ {b} = Used(h.blocks) BY <2>4
  <2>8. Returns(k, f, p) => Holds(h, f, p, b, n)
    BY <2>2, <2>4 DEF Returns, Takes, Holds
  <2> QED BY <2>2, <2>3, <2>4, <2>5, <2>6, <2>7, <2>8 DEF Exchanged
<1> QED BY <1>1, <1>2 DEF Served

(* A used block that is trimmed and handed over stays.                      *)
LEMMA Kept ==
  ASSUME NEW h, NEW p, NEW n \in Nat, NEW g,
         Marred(g) \/ (p \in Used(h.blocks) /\ Holds(h, g, p, p, n)),
         NEW k, k = HandOver(TrimUsedBlock(g, p, n), p)
  PROVE  Marred(k) \/ Holds(h, k, p, p, n)
<1> DEFINE t == TrimUsedBlock(g, p, n)
<1>0. k = HandOver(t, p) OBVIOUS
<1>1. CASE Marred(g)
  <2>1. Marred(t) BY <1>1, MarredTrimmed
  <2> HIDE DEF t
  <2>2. From(t, HandOver(t, p)) BY <2>1, MarkingsAreFrom DEF Marred
  <2> QED BY <1>0, <2>1, <2>2 DEF From, Marred
<1>2. CASE p \in Used(h.blocks) /\ Holds(h, g, p, p, n)
  <2>1. Whole(g, {}, {}) /\ p \in Used(g.blocks) BY <1>2 DEF Holds
  <2>2. Marred(t) \/ t = g BY <2>1, NotTrimmed
  <2> HIDE DEF t
  <2>3. CASE Marred(t)
    <3>1. From(t, HandOver(t, p)) BY <2>3, MarkingsAreFrom DEF Marred
    <3> QED BY <1>0, <2>3, <3>1 DEF From, Marred
  <2>4. CASE t = g
    <3>1. k = HandOver(g, p) BY <1>0, <2>4
    <3>2. p \in InnerBlocks(g.blocks) /\ ~ g.blocks[p].free BY <2>1 DEF Used
    <3>3. /\ Whole(k, {}, {}) /\ DOMAIN k.blocks = DOMAIN g.blocks
          /\ \A x \in DOMAIN g.blocks :
               k.blocks[x].size = g.blocks[x].size /\ k.blocks[x].free = g.blocks[x].free
      BY <2>1, <3>1, <3>2, HandedOver
    <3>4. Used(k.blocks) = Used(g.blocks) BY <3>3 DEF Used, InnerBlocks
    <3>5. \A x \in Used(g.blocks) : x \in DOMAIN g.blocks BY DEF Used, InnerBlocks
    <3>6. Used(g.blocks) = Used(h.blocks) BY <1>2 DEF Holds
    <3> QED BY <1>2, <2>1, <3>3, <3>4, <3>5, <3>6 DEF Holds
  <2> QED BY <2>2, <2>3, <2>4
<1> QED BY <1>1, <1>2

LEMMA GrownKept ==
  ASSUME NEW h, Whole(h, {}, {}), NEW p \in Used(h.blocks), NEW q, After(h.blocks, p) = q,
         h.blocks[q].free, NEW n \in Nat, n <= h.blocks[p].size + h.blocks[q].size + 4,
         NEW g, g = MarkBlockUsed(MergeBlockWithNext(h, p), p)
  PROVE  Marred(g) \/ Holds(h, g, p, p, n)
<1>1. PICK m : m = MergeBlockWithNext(h, p) OBVIOUS
<1>2. \/ Marred(m)
      \/ /\ Takeable(m, {}, {}, p)
         /\ InnerBlocks(m.blocks) = InnerBlocks(h.blocks) \ {q}
         /\ m.blocks[p].size = h.blocks[p].size + h.blocks[q].size + 4
         /\ \A x \in InnerBlocks(m.blocks) : m.blocks[x].free = h.blocks[x].free
         /\ \A x \in InnerBlocks(m.blocks) \ {p} : m.blocks[x].size = h.blocks[x].size
  BY <1>1, Grown
<1>3. CASE Marred(m)
  <2>1. From(m, MarkBlockUsed(m, p)) BY <1>3, MarkingsAreFrom DEF Marred
  <2> QED BY <1>1, <1>3, <2>1 DEF From, Marred
<1>4. CASE Takeable(m, {}, {}, p) /\ ~ Marred(m)
  <2>1. PICK X : X = {} OBVIOUS
  <2>2. Takeable(m, X, X, p) /\ g = MarkBlockUsed(m, p) BY <1>1, <1>4, <2>1
  <2>3. /\ Whole(g, {}, {}) /\ DOMAIN g.blocks = DOMAIN m.blocks
        /\ \A x \in DOMAIN m.blocks :
             /\ g.blocks[x].size = m.blocks[x].size
             /\ g.blocks[x].free = (x # p /\ m.blocks[x].free)
    <3>1. X \ {p} = {} BY <2>1
    <3>2. /\ Whole(g, {}, X \ {p}) /\ DOMAIN g.blocks = DOMAIN m.blocks
          /\ \A x \in DOMAIN m.blocks :
               /\ g.blocks[x].size = m.blocks[x].size
               /\ g.blocks[x].free = (x # p /\ m.blocks[x].free)
      BY <2>2, TakeableMarked
    <3> QED BY <3>1, <3>2
  <2>4. p \in InnerBlocks(h.blocks) /\ ~ h.blocks[p].free BY DEF Used
  <2>5. \A x \in InnerBlocks(m.blocks) : x \in DOMAIN m.blocks BY DEF InnerBlocks
  <2>6. InnerBlocks(g.blocks) = InnerBlocks(m.blocks) BY <2>3 DEF InnerBlocks
  <2>7. Used(g.blocks) = Used(h.blocks)
    <3>1. q \notin Used(h.blocks) BY DEF Used
    <3>2. ASSUME NEW x \in InnerBlocks(m.blocks) PROVE g.blocks[x].free <=> h.blocks[x].free
      BY <1>2, <1>4, <2>3, <2>4, <2>5
    <3> QED BY <1>2, <1>4, <2>6, <3>1, <3>2 DEF Used
  <2>8. p \in InnerBlocks(m.blocks) BY <1>4 DEF Takeable
  <2>9. \A x \in Used(h.blocks) : x \in InnerBlocks(m.blocks) BY <2>6, <2>7 DEF Used
  <2>10. n <= g.blocks[p].size BY <1>2, <1>4, <2>3, <2>5, <2>8
  <2>11. (Used(h.blocks) \ {p}) \cup {p} = Used(h.blocks) OBVIOUS
  <2> QED BY <1>2, <1>4, <2>3, <2>5, <2>7, <2>9, <2>10, <2>11 DEF Holds
<1> QED BY <1>2, <1>3, <1>4

LEMMA Reallocated ==
  ASSUME NEW h, Whole(h, {}, {}), NEW p \in Used(h.blocks), NEW size \in Sizes,
         NEW r, r = TlsfReallocate(h, p, size)
  PROVE  Exchanged(h, r, p, AdjustRequestSize(size))
<1> DEFINE B == h.blocks
           n == AdjustRequestSize(size)
           q == After(B, p)
           current == B[p].size
           combined == current + B[q].size + 4
           m == TlsfAllocate(h, size)
           g == IF n > current THEN MarkBlockUsed(MergeBlockWithNext(h, p), p) ELSE h
<1>1. n \in Nat BY RequestsAdjusted
<1>2. HeapOK(h) /\ Tiled(B) /\ p \in InnerBlocks(B) /\ ~ B[p].free BY DEF Whole, Used
<1>3. /\ NextBlock(h, p) = q /\ q \in DOMAIN B /\ p \in DOMAIN B /\ p \in Nat /\ p # 0
      /\ current \in Nat /\ B[q].size \in Nat /\ q = p + current + 4
  <2>1. NextBlock(h, p) = q /\ q \in DOMAIN B /\ p \in DOMAIN B /\ p \in Nat /\ p # 0
    BY <1>2, TiledFacts
  <2> QED BY <1>2, <2>1, HeapFields DEF Header, After
<1>4. Served(h, m, n) BY Allocated
<1>5. r = IF n > current /\ (~ B[q].free \/ n > combined)
            THEN IF m.block = NULL THEN m
                 ELSE [heap |-> TlsfFree(m.heap, p), block |-> m.block]
          ELSE [heap |-> HandOver(TrimUsedBlock(g, p, n), p), block |-> p]
  BY <1>3 DEF TlsfReallocate, Overhead
<1> HIDE DEF n, m
<1>6. CASE n > current /\ (~ B[q].free \/ n > combined)
  <2>1. r = IF m.block = NULL THEN m ELSE [heap |-> TlsfFree(m.heap, p), block |-> m.block]
    BY <1>5, <1>6
  <2>2. Exchanged(h, r, p, n) BY <1>1, <1>4, <2>1, Moved
  <2> QED BY <2>2 DEF n
<1>7. CASE ~ (n > current /\ (~ B[q].free \/ n > combined))
  <2>1. r.block = p /\ r.heap = HandOver(TrimUsedBlock(g, p, n), p) BY <1>5, <1>7
  <2>2. n <= current \/ (n > current /\ B[q].free /\ n <= combined) BY <1>1, <1>3, <1>7
  <2>3. Place(h, p, n, Used(B) \ {p})
    <3>1. CASE n <= current BY <1>1, <1>2, <3>1, UsedApart
    <3>2. CASE n > current /\ B[q].free /\ n <= combined
      <4>1. q # Sentinel BY <1>2, <3>2 DEF Tiled
      <4>2. q \in InnerBlocks(B) BY <1>3, <4>1 DEF InnerBlocks
      <4>3. /\ After(B, q) \in DOMAIN B /\ q \in Nat /\ After(B, q) = q + B[q].size + 4
            /\ After(B, q) \in Nat
        BY <1>2, <1>3, <4>2, TiledFacts DEF After
      <4>4. p + n + 4 <= After(B, q) BY <1>1, <1>3, <3>2, <4>3
      <4>5. After(B, q) <= Sentinel BY <1>2, <4>3 DEF Tiled
      <4>6. p + n <= PoolEnd
        BY <1>1, <1>3, <4>3, <4>4, <4>5, PoolSizes DEF Sentinel, PoolEnd, Overhead
      <4>7. FirstBlock <= p /\ p % 4 = 0 BY <1>2, <1>3 DEF Tiled
      <4>8. ASSUME NEW x \in Used(B) \ {p}
            PROVE  x \in Nat /\ B[x].size \in Nat /\ (x + B[x].size <= p \/ p + n <= x)
        <5>1. x \in DOMAIN B /\ x # q BY <3>2 DEF Used, InnerBlocks
        <5>2. x \in Nat /\ B[x].size \in Nat BY <1>2, <5>1, HeapFields DEF Header
        <5>3. After(B, x) = x + B[x].size + 4 BY DEF After
        <5>4. x < p => After(B, x) <= p BY <1>2, <1>3, <5>1 DEF Tiled
        <5>5. p < x => q <= x BY <1>2, <1>3, <5>1 DEF Tiled
        <5>6. q < x => After(B, q) <= x BY <1>2, <1>3, <5>1 DEF Tiled
        <5> HIDE DEF q
        <5> QED BY <1>1, <1>3, <4>3, <4>4, <5>1, <5>2, <5>3, <5>4, <5>5, <5>6
      <4> QED BY <1>3, <4>6, <4>7, <4>8 DEF Place
    <3> QED BY <2>2, <3>1, <3>2
  <2>4. Marred(g) \/ (p \in Used(h.blocks) /\ Holds(h, g, p, p, n))
    <3>1. CASE n <= current
      <4>1. g = h BY <1>1, <1>3, <3>1
      <4>2. (Used(B) \ {p}) \cup {p} = Used(B) OBVIOUS
      <4> QED BY <3>1, <4>1, <4>2 DEF Holds
    <3>2. CASE n > current /\ B[q].free /\ n <= combined
      <4>1. g = MarkBlockUsed(MergeBlockWithNext(h, p), p) BY <3>2
      <4> HIDE DEF g
      <4>2. PICK x : x = q OBVIOUS
      <4>3. After(h.blocks, p) = x /\ h.blocks[x].free
            /\ n <= h.blocks[p].size + h.blocks[x].size + 4
        BY <3>2, <4>2
      <4>4. Marred(g) \/ Holds(h, g, p, p, n) BY <1>1, <4>1, <4>3, GrownKept
      <4> QED BY <4>4
    <3> QED BY <2>2, <3>1, <3>2
  <2> HIDE DEF g
  <2>5. Marred(r.heap) \/ Holds(h, r.heap, p, p, n) BY <1>1, <2>1, <2>4, Kept
  <2>6. r.block # NULL BY <1>3, <2>1 DEF NULL
  <2> QED BY <2>1, <2>3, <2>5, <2>6 DEF Exchanged, n
<1> QED BY <1>6, <1>7

-----------------------------------------------------------------------------
(* What a whole heap is.                                                    *)

LEMMA PoolIsWhole == Whole(Pool, {}, {}) /\ Used(Pool.blocks) = {}
<1> DEFINE first == [size |-> PoolBytes, free |-> TRUE, prevFree |-> FALSE, previous |-> 0, next |-> 0]
           last == [size |-> 0, free |-> FALSE, prevFree |-> TRUE, previous |-> FirstBlock, next |-> 0]
           B == [b \in {FirstBlock, Sentinel} |-> IF b = FirstBlock THEN first ELSE last]
           class == InsertMapping(PoolBytes)
           head == [c \in Classes |-> IF c = class THEN FirstBlock ELSE 0]
<1>1. Pool = [blocks |-> B, head |-> head, fl |-> {class[1]}, sl |-> {class},
              failed |-> FALSE, harmed |-> FALSE]
  BY DEF Pool, NULL
<1>2. Sentinel \in Nat /\ FirstBlock \in Nat \ {0} /\ Sentinel = FirstBlock + PoolBytes + 4
      /\ FirstBlock # Sentinel /\ FirstBlock % 4 = 0 /\ Sentinel % 4 = 0
  BY PoolSizes DEF Sentinel, Overhead
<1>3. class \in Classes /\ class[1] \in Nat
  <2>1. class \in Classes BY PoolSizes, SizesHaveClasses
  <2>2. PICK l, i : InClass(PoolBytes, l, i) BY PoolSizes, EverySizeHasAClass
  <2> QED BY <2>1, <2>2 DEF InClass
<1>4. B \in [{FirstBlock, Sentinel} -> Header] BY <1>2, PoolSizes DEF Header
<1>5. head \in [Classes -> Nat] BY <1>2
<1>6. /\ B[FirstBlock] = first /\ B[Sentinel] = last /\ DOMAIN B = {FirstBlock, Sentinel}
      /\ InnerBlocks(B) = {FirstBlock} /\ After(B, FirstBlock) = Sentinel
      /\ After(B, Sentinel) = Sentinel + 4
  BY <1>2, PoolSizes DEF InnerBlocks, After
<1>7. head[class] = FirstBlock /\ \A c \in Classes : c # class => head[c] = 0 BY <1>3
<1> HIDE DEF B, head, class
<1>8. HeapOK(Pool)
  <2>1. {FirstBlock, Sentinel} \in SUBSET Nat BY <1>2
  <2>2. {class[1]} \in SUBSET Nat /\ {class} \in SUBSET Classes BY <1>3
  <2>3. FALSE \in BOOLEAN OBVIOUS
  <2> QED BY <1>1, <1>4, <1>5, <2>1, <2>2, <2>3, HeapBuilt
<1>9. Tiled(B)
  <2>1. \A b \in DOMAIN B, c \in DOMAIN B : b < c => After(B, b) <= c BY <1>2, <1>6, PoolSizes
  <2>2. \A c \in DOMAIN B \ {FirstBlock} : \E b \in InnerBlocks(B) : After(B, b) = c BY <1>6
  <2>3. \A b \in DOMAIN B : FirstBlock <= b /\ b <= Sentinel /\ b % 4 = 0
    BY <1>2, <1>6, PoolSizes
  <2> QED BY <1>2, <1>6, <2>1, <2>2, <2>3, PoolSizes DEF Tiled
<1>10. Flagged(B)
  <2>1. B[Sentinel].prevFree /\ B[FirstBlock].free /\ B[Sentinel].previous = FirstBlock
        /\ B[Sentinel].prevFree = B[FirstBlock].free
    BY <1>6
  <2> HIDE DEF first, last
  <2> QED BY <1>6, <2>1 DEF Flagged
<1>11. Coalesced(B, {})
  <2>1. ~ B[Sentinel].free BY <1>6
  <2>2. \A b \in InnerBlocks(B) : ~ B[After(B, b)].free BY <1>6, <2>1
  <2> QED BY <2>2 DEF Coalesced
<1>12. FreeIn(B) = {FirstBlock} /\ ClassIn(B, FirstBlock) = class
  BY <1>6 DEF FreeIn, ClassIn, class
<1>13. Listed(Pool, {})
  <2> DEFINE height == [b \in {FirstBlock} |-> 1]
  <2>1. \A b \in {FirstBlock} : height[b] = 1 OBVIOUS
  <2>2. height \in [{FirstBlock} -> Nat \ {0}] OBVIOUS
  <2> HIDE DEF height
  <2>3. B[FirstBlock].next = NULL BY <1>6 DEF NULL
  <2>4. Heights(Pool, {FirstBlock}, height)
    <3>1. Pool.blocks = B /\ Pool.head = head BY <1>1
    <3>2. \A c \in Classes :
            head[c] = 0 \/ (head[c] \in {FirstBlock} /\ ClassIn(B, head[c]) = c)
      BY <1>7, <1>12
    <3>3. \A b \in {FirstBlock} : head[ClassIn(B, b)] # NULL
                                  /\ height[b] <= height[head[ClassIn(B, b)]]
      BY <1>2, <1>7, <1>12, <2>1 DEF NULL
    <3> QED BY <2>1, <2>2, <2>3, <3>1, <3>2, <3>3 DEF Heights, NULL
  <2>5. FreeIn(Pool.blocks) \ {} = {FirstBlock} BY <1>1, <1>12
  <2>6. Pool.sl = {c \in Classes : Pool.head[c] # NULL}
    BY <1>1, <1>2, <1>3, <1>7 DEF NULL
  <2>7. Pool.fl = {c[1] : c \in Pool.sl} BY <1>1
  <2> QED BY <2>4, <2>5, <2>6, <2>7 DEF Listed
<1>14. Used(B) = {} BY <1>6 DEF Used
<1> QED BY <1>1, <1>8, <1>9, <1>10, <1>11, <1>13, <1>14 DEF Whole

LEMMA WholeIsSound ==
  ASSUME Whole(heap, {}, {})
  PROVE  PhysicallySound
<1> DEFINE B == heap.blocks
<1>1. /\ HeapOK(heap) /\ Tiled(B) /\ Flagged(B) /\ Coalesced(B, {}) /\ ~ heap.failed
      /\ Blocks = InnerBlocks(B)
  BY DEF Whole, Blocks, InnerBlocks
<1>2. \A b \in InnerBlocks(B) : /\ NextBlock(heap, b) = After(B, b)
                                /\ After(B, b) \in DOMAIN B /\ After(B, b) # FirstBlock
  BY <1>1, TiledFacts
<1>3. {NextBlock(heap, b) : b \in Blocks} = DOMAIN B \ {FirstBlock}
  <2>1. \A c \in DOMAIN B \ {FirstBlock} : \E b \in InnerBlocks(B) : After(B, b) = c
    BY <1>1 DEF Tiled
  <2> QED BY <1>1, <1>2, <2>1
<1>4. ASSUME NEW b \in Blocks
      PROVE  LET this == B[b]
                 next == B[NextBlock(heap, b)]
             IN  /\ this.size >= BlockSizeMin /\ this.size % Align = 0
                 /\ next.prevFree = this.free
                 /\ this.free => next.previous = b /\ ~ next.free
  <2>1. b \in InnerBlocks(B) /\ b \in DOMAIN B /\ B[b].size \in Nat
    BY <1>1, HeapFields DEF InnerBlocks, Header
  <2>2. 12 <= B[b].size /\ B[b].size % 4 = 0 BY <1>1, <2>1 DEF Tiled
  <2>3. /\ B[After(B, b)].prevFree = B[b].free
        /\ B[b].free => B[After(B, b)].previous = b
    BY <1>1, <2>1 DEF Flagged
  <2>4. ~ (B[b].free /\ B[After(B, b)].free) BY <1>1, <2>1 DEF Coalesced
  <2> QED BY <1>2, <2>1, <2>2, <2>3, <2>4 DEF BlockSizeMin, HeaderSize, Align
<1>5. FirstBlock \in DOMAIN B /\ Sentinel \in DOMAIN B BY <1>1 DEF Tiled
<1> QED BY <1>1, <1>3, <1>4, <1>5 DEF PhysicallySound

(* With no block in use all is one block again.                             *)
LEMMA NothingUsed ==
  ASSUME NEW h, Whole(h, {}, {}), Used(h.blocks) = {}
  PROVE  InnerBlocks(h.blocks) = {FirstBlock}
<1> DEFINE B == h.blocks
<1>1. HeapOK(h) /\ Tiled(B) /\ Coalesced(B, {}) /\ \A b \in InnerBlocks(B) : B[b].free
  BY DEF Whole, Used
<1>2. /\ FirstBlock \in InnerBlocks(B) /\ FirstBlock \in DOMAIN B
      /\ After(B, FirstBlock) \in DOMAIN B
  BY <1>1, TiledFacts DEF InnerBlocks
<1>3. After(B, FirstBlock) = Sentinel
  <2>1. ~ B[After(B, FirstBlock)].free BY <1>1, <1>2 DEF Coalesced
  <2> QED BY <1>1, <1>2, <2>1 DEF InnerBlocks
<1>4. ASSUME NEW b \in InnerBlocks(B) PROVE b = FirstBlock
  <2>1. b \in DOMAIN B /\ b \in Nat /\ b < Sentinel /\ FirstBlock <= b /\ Sentinel \in Nat
        /\ FirstBlock \in Nat
    BY <1>1, TiledFacts, PoolSizes DEF Tiled
  <2>2. FirstBlock < b => After(B, FirstBlock) <= b BY <1>1, <1>2, <2>1 DEF Tiled
  <2> QED BY <1>3, <2>1, <2>2
<1> QED BY <1>2, <1>4

-----------------------------------------------------------------------------
(* Walking a free list.                                                     *)

Step(h, b) == IF b \in InnerBlocks(h.blocks) THEN h.blocks[b].next ELSE NULL

Walks(h, c, f, n) ==
  f = [k \in 0 .. n |-> IF k = 0 THEN h.head[c] ELSE Step(h, f[k - 1])]

LEMMA WalkIsDefined == ASSUME NEW h, NEW c PROVE \A n \in Nat : \E f : Walks(h, c, f, n)
<1> DEFINE T == {n \in Nat : ~ \E f : Walks(h, c, f, n)}
<1>1. CASE T = {} BY <1>1
<1>2. CASE T # {}
  <2>1. T \in SUBSET Nat OBVIOUS
  <2>2. PICK n \in T : \A m \in T : n <= m BY <1>2, <2>1, LeastNatural
  <2>3. n # 0
    <3>1. Walks(h, c, [k \in 0 .. 0 |-> h.head[c]], 0) BY DEF Walks
    <3> QED BY <3>1, <2>2
  <2>4. n \in Nat /\ n - 1 \in Nat /\ n - 1 \notin T BY <2>2, <2>3
  <2>5. PICK f : Walks(h, c, f, n - 1) BY <2>4
  <2> DEFINE g == [k \in 0 .. n |-> IF k \in 0 .. n - 1 THEN f[k] ELSE Step(h, f[n - 1])]
  <2>6. \A k \in 0 .. n - 1 : f[k] = IF k = 0 THEN h.head[c] ELSE Step(h, f[k - 1])
    BY <2>5 DEF Walks
  <2>7. ASSUME NEW k \in 0 .. n PROVE g[k] = IF k = 0 THEN h.head[c] ELSE Step(h, g[k - 1])
    <3>1. CASE k \in 0 .. n - 1
      <4>1. k # 0 => k - 1 \in 0 .. n - 1 /\ k - 1 \in 0 .. n BY <3>1, <2>4
      <4> QED BY <3>1, <4>1, <2>6
    <3>2. CASE k = n
      <4>1. k \notin 0 .. n - 1 /\ k # 0 /\ k - 1 = n - 1 /\ n - 1 \in 0 .. n - 1 /\ n - 1 \in 0 .. n
        BY <3>2, <2>3, <2>4
      <4> QED BY <4>1
    <3> QED BY <3>1, <3>2, <2>4
  <2>9. g = [k \in 0 .. n |-> g[k]] OBVIOUS
  <2> HIDE DEF g
  <2>10. Walks(h, c, g, n) BY <2>7, <2>9 DEF Walks
  <2> QED BY <2>10, <2>2
<1> QED BY <1>1, <1>2

(* How far the head of a list is from its end.                              *)
ListLength(h, c, height) == IF h.head[c] = NULL THEN 0 ELSE height[h.head[c]]

(* After n steps the walk is at the block n closer to the end.              *)
LEMMA WalkGoesDown ==
  ASSUME NEW h, Whole(h, {}, {}), NEW c \in Classes, NEW height,
         Heights(h, FreeIn(h.blocks), height), NEW n \in Nat, NEW f, Walks(h, c, f, n)
  PROVE  /\ ListLength(h, c, height) \in Nat
         /\ \A k \in 0 .. n :
              IF k < ListLength(h, c, height)
                THEN /\ f[k] \in FreeIn(h.blocks) /\ ClassIn(h.blocks, f[k]) = c
                     /\ height[f[k]] = ListLength(h, c, height) - k
                ELSE f[k] = NULL
<1> DEFINE B == h.blocks
           F == FreeIn(B)
           length == ListLength(h, c, height)
           Good(k) == IF k < length
                        THEN /\ f[k] \in F /\ ClassIn(B, f[k]) = c
                             /\ height[f[k]] = length - k
                        ELSE f[k] = NULL
<1>1. HeapOK(h) /\ Tiled(B) BY DEF Whole
<1>2. \A b \in F : height[b] \in Nat \ {0} BY DEF Heights
<1>3. h.head[c] = NULL \/ (h.head[c] \in F /\ ClassIn(B, h.head[c]) = c) BY DEF Heights
<1>4. \A b \in F : b \in InnerBlocks(B) /\ b # NULL BY <1>1, TiledFacts DEF FreeIn, NULL
<1>5. length \in Nat BY <1>2, <1>3 DEF ListLength
<1>6. \A k \in 0 .. n : f[k] = IF k = 0 THEN h.head[c] ELSE Step(h, f[k - 1]) BY DEF Walks
<1>7. Good(0)
  <2>1. f[0] = h.head[c] BY <1>6
  <2> QED BY <1>2, <1>3, <1>4, <2>1 DEF ListLength
<1>8. ASSUME NEW k \in 1 .. n, Good(k - 1) PROVE Good(k)
  <2>1. f[k] = Step(h, f[k - 1]) BY <1>6
  <2>2. CASE k - 1 < length
    <3> DEFINE b == f[k - 1]
    <3>1. b \in F /\ ClassIn(B, b) = c /\ height[b] = length - (k - 1) BY <1>8, <2>2
    <3>2. f[k] = B[b].next BY <1>4, <2>1, <3>1 DEF Step
    <3> HIDE DEF b
    <3>3. IF B[b].next = NULL THEN height[b] = 1
          ELSE /\ B[b].next \in F /\ ClassIn(B, B[b].next) = ClassIn(B, b)
               /\ height[b] = height[B[b].next] + 1
      BY <3>1 DEF Heights
    <3> HIDE DEF length
    <3>4. CASE B[b].next = NULL
      <4>1. ~ (k < length) BY <1>5, <3>1, <3>3, <3>4
      <4> QED BY <3>2, <3>4, <4>1
    <3>5. CASE B[b].next # NULL
      <4>1. height[f[k]] \in Nat \ {0} /\ height[b] = height[f[k]] + 1 BY <1>2, <3>2, <3>3, <3>5
      <4>2. height[f[k]] = length - k /\ k < length BY <1>5, <3>1, <4>1
      <4> QED BY <3>1, <3>2, <3>3, <3>5, <4>2
    <3> QED BY <3>4, <3>5
  <2>3. CASE ~ (k - 1 < length)
    <3>1. f[k - 1] = NULL BY <1>8, <2>3
    <3>2. NULL \notin InnerBlocks(B) BY <1>1, TiledFacts DEF NULL
    <3>3. f[k] = NULL BY <2>1, <3>1, <3>2 DEF Step
    <3> HIDE DEF length
    <3>4. ~ (k < length) BY <1>5, <2>3
    <3> QED BY <3>3, <3>4
  <2> QED BY <2>2, <2>3
<1> HIDE DEF length
<1>9. \A k \in 0 .. n : Good(k)
  <2> DEFINE T == {k \in 0 .. n : ~ Good(k)}
  <2> HIDE DEF Good
  <2>1. CASE T = {} BY <2>1
  <2>2. CASE T # {}
    <3>1. T \in SUBSET Nat OBVIOUS
    <3>2. PICK k \in T : \A m \in T : k <= m BY <2>2, <3>1, LeastNatural
    <3>3. k # 0 /\ k \in 1 .. n BY <1>7, <3>2
    <3>4. k - 1 \in 0 .. n /\ k - 1 \notin T BY <3>2, <3>3
    <3>5. Good(k - 1) BY <3>4
    <3> QED BY <1>8, <3>2, <3>3, <3>5
  <2> QED BY <2>1, <2>2
<1> QED BY <1>5, <1>9 DEF length

LEMMA BlocksAreFinite ==
  ASSUME NEW h, HeapOK(h), Tiled(h.blocks)
  PROVE  IsFiniteSet(DOMAIN h.blocks) /\ Cardinality(DOMAIN h.blocks) \in Nat
<1>1. FirstBlock \in Int /\ Sentinel \in Int BY PoolSizes, TiledFacts
<1>2. IsFiniteSet(FirstBlock .. Sentinel) BY <1>1, FS_Interval
<1>3. \A b \in DOMAIN h.blocks : b \in Nat BY HeapFields
<1>4. DOMAIN h.blocks \in SUBSET (FirstBlock .. Sentinel) BY <1>1, <1>3 DEF Tiled
<1>5. IsFiniteSet(DOMAIN h.blocks) BY <1>2, <1>4, FS_Subset
<1> QED BY <1>5, FS_CardinalityType

(* The list has no more blocks than there are, so the walk ends, having     *)
(* been at the free blocks of the class.                                    *)
LEMMA WalkEnds ==
  ASSUME NEW h, Whole(h, {}, {}), NEW c \in Classes, NEW n, n = Cardinality(DOMAIN h.blocks),
         NEW f, Walks(h, c, f, n)
  PROVE  /\ {f[k] : k \in 0 .. n} \ {NULL} =
              {b \in FreeIn(h.blocks) : ClassIn(h.blocks, b) = c}
         /\ f[n] = NULL
<1> DEFINE B == h.blocks
           F == FreeIn(B)
<1>1. HeapOK(h) /\ Tiled(B) /\ Listed(h, {}) BY DEF Whole
<1>2. F \ {} = F OBVIOUS
<1>3. PICK height : Heights(h, F, height) BY <1>1, <1>2 DEF Listed
<1>4. n \in Nat /\ IsFiniteSet(DOMAIN B) BY <1>1, BlocksAreFinite
<1> DEFINE length == ListLength(h, c, height)
<1>5. length \in Nat /\ \A k \in 0 .. n :
         IF k < length THEN /\ f[k] \in F /\ ClassIn(B, f[k]) = c /\ height[f[k]] = length - k
         ELSE f[k] = NULL
  BY <1>3, <1>4, WalkGoesDown
<1>6. \A b \in F : b \in DOMAIN B /\ b # NULL /\ height[b] \in Nat \ {0}
  BY <1>1, <1>3, TiledFacts DEF FreeIn, InnerBlocks, NULL, Heights
<1>7. \A b \in F : ClassIn(B, b) = c => height[b] <= length
  BY <1>3 DEF Heights, ListLength
<1> HIDE DEF length
<1>8. length <= n
  <2>1. SUFFICES ASSUME n < length PROVE FALSE BY <1>4, <1>5
  <2>2. \A k \in 0 .. n : f[k] \in DOMAIN B /\ height[f[k]] = length - k
    BY <1>4, <1>5, <1>6, <2>1
  <2> DEFINE g == [k \in 0 .. n |-> f[k]]
  <2>3. g \in [0 .. n -> DOMAIN B] BY <2>2
  <2>4. IsFiniteSet(0 .. n) /\ Cardinality(0 .. n) = n + 1 BY <1>4, FS_Interval
  <2>5. Cardinality(DOMAIN B) < Cardinality(0 .. n) BY <1>4, <2>4
  <2>6. PICK x \in 0 .. n, y \in 0 .. n : x # y /\ g[x] = g[y]
    <3>1. PICK q : q = g OBVIOUS
    <3>2. q \in [0 .. n -> DOMAIN B] BY <2>3, <3>1
    <3> HIDE DEF g
    <3>3. \E x, y \in 0 .. n : x # y /\ q[x] = q[y] BY <1>4, <2>4, <2>5, <3>2, FS_PigeonHole
    <3> QED BY <3>1, <3>3
  <2>7. length - x = length - y BY <2>2, <2>6
  <2> QED BY <1>4, <1>5, <2>6, <2>7
<1>9. f[n] = NULL BY <1>4, <1>5, <1>8
<1>10. ASSUME NEW b \in F, ClassIn(B, b) = c PROVE \E k \in 0 .. n : f[k] = b
  <2>1. height[b] \in Nat \ {0} /\ height[b] <= length BY <1>6, <1>7, <1>10
  <2>2. PICK k : k = length - height[b] OBVIOUS
  <2>3. k \in 0 .. n /\ k < length /\ length - k = height[b] BY <1>4, <1>5, <1>8, <2>1, <2>2
  <2>4. f[k] \in F /\ ClassIn(B, f[k]) = c /\ height[f[k]] = height[b] BY <1>5, <2>3
  <2>5. f[k] = b BY <1>3, <1>10, <2>4 DEF Heights
  <2> QED BY <2>3, <2>5
<1>11. \A k \in 0 .. n : f[k] # NULL => f[k] \in F /\ ClassIn(B, f[k]) = c
  BY <1>5
<1> QED BY <1>6, <1>9, <1>10, <1>11

LEMMA WholeIsListed == ASSUME Whole(heap, {}, {}) PROVE ListsSound
<1> DEFINE B == heap.blocks
           bound == Cardinality(DOMAIN B)
<1>1. HeapOK(heap) /\ Tiled(B) /\ Listed(heap, {}) /\ Blocks = InnerBlocks(B)
  BY DEF Whole, Blocks, InnerBlocks
<1>2. bound \in Nat BY <1>1, BlocksAreFinite
<1>3. ASSUME NEW c \in Classes
      PROVE  LET at[n \in 0 .. bound] ==
                   IF n = 0 THEN heap.head[c]
                   ELSE IF at[n - 1] \in Blocks THEN heap.blocks[at[n - 1]].next ELSE NULL
             IN  /\ {at[n] : n \in 0 .. bound} \ {NULL} =
                      {b \in FreeBlocks : InsertMapping(heap.blocks[b].size) = c}
                 /\ at[bound] = NULL
  <2> DEFINE at == CHOOSE f : Walks(heap, c, f, bound)
  <2>1. Walks(heap, c, at, bound) BY <1>2, WalkIsDefined
  <2>2. at = CHOOSE f : f = [n \in 0 .. bound |->
                               IF n = 0 THEN heap.head[c]
                               ELSE IF f[n - 1] \in Blocks THEN heap.blocks[f[n - 1]].next ELSE NULL]
    BY <1>1 DEF Walks, Step
  <2> HIDE DEF at
  <2>3. /\ {at[k] : k \in 0 .. bound} \ {NULL} = {b \in FreeIn(B) : ClassIn(B, b) = c}
        /\ at[bound] = NULL
    BY <2>1, WalkEnds
  <2>4. FreeBlocks = FreeIn(B) BY <1>1 DEF FreeBlocks, FreeIn
  <2>5. {b \in FreeBlocks : InsertMapping(heap.blocks[b].size) = c}
          = {b \in FreeIn(B) : ClassIn(B, b) = c}
    BY <2>4 DEF ClassIn
  <2> QED BY <2>2, <2>3, <2>5
<1>4. heap.sl = {c \in Classes : heap.head[c] # NULL} /\ heap.fl = {c[1] : c \in heap.sl}
  BY <1>1 DEF Listed
<1> QED BY <1>3, <1>4 DEF ListsSound

-----------------------------------------------------------------------------
(* Good fit.                                                                *)

(* The smallest size of a class, if it has one.                             *)
SmallestIs(c, m) ==
  \/ m = 0 /\ \A s \in Units(2 * PoolBytes) : InsertMapping(s) # c
  \/ /\ m \in Units(2 * PoolBytes) /\ InsertMapping(m) = c
     /\ \A s \in Units(2 * PoolBytes) : InsertMapping(s) = c => m <= s

LEMMA UnitsAre ==
  /\ Units(2 * PoolBytes) \in SUBSET Nat
  /\ \A s \in Units(2 * PoolBytes) : s \in Nat \ {0} /\ s % 4 = 0
  /\ \A s \in 1 .. PoolBytes : s % 4 = 0 => s \in Units(2 * PoolBytes)
<1>1. PICK n \in Nat : n = 2 * PoolBytes BY PoolSizes
<1>2. \A s \in Units(n) : s \in Nat \ {0} /\ s % 4 = 0 BY <1>1 DEF Units, Align
<1>3. ASSUME NEW s \in 1 .. PoolBytes, s % 4 = 0 PROVE s \in Units(n)
  <2>1. s = 4 * (s \div 4) /\ s \div 4 \in Nat /\ s \div 4 # 0 /\ s <= n
    BY <1>1, <1>3, PoolSizes
  <2>2. s \div 4 \in 1 .. n \div 4 BY <1>1, <2>1
  <2> QED BY <2>1, <2>2 DEF Units, Align
<1> QED BY <1>1, <1>2, <1>3

LEMMA Smallest == ASSUME NEW c \in Classes PROVE SmallestIs(c, SmallestOf[c])
<1> DEFINE sizes == {s \in Units(2 * PoolBytes) : InsertMapping(s) = c}
<1>1. SmallestOf[c] = IF sizes = {} THEN 0 ELSE Min(sizes) BY DEF SmallestOf
<1>2. CASE sizes = {} BY <1>1, <1>2 DEF SmallestIs
<1>3. CASE sizes # {}
  <2>1. sizes \in SUBSET Nat BY UnitsAre
  <2>2. Min(sizes) \in sizes /\ \A s \in sizes : Min(sizes) <= s BY <1>3, <2>1, LeastOf
  <2> QED BY <1>1, <1>3, <2>2 DEF SmallestIs
<1> QED BY <1>2, <1>3

(* The classes that a search goes through are those all of whose sizes fit. *)
LEMMA FittingClasses ==
  ASSUME NEW size, Askable(size), NEW s \in 1 .. PoolBytes, s % 4 = 0
  PROVE  SmallestOf[InsertMapping(s)] >= size
           <=> ~ Before(InsertMapping(s), SearchMapping(size))
<1> DEFINE c == InsertMapping(s)
<1>1. size \in Nat /\ 12 <= size /\ size <= Bit[29] /\ size % 4 = 0 BY DEF Askable
<1>2. c \in Classes /\ s \in 1 .. Bit[30] - 1 /\ s \in Units(2 * PoolBytes)
  BY SizesHaveClasses, PoolSizes, UnitsAre, BitValues
<1>3. PICK m : m = SmallestOf[c] OBVIOUS
<1>4. SmallestIs(c, m) BY <1>2, <1>3, Smallest
<1> HIDE DEF c
<1>5. m \in Units(2 * PoolBytes) /\ InsertMapping(m) = c /\ m \in Nat \ {0} /\ m % 4 = 0
      /\ \A t \in Units(2 * PoolBytes) : InsertMapping(t) = c => m <= t
  BY <1>2, <1>4, UnitsAre DEF SmallestIs, c
<1>6. m <= s BY <1>2, <1>5 DEF c
<1>7. m \in 1 .. Bit[30] - 1 BY <1>2, <1>5, <1>6, BitValues
<1>8. ASSUME ~ Before(c, SearchMapping(size)) PROVE m >= size
  <2>1. ~ Before(InsertMapping(m), SearchMapping(size)) BY <1>5, <1>8
  <2>2. size <= m BY <1>1, <1>5, <1>7, <2>1, SearchedClassesFit
  <2> QED BY <1>1, <1>5, <2>2
<1>9. ASSUME Before(c, SearchMapping(size)) PROVE ~ (m >= size)
  <2>1. PICK k \in 1 .. size - 1 : k % 4 = 0 /\ k <= s /\ InsertMapping(k) = c
    BY <1>1, <1>2, <1>9, SkippedClassesDoNotFit DEF c
  <2>2. k \in 1 .. PoolBytes BY <1>1, <2>1, PoolSizes
  <2>3. m <= k BY <1>5, <2>1, <2>2, UnitsAre
  <2> QED BY <1>1, <1>5, <2>1, <2>3
<1> QED BY <1>3, <1>8, <1>9 DEF c

LEMMA WholeFitsWell == ASSUME Whole(heap, {}, {}) PROVE GoodFit
<1> DEFINE B == heap.blocks
<1>1. HeapOK(heap) /\ Tiled(B) /\ FreeBlocks = FreeIn(B)
  BY DEF Whole, FreeBlocks, Blocks, FreeIn, InnerBlocks
<1>2. SUFFICES
        ASSUME NEW request \in Sizes
        PROVE  LET size     == AdjustRequestSize(request)
                   class(b) == InsertMapping(heap.blocks[b].size)
                   fitting  == {b \in FreeBlocks : SmallestOf[class(b)] >= size}
                   found    == LocateFreeBlock(heap, size).block
               IN  IF fitting = {} THEN found = NULL
                   ELSE /\ found \in fitting
                        /\ \A b \in fitting :
                             heap.blocks[b].size < heap.blocks[found].size
                               => class(b) = class(found)
  BY DEF GoodFit
<1> DEFINE size == AdjustRequestSize(request)
           r == LocateFreeBlock(heap, size)
           fitting == {b \in FreeBlocks : SmallestOf[InsertMapping(B[b].size)] >= size}
<1>3. Askable(size)
  <2>1. size \in Nat /\ 12 <= size /\ size % 4 = 0 /\ size <= Bit[29]
    BY RequestsAdjusted, BitValues
  <2> HIDE DEF size
  <2> QED BY <2>1 DEF Askable
<1>4. ASSUME NEW b \in FreeIn(B)
      PROVE  B[b].size \in 1 .. PoolBytes /\ B[b].size % 4 = 0
             /\ ClassIn(B, b) = InsertMapping(B[b].size)
  <2>1. b \in InnerBlocks(B) BY DEF FreeIn
  <2> QED BY <1>1, <2>1, TiledFacts DEF Tiled, ClassIn
<1> HIDE DEF size
<1>5. fitting = {b \in FreeIn(B) : ~ Before(ClassIn(B, b), SearchMapping(size))}
  <2>1. ASSUME NEW b \in FreeIn(B)
        PROVE  SmallestOf[InsertMapping(B[b].size)] >= size
                 <=> ~ Before(ClassIn(B, b), SearchMapping(size))
    <3>1. PICK s : s = B[b].size OBVIOUS
    <3>2. SmallestOf[InsertMapping(s)] >= size <=> ~ Before(InsertMapping(s), SearchMapping(size))
      BY <1>3, <1>4, <3>1, FittingClasses
    <3> QED BY <1>4, <3>1, <3>2
  <2> QED BY <1>1, <2>1
<1>6. \/ r = [heap |-> heap, block |-> NULL] /\ FoundNone(heap, size)
      \/ r.block # NULL /\ FoundOne(heap, size, r)
  BY <1>3, Located
<1> HIDE DEF r
<1>7. CASE r.block = NULL /\ FoundNone(heap, size)
  <2>1. fitting = {} BY <1>5, <1>7 DEF FoundNone
  <2> QED BY <1>7, <2>1 DEF size, r
<1>8. CASE r.block # NULL /\ FoundOne(heap, size, r)
  <2>1. PICK f : f = r.block OBVIOUS
  <2>2. /\ f \in FreeIn(B) /\ ~ Before(ClassIn(B, f), SearchMapping(size))
        /\ \A b \in FreeIn(B) :
             \/ Before(ClassIn(B, b), SearchMapping(size))
             \/ ~ Before(ClassIn(B, b), ClassIn(B, f))
    BY <1>8, <2>1 DEF FoundOne
  <2>3. f \in fitting BY <1>5, <2>2
  <2> HIDE DEF fitting
  <2>4. ASSUME NEW b \in fitting, B[b].size < B[f].size
        PROVE  InsertMapping(B[b].size) = InsertMapping(B[f].size)
    <3>1. b \in FreeIn(B) /\ ~ Before(ClassIn(B, b), ClassIn(B, f)) BY <1>5, <2>2
    <3>2. PICK s, t : s = B[b].size /\ t = B[f].size OBVIOUS
    <3>3. /\ s \in 1 .. Bit[30] - 1 /\ t \in 1 .. Bit[30] - 1 /\ s <= t
          /\ ClassIn(B, b) = InsertMapping(s) /\ ClassIn(B, f) = InsertMapping(t)
      BY <1>4, <2>2, <2>4, <3>1, <3>2, PoolSizes, BitValues
    <3>4. ~ Before(InsertMapping(t), InsertMapping(s)) BY <3>3, ClassesAreMonotone
    <3>5. PICK l, i : InClass(s, l, i) BY <3>3, EverySizeHasAClass
    <3>6. PICK m, j : InClass(t, m, j) BY <3>3, EverySizeHasAClass
    <3>7. /\ InsertMapping(s) = <<l, i>> /\ InsertMapping(t) = <<m, j>>
          /\ l \in Nat /\ i \in Nat /\ m \in Nat /\ j \in Nat
      BY <3>5, <3>6, Counts DEF InClass
    <3>8. ~ Before(<<l, i>>, <<m, j>>) /\ ~ Before(<<m, j>>, <<l, i>>)
      BY <3>1, <3>3, <3>4, <3>7
    <3>9. l = m /\ i = j BY <3>7, <3>8 DEF Before
    <3> QED BY <3>2, <3>7, <3>9
  <2>5. fitting # {} BY <2>3
  <2> QED BY <2>1, <2>3, <2>4, <2>5 DEF fitting, size, r
<1> QED BY <1>6, <1>7, <1>8

-----------------------------------------------------------------------------
(* The allocator the hypervisor is built with by default.                   *)

(* What is held lies between the beginning of the pool and what is left.    *)
NaiveInv ==
  /\ built = "naive" /\ heap = Pool /\ live \in [DOMAIN live -> Requests]
  /\ poolStart \in Nat /\ NaiveBegin <= poolStart /\ poolStart <= PoolEnd
  /\ \E k \in 0 .. poolStart : poolStart = k * 4
  /\ \A p \in DOMAIN live :
       /\ p \in Nat /\ NaiveBegin <= p
       /\ live[p].size \in Nat \ {0} /\ p + live[p].size <= poolStart

LEMMA Constants ==
  /\ FirstBlock \in Nat /\ PoolEnd \in Nat /\ NaiveBegin \in Nat
  /\ FirstBlock <= NaiveBegin /\ NaiveBegin <= PoolEnd
  /\ \E k \in 0 .. NaiveBegin : NaiveBegin = k * 4
<1>1. FirstBlock \in Nat /\ PoolBytes \in Nat BY TlsfAssumption
<1>2. PoolEnd \in Nat BY <1>1 DEF PoolEnd
<1>3. NaiveBegin \in Nat /\ FirstBlock <= NaiveBegin /\ NaiveBegin <= PoolEnd /\ NaiveBegin % 4 = 0
  BY <1>1, <1>2, AllocatorsAssumption DEF Align
<1>4. NaiveBegin = (NaiveBegin \div 4) * 4 /\ NaiveBegin \div 4 \in 0 .. NaiveBegin BY <1>3
<1> QED BY <1>1, <1>2, <1>3, <1>4

LEMMA WordsHold ==
  ASSUME NEW size \in Nat
  PROVE  /\ Naive!Words(size) \in Nat /\ size <= Naive!Words(size)
         /\ \E k \in Nat : Naive!Words(size) = k * 4
<1>1. (size + 3) \div 4 \in Nat /\ ((size + 3) \div 4) * 4 >= size OBVIOUS
<1> QED BY <1>1 DEF Naive!Words

LEMMA AlignUpIsAligned ==
  ASSUME NEW x \in Nat, NEW a \in Nat, a > 0
  PROVE  /\ Naive!AlignUp(x, a) \in Nat /\ x <= Naive!AlignUp(x, a)
         /\ \E k \in 0 .. Naive!AlignUp(x, a) : Naive!AlignUp(x, a) = k * a
<1> DEFINE q == (x + a - 1) \div a
<1>1. q \in Nat /\ x + a - 1 = (q * a) + ((x + a - 1) % a) /\ (x + a - 1) % a \in 0 .. a - 1
  OBVIOUS
<1>2. Naive!AlignUp(x, a) = q * a BY DEF Naive!AlignUp
<1> HIDE DEF q
<1>3. q * a \in Nat /\ q <= q * a BY <1>1
<1>4. x <= q * a BY <1>1, <1>3
<1> QED BY <1>1, <1>2, <1>3, <1>4

LEMMA RequestsAreSane ==
  ASSUME NEW r \in Requests
  PROVE  /\ r.size \in Nat \ {0} /\ r.alignment \in Nat /\ r.alignment > 0
         /\ \E k \in Nat : r.alignment = k * 4
<1>1. PICK size \in Sizes, a \in Alignments \cup {4} : r = [size |-> size, alignment |-> a]
  BY DEF Requests, Request, Align
<1>2. size \in Nat \ {0} BY TlsfAssumption, BitValues DEF MaxRequest
<1>3. a \in Nat /\ a > 0 /\ a = (a \div 4) * 4 /\ a \div 4 \in Nat
  BY TlsfAssumption DEF Align
<1> QED BY <1>1, <1>2, <1>3

LEMMA RequestOf ==
  ASSUME NEW size \in Sizes, NEW a \in Alignments \cup {4}
  PROVE  \E r \in Requests : r.size = size /\ r.alignment = a /\ r = Naive!Request(size, a)
<1>1. Request(size, a) \in Requests BY DEF Requests, Align
<1> QED BY <1>1 DEF Request, Naive!Request

(* A block taken at an aligned place at or beyond poolStart.                *)
LEMMA TakeKeepsApart ==
  ASSUME NaiveInv, NEW p \in Nat, NEW r \in Requests, poolStart <= p,
         A!Aligned(p, r.alignment), Naive!Fits(p, r.size),
         NEW others, others \subseteq DOMAIN live, Naive!Take(p, r, others), UNCHANGED <<built, heap>>
  PROVE  /\ NaiveInv'
         /\ p \in DOMAIN live' /\ live'[p] = r /\ p \notin DOMAIN live
         /\ A!Usable(p, r, DOMAIN live)
         /\ live' = A!With(p, r, others)
<1>1. /\ r.size \in Nat \ {0} /\ r.alignment \in Nat /\ r.alignment > 0
      /\ \E k \in Nat : r.alignment = k * 4
  BY RequestsAreSane
<1>2. /\ Naive!Words(r.size) \in Nat /\ r.size <= Naive!Words(r.size)
      /\ \E k \in Nat : Naive!Words(r.size) = k * 4
  BY <1>1, WordsHold
<1>3. poolStart' = p + Naive!Words(r.size) /\ poolStart' < PoolEnd
      /\ live' = [q \in others \cup {p} |-> IF q = p THEN r ELSE live[q]]
  BY DEF Naive!Take, Naive!Fits
<1>4. live' = A!With(p, r, others) /\ p \in DOMAIN live' /\ live'[p] = r
  BY <1>3 DEF A!With
<1>5. A!Usable(p, r, DOMAIN live)
  <2>1. p >= FirstBlock /\ p + r.size <= PoolEnd BY <1>1, <1>2, <1>3, Constants DEF NaiveInv
  <2>2. \A q \in DOMAIN live : A!Disjoint(p, r.size, q, live[q].size)
    BY Constants DEF NaiveInv, A!Disjoint
  <2> QED BY <2>1, <2>2 DEF A!Usable
<1>6. \E k \in 0 .. poolStart' : poolStart' = k * 4
  <2>1. PICK k \in 0 .. p : p = k * r.alignment BY DEF A!Aligned
  <2>2. PICK j \in Nat : r.alignment = j * 4 BY <1>1
  <2>3. PICK i \in Nat : Naive!Words(r.size) = i * 4 BY <1>2
  <2>4. k * j \in Nat /\ p = (k * j) * 4 BY <2>1, <2>2
  <2>5. poolStart' = (k * j + i) * 4 BY <2>3, <2>4, <1>3
  <2>6. k * j + i \in Nat BY <2>3, <2>4
  <2>7. PICK n \in Nat : poolStart' = n * 4 BY <2>5, <2>6
  <2>8. n \in 0 .. poolStart' BY <2>7
  <2> QED BY <2>7, <2>8
<1>7. \A q \in DOMAIN live' :
        /\ q \in Nat /\ NaiveBegin <= q
        /\ live'[q].size \in Nat \ {0} /\ q + live'[q].size <= poolStart'
  <2> TAKE q \in DOMAIN live'
  <2>1. CASE q = p BY <2>1, <1>1, <1>2, <1>3, Constants DEF NaiveInv
  <2>2. CASE q # p
    <3>1. q \in DOMAIN live /\ live'[q] = live[q] BY <2>2, <1>3
    <3> QED BY <3>1, <1>2, <1>3, Constants DEF NaiveInv
  <2> QED BY <2>1, <2>2
<1>8. poolStart' \in Nat /\ NaiveBegin <= poolStart' /\ poolStart' <= PoolEnd
  BY <1>2, <1>3, Constants DEF NaiveInv
<1>9. built' = "naive" /\ heap' = Pool BY DEF NaiveInv
<1>10. p \notin DOMAIN live BY DEF NaiveInv
<1>11. live' \in [DOMAIN live' -> Requests]
  <2>1. DOMAIN live' = others \cup {p} BY <1>3
  <2>2. \A q \in DOMAIN live' : live'[q] \in Requests BY <1>3, <2>1 DEF NaiveInv
  <2> QED BY <1>3, <2>1, <2>2
<1> QED BY <1>4, <1>5, <1>6, <1>7, <1>8, <1>9, <1>10, <1>11 DEF NaiveInv

LEMMA MallocStep ==
  ASSUME NaiveInv, NEW size \in Sizes, Naive!Malloc(size), UNCHANGED <<built, heap>>
  PROVE  NaiveInv' /\ A!Next
<1>1. PICK r \in Requests : r.size = size /\ r.alignment = 4 /\ r = Naive!Request(size, 4)
  BY RequestOf
<1>2. Naive!Fits(poolStart, r.size) /\ Naive!Take(poolStart, r, DOMAIN live)
  BY <1>1 DEF Naive!Malloc
<1>3. A!Aligned(poolStart, r.alignment) BY <1>1 DEF A!Aligned, NaiveInv
<1>4. poolStart \in Nat /\ poolStart <= poolStart BY DEF NaiveInv
<1>5. NaiveInv' /\ A!Obtain(poolStart) /\ poolStart \in DOMAIN live'
  BY <1>2, <1>3, <1>4, TakeKeepsApart DEF A!Obtain
<1> QED BY <1>5 DEF A!Next

LEMMA MemalignStep ==
  ASSUME NaiveInv, NEW size \in Sizes, NEW a \in Alignments, Naive!Memalign(a, size),
         UNCHANGED <<built, heap>>
  PROVE  NaiveInv' /\ A!Next
<1>1. PICK r \in Requests : r.size = size /\ r.alignment = a /\ r = Naive!Request(size, a)
  BY RequestOf
<1>2. PICK p : /\ p = Naive!AlignUp(poolStart, a)
               /\ Naive!Fits(p, r.size) /\ Naive!Take(p, r, DOMAIN live)
  BY <1>1 DEF Naive!Memalign
<1>3. poolStart \in Nat /\ a \in Nat /\ a > 0 BY TlsfAssumption DEF NaiveInv
<1>4. p \in Nat /\ poolStart <= p /\ A!Aligned(p, r.alignment)
  BY <1>1, <1>2, <1>3, AlignUpIsAligned DEF A!Aligned
<1>5. NaiveInv' /\ A!Obtain(p) /\ p \in DOMAIN live'
  BY <1>2, <1>4, TakeKeepsApart DEF A!Obtain
<1> QED BY <1>5 DEF A!Next

LEMMA FreeStep ==
  ASSUME NaiveInv, NEW p \in DOMAIN live, Naive!Free(p), UNCHANGED <<built, heap>>
  PROVE  NaiveInv' /\ A!Next
<1>1. live' = [q \in DOMAIN live \ {p} |-> live[q]] /\ poolStart' = poolStart
  BY DEF Naive!Free, Naive!Restrict
<1>2. DOMAIN live' = DOMAIN live \ {p} /\ \A q \in DOMAIN live' : live'[q] = live[q]
  BY <1>1
<1>3. live' \in [DOMAIN live' -> Requests] BY <1>1, <1>2 DEF NaiveInv
<1>4. NaiveInv' BY <1>1, <1>2, <1>3 DEF NaiveInv
<1>5. A!Free(p) BY <1>1 DEF A!Free, A!Restrict
<1> QED BY <1>4, <1>5 DEF A!Next

LEMMA ReallocStep ==
  ASSUME NaiveInv, NEW p \in DOMAIN live, NEW size \in Sizes, Naive!Realloc(p, size),
         UNCHANGED <<built, heap>>
  PROVE  NaiveInv' /\ (A!Next \/ UNCHANGED live)
<1>1. CASE Naive!Fits(poolStart, size)
  <2>1. PICK r \in Requests : r.size = size /\ r.alignment = 4 /\ r = Naive!Request(size, 4)
    BY RequestOf
  <2>2. Naive!Fits(poolStart, r.size) /\ Naive!Take(poolStart, r, DOMAIN live \ {p})
    BY <1>1, <2>1 DEF Naive!Realloc
  <2>3. A!Aligned(poolStart, r.alignment) BY <2>1 DEF A!Aligned, NaiveInv
  <2>4. poolStart \in Nat /\ poolStart <= poolStart BY DEF NaiveInv
  <2>5. /\ NaiveInv' /\ poolStart \in DOMAIN live' /\ live'[poolStart] = r
        /\ poolStart \notin DOMAIN live
        /\ A!Usable(poolStart, r, DOMAIN live)
        /\ live' = A!With(poolStart, r, DOMAIN live \ {p})
    BY <2>2, <2>3, <2>4, TakeKeepsApart
  <2>6. A!Usable(poolStart, r, DOMAIN live \ {}) BY <2>5
  <2>7. A!Realloc(p, poolStart) BY <2>5, <2>6 DEF A!Realloc
  <2> QED BY <2>5, <2>7 DEF A!Next
<1>2. CASE ~ Naive!Fits(poolStart, size)
  BY <1>2 DEF Naive!Realloc, NaiveInv
<1> QED BY <1>1, <1>2

LEMMA NaiveStep ==
  ASSUME NaiveInv, [AllocNext]_allocVars
  PROVE  NaiveInv' /\ [A!Next]_live
<1>1. CASE UNCHANGED allocVars BY <1>1 DEF allocVars, NaiveInv
<1>2. CASE NaiveCall
  <2> USE <1>2 DEF NaiveCall
  <2>1. ASSUME NEW size \in Sizes, Naive!Malloc(size) PROVE NaiveInv' /\ A!Next
    BY <2>1, MallocStep
  <2>2. ASSUME NEW size \in Sizes, NEW a \in Alignments, Naive!Memalign(a, size)
        PROVE  NaiveInv' /\ A!Next
    BY <2>2, MemalignStep
  <2>3. ASSUME NEW size, NEW p, Naive!Fail(p, size) PROVE NaiveInv' /\ UNCHANGED live
    BY <2>3 DEF Naive!Fail, Naive!naiveVars, NaiveInv
  <2>4. ASSUME NEW p \in DOMAIN live, Naive!Free(p) PROVE NaiveInv' /\ A!Next
    BY <2>4, FreeStep
  <2>5. ASSUME NEW p \in DOMAIN live, NEW size \in Sizes, Naive!Realloc(p, size)
        PROVE  NaiveInv' /\ (A!Next \/ UNCHANGED live)
    BY <2>5, ReallocStep
  <2> QED BY <2>1, <2>2, <2>3, <2>4, <2>5 DEF Naive!Next
<1>3. CASE TlsfCall BY <1>3 DEF TlsfCall, NaiveInv
<1> QED BY <1>1, <1>2, <1>3 DEF AllocNext

-----------------------------------------------------------------------------
(* The two level segregated fit allocator.  Unless a client has harmed it,  *)
(* the heap is whole, and has in use what clients hold.                     *)

Holding(h, held) ==
  /\ Whole(h, {}, {}) /\ Used(h.blocks) = DOMAIN held
  /\ \A p \in DOMAIN held : held[p].size <= h.blocks[p].size

TlsfInv ==
  /\ built = "tlsf" /\ live \in [DOMAIN live -> Requests]
  /\ Careful => ~ heap.harmed
  /\ heap.harmed \/ Holding(heap, live)

LEMMA AlignedByFour == ASSUME NEW p \in Nat, p % 4 = 0 PROVE A!Aligned(p, 4)
<1>1. p = (p \div 4) * 4 /\ p \div 4 \in 0 .. p OBVIOUS
<1> QED BY <1>1 DEF A!Aligned

(* A place apart from the blocks of clients is apart from what they hold.   *)
LEMMA PlaceIsUsable ==
  ASSUME TlsfInv, ~ heap.harmed, NEW b, NEW n \in Nat, NEW S, S \subseteq DOMAIN live,
         Place(heap, b, n, S), NEW r \in Requests, r.size <= n, A!Aligned(b, r.alignment)
  PROVE  A!Usable(b, r, S)
<1>1. r.size \in Nat BY RequestsAreSane
<1>2. b \in Nat /\ FirstBlock <= b /\ b + n <= PoolEnd BY DEF Place
<1>3. b >= FirstBlock /\ b + r.size <= PoolEnd BY <1>1, <1>2, Constants
<1>4. ASSUME NEW q \in S PROVE A!Disjoint(b, r.size, q, live[q].size)
  <2>1. /\ q \in Nat /\ heap.blocks[q].size \in Nat
        /\ q + heap.blocks[q].size <= b \/ b + n <= q
    BY DEF Place
  <2>2. live[q].size <= heap.blocks[q].size BY DEF TlsfInv, Holding
  <2>3. live[q].size \in Nat BY RequestsAreSane DEF TlsfInv
  <2> QED BY <1>1, <1>2, <2>1, <2>2, <2>3 DEF A!Disjoint
<1> QED BY <1>3, <1>4 DEF A!Usable

(* What a served request makes of the state.                                *)
LEMMA ServedStep ==
  ASSUME TlsfInv, NEW r \in Requests, NEW n \in Nat, r.size <= n, NEW result,
         Served(heap, result, n), Obtain(result, r, DOMAIN live),
         result.block # NULL => A!Aligned(result.block, r.alignment), UNCHANGED built
  PROVE  TlsfInv' /\ [A!Next]_live
<1>1. ~ heap.harmed /\ heap' = result.heap /\ (Careful => ~ result.heap.harmed)
      /\ live' = IF result.block = NULL THEN live ELSE With(result.block, r, DOMAIN live)
  BY DEF Obtain, Sound, Becomes
<1>2. Holding(heap, live) /\ Used(heap.blocks) = DOMAIN live BY <1>1 DEF TlsfInv, Holding
<1>3. CASE result = [heap |-> heap, block |-> NULL]
  BY <1>1, <1>3 DEF TlsfInv
<1>4. CASE result.block # NULL /\ Takes(heap, result.heap, result.block, n)
  <2>1. PICK k, b : k = result.heap /\ b = result.block OBVIOUS
  <2>2. /\ heap' = k /\ live' = With(b, r, DOMAIN live) /\ Takes(heap, k, b, n)
        /\ A!Aligned(b, r.alignment)
    BY <1>1, <1>4, <2>1
  <2>3. live' = [q \in DOMAIN live \cup {b} |-> IF q = b THEN r ELSE live[q]]
    BY <2>2 DEF With
  <2>4. /\ DOMAIN live' = DOMAIN live \cup {b} /\ live'[b] = r /\ b \notin DOMAIN live
        /\ \A q \in DOMAIN live : live'[q] = live[q]
    BY <1>2, <2>2, <2>3 DEF Takes
  <2>5. Holding(heap', live')
    <3>1. Whole(k, {}, {}) /\ Used(k.blocks) = DOMAIN live' BY <1>2, <2>2, <2>4 DEF Takes
    <3>2. ASSUME NEW q \in DOMAIN live' PROVE live'[q].size <= k.blocks[q].size
      <4>1. CASE q = b
        <5>1. b \in InnerBlocks(k.blocks) BY <3>1, <3>2, <4>1 DEF Used
        <5>2. k.blocks[b].size \in 1 .. PoolBytes BY <3>1, <5>1, TiledFacts DEF Whole
        <5>3. k.blocks[b].size \in Nat /\ r.size \in Nat /\ n <= k.blocks[b].size
          BY <2>2, <5>2, PoolSizes, RequestsAreSane DEF Takes
        <5> QED BY <2>4, <4>1, <5>3
      <4>2. CASE q # b
        BY <1>2, <2>2, <2>4, <4>2, <3>2 DEF Takes, Holding
      <4> QED BY <4>1, <4>2
    <3> QED BY <2>2, <3>1, <3>2 DEF Holding
  <2>6. live' \in [DOMAIN live' -> Requests]
    <3>1. \A q \in DOMAIN live' : live'[q] \in Requests BY <2>4 DEF TlsfInv
    <3> QED BY <2>3, <2>4, <3>1
  <2>7. TlsfInv' BY <1>1, <2>5, <2>6 DEF TlsfInv
  <2>8. Place(heap, b, n, DOMAIN live) BY <1>2, <2>2, TakenApart
  <2>9. A!Usable(b, r, DOMAIN live) BY <1>1, <2>2, <2>8, PlaceIsUsable
  <2>10. live' = A!With(b, live'[b], DOMAIN live) BY <2>3, <2>4 DEF A!With
  <2>11. A!Obtain(b) BY <2>4, <2>9, <2>10 DEF A!Obtain
  <2>12. b \in DOMAIN live' BY <2>4
  <2> QED BY <2>7, <2>11, <2>12 DEF A!Next
<1> QED BY <1>3, <1>4 DEF Served

LEMMA PlainRequest ==
  ASSUME NEW size \in Sizes
  PROVE  /\ Request(size, Align) \in Requests /\ Request(size, Align).size = size
         /\ Request(size, Align).alignment = 4
BY DEF Requests, Request, Align

LEMMA TlsfMallocStep ==
  ASSUME TlsfInv, NEW size \in Sizes, Malloc(size), UNCHANGED built
  PROVE  TlsfInv' /\ [A!Next]_live
<1>1. PICK result : result = TlsfAllocate(heap, size) OBVIOUS
<1>2. PICK r : r = Request(size, Align) OBVIOUS
<1>3. r \in Requests /\ r.size = size /\ r.alignment = 4 BY <1>2, PlainRequest
<1>4. Obtain(result, r, DOMAIN live) BY <1>1, <1>2 DEF Malloc
<1>5. Whole(heap, {}, {}) BY <1>4 DEF Obtain, Sound, TlsfInv, Holding
<1>6. PICK n : n = AdjustRequestSize(size) OBVIOUS
<1>7. n \in Nat /\ r.size <= n BY <1>3, <1>6, RequestsAdjusted
<1>8. Served(heap, result, n) BY <1>1, <1>5, <1>6, Allocated
<1>9. ASSUME result.block # NULL PROVE A!Aligned(result.block, r.alignment)
  <2>1. Takes(heap, result.heap, result.block, n) BY <1>8, <1>9 DEF Served
  <2>2. PICK k, b : k = result.heap /\ b = result.block OBVIOUS
  <2>3. Place(heap, b, n, Used(heap.blocks)) BY <1>7, <2>1, <2>2, TakenApart
  <2>4. b \in Nat /\ b % 4 = 0 BY <2>3 DEF Place
  <2> QED BY <1>3, <2>2, <2>4, AlignedByFour
<1> QED BY <1>3, <1>4, <1>7, <1>8, <1>9, ServedStep

LEMMA TlsfMemalignStep ==
  ASSUME TlsfInv, NEW size \in Sizes, NEW a \in Alignments, Memalign(a, size), UNCHANGED built
  PROVE  TlsfInv' /\ [A!Next]_live
<1>1. PICK result : result = TlsfAlign(heap, a, size) OBVIOUS
<1>2. PICK r : r = Request(size, a) OBVIOUS
<1>3. r \in Requests /\ r.size = size /\ r.alignment = a BY <1>2 DEF Requests, Request
<1>4. Obtain(result, r, DOMAIN live) BY <1>1, <1>2 DEF Memalign
<1>5. Whole(heap, {}, {}) BY <1>4 DEF Obtain, Sound, TlsfInv, Holding
<1>6. PICK n : n = AdjustRequestSize(size) OBVIOUS
<1>7. n \in Nat /\ r.size <= n BY <1>3, <1>6, RequestsAdjusted
<1>8. IsAlignment(a) BY AlignmentsAre
<1>9. /\ Served(heap, result, n)
      /\ result.block # NULL => \E k \in 0 .. result.block : result.block = k * a
  BY <1>1, <1>5, <1>6, <1>8, AlignedAllocated
<1>10. result.block # NULL => A!Aligned(result.block, r.alignment) BY <1>3, <1>9 DEF A!Aligned
<1> QED BY <1>3, <1>4, <1>7, <1>9, <1>10, ServedStep

LEMMA TlsfFreeStep ==
  ASSUME TlsfInv, NEW p \in DOMAIN live, Free(p), UNCHANGED built
  PROVE  TlsfInv' /\ [A!Next]_live
<1>1. PICK k : k = TlsfFree(heap, p) OBVIOUS
<1>2. ~ heap.harmed /\ heap' = k /\ (Careful => ~ k.harmed) /\ live' = [q \in DOMAIN live \ {p} |-> live[q]]
  BY <1>1 DEF Free, Sound, Becomes, Restrict
<1>3. Holding(heap, live) /\ Whole(heap, {}, {}) /\ p \in Used(heap.blocks)
  BY <1>2 DEF TlsfInv, Holding
<1>4. Marred(k) \/ Returns(heap, k, p) BY <1>1, <1>3, Freed
<1>5. DOMAIN live' = DOMAIN live \ {p} /\ \A q \in DOMAIN live' : live'[q] = live[q]
  BY <1>2
<1>6. heap'.harmed \/ Holding(heap', live')
  <2>1. CASE Marred(k) BY <1>2, <2>1 DEF Marred
  <2>2. CASE Returns(heap, k, p)
    BY <1>2, <1>3, <1>5, <2>2 DEF Returns, Holding
  <2> QED BY <1>4, <2>1, <2>2
<1>7. live' \in [DOMAIN live' -> Requests]
  <2>1. \A q \in DOMAIN live' : live'[q] \in Requests BY <1>5 DEF TlsfInv
  <2>2. live' = [q \in DOMAIN live' |-> live'[q]] BY <1>2, <1>5
  <2> QED BY <2>1, <2>2
<1>8. TlsfInv' BY <1>2, <1>6, <1>7 DEF TlsfInv
<1>9. A!Free(p) BY <1>2 DEF A!Free, A!Restrict
<1> QED BY <1>8, <1>9 DEF A!Next

LEMMA TlsfReallocStep ==
  ASSUME TlsfInv, NEW p \in DOMAIN live, NEW size \in Sizes, Realloc(p, size), UNCHANGED built
  PROVE  TlsfInv' /\ [A!Next]_live
<1>1. PICK result : result = TlsfReallocate(heap, p, size) OBVIOUS
<1>2. PICK r : r = Request(size, Align) OBVIOUS
<1>3. r \in Requests /\ r.size = size /\ r.alignment = 4 BY <1>2, PlainRequest
<1>4. /\ ~ heap.harmed /\ heap' = result.heap /\ (Careful => ~ result.heap.harmed)
      /\ live' = IF result.block = NULL THEN live ELSE With(result.block, r, DOMAIN live \ {p})
  BY <1>1, <1>2 DEF Realloc, Obtain, Sound, Becomes
<1>5. Holding(heap, live) /\ Whole(heap, {}, {}) /\ Used(heap.blocks) = DOMAIN live
  BY <1>4 DEF TlsfInv, Holding
<1>6. PICK n : n = AdjustRequestSize(size) OBVIOUS
<1>7. n \in Nat /\ r.size <= n /\ r.size \in Nat BY <1>3, <1>6, RequestsAdjusted, RequestsAreSane
<1>8. Exchanged(heap, result, p, n) BY <1>1, <1>5, <1>6, Reallocated
<1>9. CASE result = [heap |-> heap, block |-> NULL] BY <1>4, <1>9 DEF TlsfInv
<1>10. CASE /\ result.block # NULL /\ (result.block = p \/ result.block \notin Used(heap.blocks))
            /\ Place(heap, result.block, n, Used(heap.blocks) \ {result.block})
            /\ Marred(result.heap) \/ Holds(heap, result.heap, p, result.block, n)
  <2>1. PICK k, b : k = result.heap /\ b = result.block OBVIOUS
  <2>2. /\ heap' = k /\ live' = With(b, r, DOMAIN live \ {p}) /\ (b = p \/ b \notin DOMAIN live)
        /\ Place(heap, b, n, DOMAIN live \ {b}) /\ (Marred(k) \/ Holds(heap, k, p, b, n))
    BY <1>4, <1>5, <1>10, <2>1
  <2>3. live' = [q \in (DOMAIN live \ {p}) \cup {b} |-> IF q = b THEN r ELSE live[q]]
    BY <2>2 DEF With
  <2>4. /\ DOMAIN live' = (DOMAIN live \ {p}) \cup {b} /\ live'[b] = r
        /\ \A q \in DOMAIN live' : q # b => q \in DOMAIN live \ {p, b} /\ live'[q] = live[q]
    BY <2>3
  <2>5. heap'.harmed \/ Holding(heap', live')
    <3>1. CASE Marred(k) BY <2>2, <3>1 DEF Marred
    <3>2. CASE Holds(heap, k, p, b, n)
      <4>1. Whole(k, {}, {}) /\ Used(k.blocks) = DOMAIN live' BY <1>5, <2>4, <3>2 DEF Holds
      <4>2. ASSUME NEW q \in DOMAIN live' PROVE live'[q].size <= k.blocks[q].size
        <5>1. CASE q = b
          <6>1. b \in InnerBlocks(k.blocks) BY <4>1, <4>2, <5>1 DEF Used
          <6>2. k.blocks[b].size \in 1 .. PoolBytes BY <4>1, <6>1, TiledFacts DEF Whole
          <6>3. k.blocks[b].size \in Nat /\ n <= k.blocks[b].size
            BY <3>2, <6>2, PoolSizes DEF Holds
          <6> QED BY <1>7, <2>4, <5>1, <6>3
        <5>2. CASE q # b
          BY <1>5, <2>4, <3>2, <4>2, <5>2 DEF Holds, Holding
        <5> QED BY <5>1, <5>2
      <4> QED BY <2>2, <4>1, <4>2 DEF Holding
    <3> QED BY <2>2, <3>1, <3>2
  <2>6. live' \in [DOMAIN live' -> Requests]
    <3>1. \A q \in DOMAIN live' : live'[q] \in Requests BY <1>3, <2>4 DEF TlsfInv
    <3> QED BY <2>3, <2>4, <3>1
  <2>7. TlsfInv' BY <1>4, <2>5, <2>6 DEF TlsfInv
  <2>8. A!Aligned(b, r.alignment) BY <1>3, <2>2, AlignedByFour DEF Place
  <2>9. A!Usable(b, r, DOMAIN live \ {b})
    <3>1. PICK S : S = DOMAIN live \ {b} OBVIOUS
    <3>2. S \subseteq DOMAIN live /\ Place(heap, b, n, S) BY <2>2, <3>1
    <3>3. A!Usable(b, r, S) BY <1>3, <1>4, <1>7, <2>8, <3>2, PlaceIsUsable
    <3> QED BY <3>1, <3>3
  <2>10. A!Usable(b, r, DOMAIN live \ (IF b = p THEN {p} ELSE {}))
    <3>1. DOMAIN live \ (IF b = p THEN {p} ELSE {}) = DOMAIN live \ {b} BY <2>2
    <3> QED BY <2>9, <3>1
  <2>11. live' = A!With(b, live'[b], DOMAIN live \ {p}) BY <2>3, <2>4 DEF A!With
  <2>12. A!Realloc(p, b) BY <1>3, <2>2, <2>4, <2>10, <2>11 DEF A!Realloc
  <2>13. b \in DOMAIN live' BY <2>4
  <2> QED BY <2>7, <2>12, <2>13 DEF A!Next
<1> QED BY <1>8, <1>9, <1>10 DEF Exchanged

LEMMA TlsfStep ==
  ASSUME TlsfInv, [AllocNext]_allocVars
  PROVE  TlsfInv' /\ [A!Next]_live
<1>1. CASE UNCHANGED allocVars BY <1>1 DEF allocVars, TlsfInv
<1>2. CASE TlsfCall
  <2> USE <1>2 DEF TlsfCall
  <2>1. ASSUME NEW size \in Sizes, Malloc(size) PROVE TlsfInv' /\ [A!Next]_live
    BY <2>1, TlsfMallocStep
  <2>2. ASSUME NEW size \in Sizes, NEW a \in Alignments, Memalign(a, size)
        PROVE  TlsfInv' /\ [A!Next]_live
    BY <2>2, TlsfMemalignStep
  <2>3. ASSUME NEW p \in DOMAIN live, Free(p) PROVE TlsfInv' /\ [A!Next]_live
    BY <2>3, TlsfFreeStep
  <2>4. ASSUME NEW p \in DOMAIN live, NEW size \in Sizes, Realloc(p, size)
        PROVE  TlsfInv' /\ [A!Next]_live
    BY <2>4, TlsfReallocStep
  <2> QED BY <2>1, <2>2, <2>3, <2>4 DEF Next
<1>3. CASE NaiveCall BY <1>3 DEF NaiveCall, TlsfInv
<1> QED BY <1>1, <1>2, <1>3 DEF AllocNext

-----------------------------------------------------------------------------
(* The theorems.                                                            *)

AllocInv == TlsfInv \/ NaiveInv

LEMMA AllocStarts == AllocInit => AllocInv /\ A!Init
<1> SUFFICES ASSUME AllocInit PROVE AllocInv /\ A!Init
  OBVIOUS
<1>1. heap = Pool /\ live = [p \in {} |-> 0]
  BY DEF AllocInit, BuiltTlsf, BuiltNaive, Init, Naive!Init
<1>2. live \in [DOMAIN live -> Requests] /\ DOMAIN live = {} BY <1>1
<1>3. CASE BuiltTlsf
  <2>1. built = "tlsf" BY <1>3 DEF BuiltTlsf
  <2>2. Holding(heap, live) BY <1>1, <1>2, PoolIsWhole DEF Holding
  <2>3. ~ heap.harmed BY <1>1, PoolIsWhole DEF Whole
  <2> QED BY <1>1, <1>2, <2>1, <2>2, <2>3 DEF AllocInv, TlsfInv, A!Init
<1>4. CASE BuiltNaive
  <2>1. built = "naive" /\ poolStart = NaiveBegin BY <1>4 DEF BuiltNaive, Naive!Init
  <2> QED BY <1>1, <1>2, <2>1, Constants DEF AllocInv, NaiveInv, A!Init
<1> QED BY <1>3, <1>4 DEF AllocInit

LEMMA AllocStep == AllocInv /\ [AllocNext]_allocVars => AllocInv' /\ [A!Next]_live
BY TlsfStep, NaiveStep DEF AllocInv

(* While no client harms it the heap is whole, in either build.             *)
LEMMA CarefulHeap ==
  ASSUME AllocInv, Careful
  PROVE  /\ Whole(heap, {}, {}) /\ live \in [DOMAIN live -> Requests]
         /\ built = "tlsf" => Holding(heap, live)
BY PoolIsWhole DEF AllocInv, TlsfInv, NaiveInv, Holding

LEMMA HoldingLosesNothing == ASSUME Holding(heap, live) PROVE NothingLost
<1> DEFINE B == heap.blocks
<1>1. Blocks = InnerBlocks(B) /\ Blocks \ FreeBlocks = Used(B)
  BY DEF Blocks, InnerBlocks, FreeBlocks, Used
<1>2. Whole(heap, {}, {}) /\ Used(B) = DOMAIN live BY DEF Holding
<1>3. ASSUME NEW p \in DOMAIN live PROVE heap.blocks[p].size >= live[p].size
  BY DEF Holding
<1>4. live = [p \in {} |-> 0] => Blocks = {FirstBlock}
  <2> HAVE live = [p \in {} |-> 0]
  <2>1. Used(B) = {} BY <1>2
  <2> QED BY <1>1, <1>2, <2>1, NothingUsed
<1> QED BY <1>1, <1>2, <1>3, <1>4 DEF NothingLost

LEMMA AllocInvariant == AllocSpec => []AllocInv
BY AllocStarts, AllocStep, PTL DEF AllocSpec

(* The heap is always a record of its blocks, list heads and bitmaps.       *)
THEOREM HeapTypeOK == Careful => (AllocSpec => []TypeOK)
<1> SUFFICES ASSUME Careful PROVE AllocSpec => []TypeOK
  OBVIOUS
<1>1. AllocInv => TypeOK
  <2> SUFFICES ASSUME AllocInv PROVE TypeOK
    OBVIOUS
  <2>1. HeapOK(heap) /\ live \in [DOMAIN live -> Requests] BY CarefulHeap DEF Whole
  <2>2. /\ heap.blocks \in [DOMAIN heap.blocks -> Header]
        /\ heap.head \in [Classes -> Nat] /\ heap.fl \in SUBSET Nat
        /\ heap.sl \in SUBSET Classes /\ heap.failed \in BOOLEAN /\ heap.harmed \in BOOLEAN
    BY <2>1, HeapFields
  <2> QED BY <2>1, <2>2 DEF TypeOK, Header
<1> QED BY <1>1, AllocInvariant, PTL

(* The blocks of the pool lie one behind the other from the first to the    *)
(* sentinel, each knows of the one before it if that is free, no two free   *)
(* blocks are neighbours, and no ASSERT of tlsf.c fails: what               *)
(* integrityHeapWalker looks for, for every pool and whatever is asked for  *)
(* in whatever order.                                                       *)
THEOREM HeapStaysPhysicallySound == Careful => (AllocSpec => []PhysicallySound)
<1> SUFFICES ASSUME Careful PROVE AllocSpec => []PhysicallySound
  OBVIOUS
<1>1. AllocInv => PhysicallySound BY CarefulHeap, WholeIsSound
<1> QED BY <1>1, AllocInvariant, PTL

(* Every list of free blocks ends, and has the free blocks of its class and *)
(* no others; the two levels of bitmaps tell which lists have blocks: what  *)
(* tlsfCheckHeapIntegrity looks for.                                        *)
THEOREM FreeListsStaySound == Careful => (AllocSpec => []ListsSound)
<1> SUFFICES ASSUME Careful PROVE AllocSpec => []ListsSound
  OBVIOUS
<1>1. AllocInv => ListsSound BY CarefulHeap, WholeIsListed
<1> QED BY <1>1, AllocInvariant, PTL

(* The blocks in use are those that clients hold, as large as asked for,    *)
(* and a pool that everything came back to is one free block again.         *)
THEOREM MemoryIsNeverLost == Careful => (AllocSpec => []TlsfNothingLost)
<1> SUFFICES ASSUME Careful PROVE AllocSpec => []TlsfNothingLost
  OBVIOUS
<1>1. AllocInv => TlsfNothingLost
  BY CarefulHeap, HoldingLosesNothing DEF TlsfNothingLost
<1> QED BY <1>1, AllocInvariant, PTL

(* A request is served exactly if a class all of whose blocks are large     *)
(* enough has a free block, and from the smallest such class: the two words *)
(* of bitmaps that searchSuitableBlock looks at are enough to find it.      *)
THEOREM RequestsFitWell == Careful => (AllocSpec => []GoodFit)
<1> SUFFICES ASSUME Careful PROVE AllocSpec => []GoodFit
  OBVIOUS
<1>1. AllocInv => GoodFit BY CarefulHeap, WholeFitsWell
<1> QED BY <1>1, AllocInvariant, PTL

(* With either allocator the hypervisor gets what Allocator promises:       *)
(* memory in the pool, aligned as asked, and apart from all that is still   *)
(* held.  That holds up to and with the step in which a client harms the    *)
(* heap of tlsf.c, so it needs no careful clients.                          *)
THEOREM AllocatorsImplementAllocator == AllocSpec => ImplementsAllocator
BY AllocStarts, AllocStep, PTL DEF AllocSpec, ImplementsAllocator, A!Spec
=============================================================================
