----------------------------- MODULE BitsProofs -----------------------------
(***************************************************************************)
(* Induction over the naturals as a property of sets of naturals, the      *)
(* functions it justifies, and what the operators of Bits compute for      *)
(* every number and every width.                                           *)
(***************************************************************************)
EXTENDS Bits, WellFoundedInduction, TLAPS

LEMMA LeastNumber ==
  ASSUME NEW T, T \subseteq Nat, T # {}
  PROVE  \E m \in T : \A k \in T : m <= k
<1> DEFINE R == OpToRel(<, Nat)
<1>1. IsWellFoundedOn(R, Nat)
  BY NatLessThanWellFounded
<1>2. \A x, y \in Nat : x < y => <<x, y>> \in R
  BY DEF OpToRel
<1> HIDE DEF R
<1>3. PICK x \in T : \A y \in T : <<y, x>> \notin R
  BY <1>1, WFMin
<1>4. \A y \in T : ~ (y < x) /\ y \in Nat /\ x \in Nat
  BY <1>2, <1>3
<1>5. \A y \in T : x <= y
  BY <1>4
<1> QED
  BY <1>5

\* A set that holds 0 and the successor of each of its numbers holds them all.
LEMMA SetInduction ==
  ASSUME NEW T, 0 \in T, \A n \in Nat : n \in T => n + 1 \in T
  PROVE  Nat \subseteq T
<1> DEFINE U == {n \in Nat : n \notin T}
<1> SUFFICES ASSUME U # {} PROVE FALSE
  OBVIOUS
<1>1. U \subseteq Nat
  OBVIOUS
<1> HIDE DEF U
<1>2. PICK m \in U : \A k \in U : m <= k
  BY <1>1, LeastNumber
<1>3. m # 0 /\ m - 1 \in Nat /\ m - 1 \notin U
  BY <1>2 DEF U
<1> QED
  BY <1>2, <1>3 DEF U

\* Primitive recursion: a first number and a step define a function on Nat.
LEMMA PrimitiveRecursion ==
  ASSUME NEW first \in Int, NEW step \in [Nat -> [Int -> Int]]
  PROVE  \E f \in [Nat -> Int] :
           f[0] = first /\ \A n \in Nat \ {0} : f[n] = step[n][f[n - 1]]
<1> DEFINE Upto(n, g) == /\ g \in [0 .. n -> Int]
                         /\ g[0] = first
                         /\ \A i \in 1 .. n : g[i] = step[i][g[i - 1]]
           T == {n \in Nat : \E g : Upto(n, g)}
<1>1. Nat \subseteq T
  <2>1. 0 \in T
    <3>1. Upto(0, [i \in 0 .. 0 |-> first])
      OBVIOUS
    <3> QED
      BY <3>1
  <2>2. ASSUME NEW n \in Nat, n \in T
        PROVE  n + 1 \in T
    <3>1. PICK g : Upto(n, g)
      BY <2>2
    <3> DEFINE h == [i \in 0 .. n + 1 |-> IF i = n + 1 THEN step[n + 1][g[n]] ELSE g[i]]
    <3>2. h \in [0 .. n + 1 -> Int]
      <4>1. n + 1 \in Nat /\ g[n] \in Int /\ \A i \in 0 .. n : g[i] \in Int
        BY <3>1
      <4>2. step[n + 1][g[n]] \in Int
        BY <4>1
      <4> QED
        BY <4>1, <4>2
    <3>3. h[0] = first
      BY <3>1
    <3>4. ASSUME NEW i \in 1 .. n + 1
          PROVE  h[i] = step[i][h[i - 1]]
      <4>1. i - 1 \in 0 .. n + 1 /\ i - 1 # n + 1 /\ h[i - 1] = g[i - 1]
        OBVIOUS
      <4>2. CASE i = n + 1
        BY <4>1, <4>2
      <4>3. CASE i # n + 1
        <5>1. i \in 1 .. n /\ h[i] = g[i]
          BY <4>3
        <5> QED
          BY <3>1, <4>1, <5>1
      <4> QED
        BY <4>2, <4>3
    <3>5. Upto(n + 1, h)
      BY <3>2, <3>3, <3>4
    <3> HIDE DEF h, Upto
    <3> QED
      BY <3>5
  <2> HIDE DEF T
  <2> QED
    BY <2>1, <2>2, SetInduction
<1>2. ASSUME NEW m \in Nat, NEW n \in Nat, NEW g, NEW h, Upto(m, g), Upto(n, h)
      PROVE  \A i \in 0 .. m : i \in 0 .. n => g[i] = h[i]
  <2> DEFINE S == {i \in Nat : i \in 0 .. m /\ i \in 0 .. n => g[i] = h[i]}
  <2>1. 0 \in S
    BY <1>2
  <2>2. ASSUME NEW i \in Nat, i \in S
        PROVE  i + 1 \in S
    <3> SUFFICES ASSUME i + 1 \in 0 .. m, i + 1 \in 0 .. n
                 PROVE  g[i + 1] = h[i + 1]
      OBVIOUS
    <3>1. g[i] = h[i]
      BY <2>2
    <3>2. i + 1 \in 1 .. m /\ i + 1 \in 1 .. n /\ (i + 1) - 1 = i
      OBVIOUS
    <3>3. g[i + 1] = step[i + 1][g[i]] /\ h[i + 1] = step[i + 1][h[i]]
      BY <1>2, <3>2
    <3> QED
      BY <3>1, <3>3
  <2>3. Nat \subseteq S
    <3> HIDE DEF S
    <3> QED
      BY <2>1, <2>2, SetInduction
  <2> QED
    BY <2>3
<1> DEFINE G(n) == CHOOSE g : Upto(n, g)
           f == [n \in Nat |-> G(n)[n]]
<1>3. \A n \in Nat : Upto(n, G(n))
  BY <1>1
<1> HIDE DEF G, T
<1>4. f \in [Nat -> Int]
  BY <1>3
<1>5. f[0] = first
  BY <1>3
<1>6. ASSUME NEW n \in Nat \ {0}
      PROVE  f[n] = step[n][f[n - 1]]
  <2>1. n - 1 \in Nat /\ Upto(n, G(n)) /\ Upto(n - 1, G(n - 1))
    BY <1>3
  <2>2. G(n - 1)[n - 1] = G(n)[n - 1]
    <3>1. \A i \in 0 .. n - 1 : i \in 0 .. n => G(n - 1)[i] = G(n)[i]
      <4> HIDE DEF Upto
      <4> QED
        BY <1>2, <2>1
    <3> QED
      BY <3>1
  <2>3. G(n)[n] = step[n][G(n)[n - 1]]
    BY <2>1
  <2> QED
    BY <2>1, <2>2, <2>3
<1> HIDE DEF f
<1> QED
  BY <1>4, <1>5, <1>6

-----------------------------------------------------------------------------
LEMMA PowDef ==
  /\ Pow[0] = 1
  /\ \A b \in Nat : Pow[b + 1] = 2 * Pow[b]
  /\ \A b \in Nat : Pow[b] \in Nat \ {0}
<1> DEFINE Def(p) == p = [b \in Nat |-> IF b = 0 THEN 1 ELSE 2 * p[b - 1]]
           step   == [b \in Nat |-> [v \in Int |-> 2 * v]]
<1>1. step \in [Nat -> [Int -> Int]]
  OBVIOUS
<1>2. PICK f \in [Nat -> Int] :
         f[0] = 1 /\ \A b \in Nat \ {0} : f[b] = step[b][f[b - 1]]
  <2>1. 1 \in Int
    OBVIOUS
  <2> HIDE DEF step
  <2> QED
    BY <1>1, <2>1, PrimitiveRecursion
<1>3. Def(f)
  <2>1. \A b \in Nat \ {0} : f[b - 1] \in Int /\ step[b][f[b - 1]] = 2 * f[b - 1]
    OBVIOUS
  <2>2. f = [b \in Nat |-> f[b]]
    OBVIOUS
  <2> HIDE DEF step
  <2> QED
    BY <1>2, <2>1, <2>2
<1>4. Pow = CHOOSE p : Def(p)
  BY DEF Pow
<1>5. Def(Pow)
  <2> HIDE DEF Def
  <2> QED
    BY <1>3, <1>4
<1>6. Pow[0] = 1
  BY <1>5
<1>7. ASSUME NEW b \in Nat
      PROVE  Pow[b + 1] = 2 * Pow[b]
  BY <1>5
<1> DEFINE T == {b \in Nat : Pow[b] \in Nat \ {0}}
<1>8. Nat \subseteq T
  <2>1. 0 \in T /\ \A b \in Nat : b \in T => b + 1 \in T
    BY <1>6, <1>7
  <2> HIDE DEF T
  <2> QED
    BY <2>1, SetInduction
<1> QED
  BY <1>6, <1>7, <1>8

LEMMA ShiftedDef ==
  ASSUME NEW x \in Nat
  PROVE  /\ Shifted(x)[0] = x
         /\ \A b \in Nat : Shifted(x)[b + 1] = Shifted(x)[b] \div 2
         /\ \A b \in Nat : Shifted(x)[b] \in Nat
<1> DEFINE Def(s) == s = [b \in Nat |-> IF b = 0 THEN x ELSE s[b - 1] \div 2]
           step   == [b \in Nat |-> [v \in Int |-> v \div 2]]
<1>1. step \in [Nat -> [Int -> Int]]
  OBVIOUS
<1>2. PICK f \in [Nat -> Int] :
         f[0] = x /\ \A b \in Nat \ {0} : f[b] = step[b][f[b - 1]]
  <2>1. x \in Int
    OBVIOUS
  <2> HIDE DEF step
  <2> QED
    BY <1>1, <2>1, PrimitiveRecursion
<1>3. Def(f)
  <2>1. \A b \in Nat \ {0} : f[b - 1] \in Int /\ step[b][f[b - 1]] = f[b - 1] \div 2
    OBVIOUS
  <2>2. f = [b \in Nat |-> f[b]]
    OBVIOUS
  <2> HIDE DEF step
  <2> QED
    BY <1>2, <2>1, <2>2
<1>4. Shifted(x) = CHOOSE s : Def(s)
  BY DEF Shifted
<1>5. Def(Shifted(x))
  <2> HIDE DEF Def
  <2> QED
    BY <1>3, <1>4
<1>6. Shifted(x)[0] = x
  BY <1>5
<1>7. ASSUME NEW b \in Nat
      PROVE  Shifted(x)[b + 1] = Shifted(x)[b] \div 2
  BY <1>5
<1> DEFINE T == {b \in Nat : Shifted(x)[b] \in Nat}
<1>8. Nat \subseteq T
  <2>1. 0 \in T /\ \A b \in Nat : b \in T => b + 1 \in T
    BY <1>6, <1>7
  <2> HIDE DEF T
  <2> QED
    BY <2>1, SetInduction
<1> QED
  BY <1>6, <1>7, <1>8

\* Shifting by one more is shifting the half.
LEMMA ShiftedHalf ==
  ASSUME NEW x \in Nat, NEW b \in Nat
  PROVE  Shifted(x)[b + 1] = Shifted(x \div 2)[b]
<1> DEFINE T == {c \in Nat : Shifted(x)[c + 1] = Shifted(x \div 2)[c]}
<1>1. x \div 2 \in Nat
  OBVIOUS
<1>2. 0 \in T
  <2>1. Shifted(x)[0 + 1] = x \div 2 /\ Shifted(x \div 2)[0] = x \div 2
    BY <1>1, ShiftedDef
  <2> QED
    BY <2>1
<1>3. ASSUME NEW c \in Nat, c \in T
      PROVE  c + 1 \in T
  <2>1. /\ Shifted(x)[(c + 1) + 1] = Shifted(x)[c + 1] \div 2
        /\ Shifted(x \div 2)[c + 1] = Shifted(x \div 2)[c] \div 2
    BY <1>1, ShiftedDef
  <2> QED
    BY <1>3, <2>1
<1>4. Nat \subseteq T
  <2> HIDE DEF T
  <2> QED
    BY <1>2, <1>3, SetInduction
<1> QED
  BY <1>4

\* The bits of 2y + c: the lowest is c, the others are those of y.
LEMMA BitsOfDouble ==
  ASSUME NEW y \in Nat, NEW c \in {0, 1}
  PROVE  /\ HasBit(2 * y + c, 0) <=> c = 1
         /\ \A b \in Nat : HasBit(2 * y + c, b + 1) <=> HasBit(y, b)
<1>1. 2 * y + c \in Nat /\ (2 * y + c) \div 2 = y /\ (2 * y + c) % 2 = c
  OBVIOUS
<1>2. \A b \in Nat : Shifted(2 * y + c)[b + 1] = Shifted(y)[b]
  BY <1>1, ShiftedHalf
<1>3. Shifted(2 * y + c)[0] = 2 * y + c
  BY <1>1, ShiftedDef
<1> QED
  BY <1>1, <1>2, <1>3 DEF HasBit

LEMMA BitsOfHalf ==
  ASSUME NEW x \in Nat
  PROVE  /\ HasBit(x, 0) <=> x % 2 = 1
         /\ \A b \in Nat : HasBit(x, b + 1) <=> HasBit(x \div 2, b)
BY ShiftedDef, ShiftedHalf DEF HasBit

\* Two numbers of w bits are equal when their bits are.
LEMMA BitsDetermine ==
  ASSUME NEW w \in Nat, NEW x \in UInt(w), NEW y \in UInt(w),
         \A b \in 0 .. w - 1 : HasBit(x, b) <=> HasBit(y, b)
  PROVE  x = y
<1> DEFINE Same(n, u, v) == \A b \in 0 .. n - 1 : HasBit(u, b) <=> HasBit(v, b)
           T == {n \in Nat : \A u, v \in UInt(n) : Same(n, u, v) => u = v}
<1>1. 0 \in T
  BY PowDef DEF UInt
<1>2. ASSUME NEW n \in Nat, n \in T
      PROVE  n + 1 \in T
  <2> SUFFICES ASSUME NEW u \in UInt(n + 1), NEW v \in UInt(n + 1), Same(n + 1, u, v)
               PROVE  u = v
    OBVIOUS
  <2>1. Pow[n + 1] = 2 * Pow[n] /\ Pow[n] \in Nat
    BY PowDef
  <2>2. /\ u \in Nat /\ u \div 2 \in UInt(n)
        /\ v \in Nat /\ v \div 2 \in UInt(n)
    BY <2>1 DEF UInt
  <2>3. u % 2 = v % 2
    <3>1. HasBit(u, 0) <=> HasBit(v, 0)
      OBVIOUS
    <3> QED
      BY <3>1, <2>2, BitsOfHalf
  <2>4. Same(n, u \div 2, v \div 2)
    <3> TAKE b \in 0 .. n - 1
    <3>1. b \in Nat /\ b + 1 \in 0 .. (n + 1) - 1
      OBVIOUS
    <3>2. HasBit(u, b + 1) <=> HasBit(v, b + 1)
      BY <3>1
    <3> QED
      BY <3>1, <3>2, <2>2, BitsOfHalf
  <2>5. u \div 2 = v \div 2
    BY <1>2, <2>2, <2>4
  <2> QED
    BY <2>2, <2>3, <2>5
<1>3. w \in T
  <2> HIDE DEF T
  <2> QED
    BY <1>1, <1>2, SetInduction
<1> QED
  BY <1>3

\* Number has the bits it was given, and is a number of w bits.
LEMMA NumberBits ==
  ASSUME NEW w \in Nat, NEW B
  PROVE  /\ Number(B, w) \in UInt(w)
         /\ \A b \in 0 .. w - 1 : HasBit(Number(B, w), b) <=> b \in B
<1> DEFINE Digit(k) == IF w - k \in B THEN 1 ELSE 0
           Def(t) == t = [k \in Nat |-> IF k = 0 THEN 0 ELSE 2 * t[k - 1] + Digit(k)]
           step   == [k \in Nat |-> [v \in Int |-> 2 * v + Digit(k)]]
           top    == CHOOSE t : Def(t)
<1>0. \A k \in Nat : Digit(k) \in {0, 1}
  OBVIOUS
<1>1. step \in [Nat -> [Int -> Int]]
  OBVIOUS
<1>2. PICK f \in [Nat -> Int] :
         f[0] = 0 /\ \A k \in Nat \ {0} : f[k] = step[k][f[k - 1]]
  <2>1. 0 \in Int
    OBVIOUS
  <2> HIDE DEF step
  <2> QED
    BY <1>1, <2>1, PrimitiveRecursion
<1>3. Def(f)
  <2>1. \A k \in Nat \ {0} : f[k - 1] \in Int /\ step[k][f[k - 1]] = 2 * f[k - 1] + Digit(k)
    OBVIOUS
  <2>2. f = [k \in Nat |-> f[k]]
    OBVIOUS
  <2> HIDE DEF step, Digit
  <2> QED
    BY <1>2, <2>1, <2>2
<1>4. Number(B, w) = top[w]
  BY DEF Number
<1>5. Def(top)
  <2> HIDE DEF Def
  <2> QED
    BY <1>3
<1> HIDE DEF top, Digit
<1>6. top[0] = 0 /\ \A k \in Nat : top[k + 1] = 2 * top[k] + Digit(k + 1)
  BY <1>5
<1> DEFINE T == {k \in Nat : /\ top[k] \in UInt(k)
                             /\ k <= w => \A b \in 0 .. k - 1 :
                                             HasBit(top[k], b) <=> (w - k) + b \in B}
<1>7. 0 \in T
  BY <1>6, PowDef DEF UInt
<1>8. ASSUME NEW k \in Nat, k \in T
      PROVE  k + 1 \in T
  <2>1. /\ Pow[k + 1] = 2 * Pow[k] /\ Pow[k] \in Nat
        /\ top[k] \in UInt(k) /\ top[k] \in Nat
        /\ top[k + 1] = 2 * top[k] + Digit(k + 1) /\ Digit(k + 1) \in {0, 1}
    BY <1>0, <1>6, <1>8, PowDef DEF UInt
  <2>2. top[k + 1] \in UInt(k + 1)
    BY <2>1 DEF UInt
  <2>3. ASSUME k + 1 <= w, NEW b \in 0 .. (k + 1) - 1
        PROVE  HasBit(top[k + 1], b) <=> (w - (k + 1)) + b \in B
    <3>1. CASE b = 0
      <4>1. HasBit(top[k + 1], 0) <=> Digit(k + 1) = 1
        <5>1. HasBit(2 * top[k] + Digit(k + 1), 0) <=> Digit(k + 1) = 1
          BY <2>1, BitsOfDouble
        <5> QED
          BY <2>1, <5>1
      <4>2. Digit(k + 1) = 1 <=> (w - (k + 1)) + 0 \in B
        BY DEF Digit
      <4> QED
        BY <3>1, <4>1, <4>2
    <3>2. CASE b # 0
      <4>1. b - 1 \in 0 .. k - 1 /\ b - 1 \in Nat /\ b = (b - 1) + 1 /\ k <= w
            /\ (w - k) + (b - 1) = (w - (k + 1)) + b
        BY <2>3, <3>2
      <4>2. HasBit(top[k], b - 1) <=> (w - k) + (b - 1) \in B
        BY <1>8, <4>1
      <4>3. HasBit(2 * top[k] + Digit(k + 1), (b - 1) + 1) <=> HasBit(top[k], b - 1)
        BY <2>1, <4>1, BitsOfDouble
      <4> QED
        BY <2>1, <4>1, <4>2, <4>3
    <3> QED
      BY <3>1, <3>2
  <2> QED
    BY <2>2, <2>3
<1>9. w \in T
  <2> HIDE DEF T
  <2> QED
    BY <1>7, <1>8, SetInduction
<1> QED
  BY <1>4, <1>9

\* A number of w bits is the number of its bits.
LEMMA NumberOfBits ==
  ASSUME NEW w \in Nat, NEW x \in UInt(w), NEW B,
         \A b \in 0 .. w - 1 : HasBit(x, b) <=> b \in B
  PROVE  Number(B, w) = x
BY NumberBits, BitsDetermine

\* & and | on the bits of their operands.
LEMMA BitAndBits ==
  ASSUME NEW w \in Nat, NEW x, NEW y
  PROVE  /\ BitAnd(x, y, w) \in UInt(w)
         /\ \A b \in 0 .. w - 1 :
              HasBit(BitAnd(x, y, w), b) <=> HasBit(x, b) /\ HasBit(y, b)
BY NumberBits DEF BitAnd

LEMMA BitOrBits ==
  ASSUME NEW w \in Nat, NEW x, NEW y
  PROVE  /\ BitOr(x, y, w) \in UInt(w)
         /\ \A b \in 0 .. w - 1 :
              HasBit(BitOr(x, y, w), b) <=> HasBit(x, b) \/ HasBit(y, b)
BY NumberBits DEF BitOr
=============================================================================
