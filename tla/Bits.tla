-------------------------------- MODULE Bits --------------------------------
(***************************************************************************)
(* Unsigned numbers of w bits: what &, | and the prefix masks of C do to   *)
(* them.  The functions are recursive over the naturals, halving or        *)
(* doubling, so that BitsProofs can reason about every width.              *)
(***************************************************************************)
EXTENDS Integers

Pow[b \in Nat] == IF b = 0 THEN 1 ELSE 2 * Pow[b - 1]

\* The values of an unsigned type of w bits.
UInt(w) == 0 .. Pow[w] - 1

\* x >> b, for every b.
Shifted(x) == LET s[b \in Nat] == IF b = 0 THEN x ELSE s[b - 1] \div 2 IN s

HasBit(x, b) == Shifted(x)[b] % 2 = 1

\* The number of w bits in which exactly the bits in B are set.
Number(B, w) ==
  LET top[k \in Nat] == IF k = 0 THEN 0
                        ELSE 2 * top[k - 1] + (IF w - k \in B THEN 1 ELSE 0)
  IN top[w]

BitAnd(x, y, w) == Number({b \in 0 .. w - 1 : HasBit(x, b) /\ HasBit(y, b)}, w)
BitOr(x, y, w)  == Number({b \in 0 .. w - 1 : HasBit(x, b) \/ HasBit(y, b)}, w)
=============================================================================
