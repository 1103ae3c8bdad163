-------------------------- MODULE ArithmeticLemmas --------------------------
(***************************************************************************)
(* Facts about quotients, remainders and products that the proofs about    *)
(* the ring's slots, the registers of a BAR and the pixels of a target     *)
(* share.                                                                  *)
(***************************************************************************)
EXTENDS Integers, TLAPS

\* Division with remainder, in the form the lemmas below use.
LEMMA DivMod ==
  ASSUME NEW B \in Nat \ {0}, NEW a \in Nat
  PROVE  /\ a % B \in 0 .. B - 1
         /\ a \div B \in Nat
         /\ a = B * (a \div B) + (a % B)
  BY Z3

\* A positive multiple of B is at least B.
LEMMA MulGap ==
  ASSUME NEW B \in Nat \ {0}, NEW k \in Int, k > 0
  PROVE  B * k >= B
  BY Z3

\* Quotient and remainder are unique.
LEMMA UniqueDivMod ==
  ASSUME NEW B \in Nat \ {0}, NEW x \in Int, NEW y \in Int,
         NEW r \in 0 .. B - 1, NEW s \in 0 .. B - 1,
         B * x + r = B * y + s
  PROVE  x = y /\ r = s
<1>1. CASE x > y
  <2>1. B * (x - y) >= B  BY <1>1, MulGap
  <2>2. B * (x - y) = B * x - B * y  BY Z3
  <2>3. QED  BY <2>1, <2>2
<1>2. CASE x < y
  <2>1. B * (y - x) >= B  BY <1>2, MulGap
  <2>2. B * (y - x) = B * y - B * x  BY Z3
  <2>3. QED  BY <2>1, <2>2
<1>3. QED  BY <1>1, <1>2

\* So they can be read off a sum.
LEMMA DivModOf ==
  ASSUME NEW B \in Nat \ {0}, NEW q \in Nat, NEW r \in 0 .. B - 1
  PROVE  (B * q + r) \div B = q /\ (B * q + r) % B = r
<1> DEFINE a == B * q + r
<1>1. a \in Nat
  <2>1. B * q \in Nat  OBVIOUS
  <2>2. QED  BY <2>1
<1> HIDE DEF a
<1>2. a % B \in 0 .. B - 1 /\ a \div B \in Nat /\ a = B * (a \div B) + (a % B)
  BY <1>1, DivMod
<1>3. B * (a \div B) + (a % B) = B * q + r  BY <1>2 DEF a
<1> DEFINE x == a \div B
           s == a % B
<1>4. x \in Int /\ s \in 0 .. B - 1 /\ B * x + s = B * q + r  BY <1>2, <1>3
<1> HIDE DEF x, s
<1>5. x = q /\ s = r  BY <1>4, UniqueDivMod
<1>6. QED  BY <1>5 DEF x, s, a

\* The quotient does not decrease.
LEMMA DivMonotone ==
  ASSUME NEW B \in Nat \ {0}, NEW a \in Nat, NEW b \in Nat, a <= b
  PROVE  a \div B <= b \div B
<1> DEFINE x == a \div B
           y == b \div B
           r == a % B
           s == b % B
<1>1. a = B * x + r /\ x \in Nat /\ r \in 0 .. B - 1  BY DivMod
<1>2. b = B * y + s /\ y \in Nat /\ s \in 0 .. B - 1  BY DivMod
<1> HIDE DEF x, y, r, s
<1>3. SUFFICES ASSUME x > y PROVE FALSE  BY <1>1, <1>2 DEF x, y
<1>4. B * (x - y) >= B  BY <1>1, <1>2, <1>3, MulGap
<1>5. B * (x - y) = B * x - B * y  BY <1>1, <1>2, Z3
<1>6. B * x \in Int /\ B * y \in Int  BY <1>1, <1>2
<1>7. QED  BY <1>1, <1>2, <1>4, <1>5, <1>6
=============================================================================
