-------------------------- MODULE RefCompareProofs --------------------------
(***************************************************************************)
(* Proofs about RefCompare and RefRender: for targets, triangles, textures *)
(* and readbacks of every size.                                            *)
(***************************************************************************)
EXTENDS RefCompare, ArithmeticLemmas, FiniteSetTheorems, WellFoundedInduction, TLAPS

-----------------------------------------------------------------------------
(* Colours.                                                                *)

\* One of four numbers is the largest.
LEMMA LargestOfFour ==
  ASSUME NEW f \in [1 .. 4 -> Int]
  PROVE  \E k \in 1 .. 4 : \A j \in 1 .. 4 : f[j] <= f[k]
<1>1. \A j \in 1 .. 4 : j = 1 \/ j = 2 \/ j = 3 \/ j = 4  OBVIOUS
<1>2. PICK m \in 1 .. 2 : f[1] <= f[m] /\ f[2] <= f[m]  OBVIOUS
<1>3. PICK n \in 3 .. 4 : f[3] <= f[n] /\ f[4] <= f[n]  OBVIOUS
<1>4. PICK k \in {m, n} : f[m] <= f[k] /\ f[n] <= f[k]  OBVIOUS
<1>5. k \in 1 .. 4 /\ f[1] <= f[k] /\ f[2] <= f[k] /\ f[3] <= f[k] /\ f[4] <= f[k]
  BY <1>2, <1>3, <1>4
<1>6. QED  BY <1>1, <1>5

\* maxChannelDelta is at most t when every channel is.
LEMMA DeltaFacts ==
  ASSUME NEW a \in [1 .. 4 -> Int], NEW b \in [1 .. 4 -> Int]
  PROVE  /\ MaxChannelDelta(a, b) \in Nat
         /\ \A t \in Int : MaxChannelDelta(a, b) <= t <=> \A k \in 1 .. 4 : Abs(a[k] - b[k]) <= t
<1> DEFINE f == [k \in 1 .. 4 |-> Abs(a[k] - b[k])]
           deltas == {Abs(a[k] - b[k]) : k \in DOMAIN a}
           d == MaxChannelDelta(a, b)
<1>1. \A k \in 1 .. 4 : Abs(a[k] - b[k]) \in Nat  BY DEF Abs
<1>2. f \in [1 .. 4 -> Int] /\ \A k \in 1 .. 4 : f[k] = Abs(a[k] - b[k])  BY <1>1
<1>3. deltas = {f[k] : k \in 1 .. 4}  OBVIOUS
<1> HIDE DEF f
<1>4. PICK k \in 1 .. 4 : \A j \in 1 .. 4 : f[j] <= f[k]  BY <1>2, LargestOfFour
<1>5. f[k] \in deltas /\ \A e \in deltas : e <= f[k]  BY <1>3, <1>4
<1> HIDE DEF deltas
<1>6. d \in deltas /\ \A e \in deltas : e <= d
  <2>1. d = CHOOSE x \in deltas : \A e \in deltas : e <= x  BY DEF MaxChannelDelta, deltas
  <2>2. QED  BY <1>5, <2>1
<1> HIDE DEF d
<1>7. d \in Nat  BY <1>1, <1>2, <1>3, <1>6
<1>8. ASSUME NEW t \in Int PROVE d <= t <=> \A j \in 1 .. 4 : f[j] <= t
  <2>1. ASSUME d <= t, NEW j \in 1 .. 4 PROVE f[j] <= t
    <3>1. f[j] \in deltas /\ f[j] <= d /\ f[j] \in Int  BY <1>2, <1>3, <1>6
    <3>2. QED  BY <1>7, <2>1, <3>1
  <2>2. ASSUME \A j \in 1 .. 4 : f[j] <= t PROVE d <= t
    BY <1>3, <1>6, <2>2
  <2>3. QED  BY <2>1, <2>2
<1>9. QED  BY <1>2, <1>7, <1>8 DEF d
-----------------------------------------------------------------------------
(* Textures.                                                               *)

\* Division with remainder, of numbers of either sign.
LEMMA IntDivMod ==
  ASSUME NEW B \in Nat \ {0}, NEW a \in Int
  PROVE  /\ a % B \in 0 .. B - 1
         /\ a \div B \in Int
         /\ a = B * (a \div B) + (a % B)
  BY Z3

\* Products keep an order.
LEMMA MulMonotone ==
  ASSUME NEW m \in Nat, NEW x \in Int, NEW y \in Int, x <= y
  PROVE  x * m <= y * m
<1>1. (y - x) * m >= 0  BY Z3
<1>2. (y - x) * m = y * m - x * m  BY Z3
<1>3. x * m \in Int /\ y * m \in Int  OBVIOUS
<1>4. QED  BY <1>1, <1>2, <1>3

\* A mean of two numbers with weights m - i and i.
LEMMA MeanInRange ==
  ASSUME NEW m \in Nat, NEW i \in 0 .. m, NEW lo \in Int, NEW hi \in Int,
         NEW a \in Int, NEW b \in Int, lo <= a, lo <= b, a <= hi, b <= hi
  PROVE  /\ a * (m - i) + b * i \in Int
         /\ lo * m <= a * (m - i) + b * i /\ a * (m - i) + b * i <= hi * m
<1>1. m - i \in Nat /\ i \in Nat  OBVIOUS
<1>2. lo * (m - i) <= a * (m - i) /\ a * (m - i) <= hi * (m - i)  BY <1>1, MulMonotone
<1>3. lo * i <= b * i /\ b * i <= hi * i  BY <1>1, MulMonotone
<1>4. lo * (m - i) + lo * i = lo * m /\ hi * (m - i) + hi * i = hi * m  BY Z3
<1> DEFINE u == a * (m - i)
           v == b * i
           l1 == lo * (m - i)
           l2 == lo * i
           h1 == hi * (m - i)
           h2 == hi * i
           l == lo * m
           h == hi * m
<1>5. /\ u \in Int /\ v \in Int /\ l1 \in Int /\ l2 \in Int
      /\ h1 \in Int /\ h2 \in Int /\ l \in Int /\ h \in Int
  OBVIOUS
<1>6. l1 <= u /\ u <= h1 /\ l2 <= v /\ v <= h2 /\ l1 + l2 = l /\ h1 + h2 = h  BY <1>2, <1>3, <1>4
<1> HIDE DEF u, v, l1, l2, h1, h2, l, h
<1>7. u + v \in Int /\ l <= u + v /\ u + v <= h  BY <1>5, <1>6
<1>8. QED  BY <1>7 DEF u, v, l, h

\* Rounding a quotient keeps it between two whole numbers.
LEMMA RoundInRange ==
  ASSUME NEW D \in Nat \ {0}, NEW n \in Int, NEW lo \in Int, NEW hi \in Int,
         lo * D <= n, n <= hi * D
  PROVE  (2 * n + D) \div (2 * D) \in lo .. hi
<1> DEFINE q == (2 * n + D) \div (2 * D)
           r == (2 * n + D) % (2 * D)
<1>1. /\ r \in 0 .. 2 * D - 1 /\ q \in Int /\ 2 * n + D = (2 * D) * q + r
  <2>1. 2 * D \in Nat \ {0} /\ 2 * n + D \in Int  OBVIOUS
  <2>2. QED  BY <2>1, IntDivMod
<1> HIDE DEF q, r
<1> DEFINE x == q * D
           l == lo * D
           h == hi * D
<1>2. x \in Int /\ l \in Int /\ h \in Int  BY <1>1
<1>3. (2 * D) * q = 2 * x  BY <1>1, Z3
<1>4. l <= n /\ n <= h  OBVIOUS
<1>5. ~(q < lo)
  <2>1. SUFFICES ASSUME q < lo PROVE FALSE  OBVIOUS
  <2>2. (q + 1) * D <= l  BY <1>1, <2>1, MulMonotone
  <2>3. (q + 1) * D = x + D  BY <1>1, Z3
  <2> HIDE DEF x, l, h
  <2>4. QED  BY <1>1, <1>2, <1>3, <1>4, <2>2, <2>3
<1>6. ~(q > hi)
  <2>1. SUFFICES ASSUME q > hi PROVE FALSE  OBVIOUS
  <2>2. (hi + 1) * D <= x  BY <1>1, <2>1, MulMonotone
  <2>3. (hi + 1) * D = h + D  BY Z3
  <2> HIDE DEF x, l, h
  <2>4. QED  BY <1>1, <1>2, <1>3, <1>4, <2>2, <2>3
<1>7. QED  BY <1>1, <1>5, <1>6 DEF q

\* The blend of the four taps, rounded: no darker than the darkest tap and no
\* brighter than the brightest.
LEMMA BlendInRange ==
  ASSUME NEW dd \in Nat \ {0}, NEW dx \in 0 .. dd - 1, NEW dy \in 0 .. dd - 1,
         NEW lo \in 0 .. 255, NEW hi \in 0 .. 255,
         NEW a \in lo .. hi, NEW b \in lo .. hi, NEW c \in lo .. hi, NEW e \in lo .. hi
  PROVE  RoundUnit((a * (dd - dx) + b * dx) * (dd - dy) + (c * (dd - dx) + e * dx) * dy, dd * dd)
           \in lo .. hi
<1> DEFINE top == a * (dd - dx) + b * dx
           bottom == c * (dd - dx) + e * dx
           n == top * (dd - dy) + bottom * dy
           D == dd * dd
<1>1. dx \in 0 .. dd /\ dy \in 0 .. dd /\ dd \in Nat  OBVIOUS
<1>2. top \in Int /\ lo * dd <= top /\ top <= hi * dd
  BY <1>1, MeanInRange
<1>3. bottom \in Int /\ lo * dd <= bottom /\ bottom <= hi * dd
  BY <1>1, MeanInRange
<1> HIDE DEF top, bottom
<1>4. n \in Int /\ (lo * dd) * dd <= n /\ n <= (hi * dd) * dd
  <2>1. lo * dd \in Int /\ hi * dd \in Int  OBVIOUS
  <2>2. QED  BY <1>1, <1>2, <1>3, <2>1, MeanInRange
<1>5. (lo * dd) * dd = lo * D /\ (hi * dd) * dd = hi * D  BY Z3
<1>6. D \in Nat \ {0}  BY Z3
<1> HIDE DEF n, D
<1>7. (2 * n + D) \div (2 * D) \in lo .. hi  BY <1>4, <1>5, <1>6, RoundInRange
<1>8. RoundUnit(n, D) = (2 * n + D) \div (2 * D)
  BY <1>7 DEF RoundUnit, Clamp
<1>9. QED  BY <1>7, <1>8 DEF n, D, top, bottom

\* Clamping.
LEMMA ClampInRange ==
  ASSUME NEW x \in Int, NEW lo \in Int, NEW hi \in Int, lo <= hi
  PROVE  Clamp(x, lo, hi) \in lo .. hi
  BY DEF Clamp

\* The channels are only reordered.
LEMMA SwizzleFacts ==
  ASSUME NEW k \in 1 .. 4
  PROVE  \E m \in 1 .. 4 : \A c : Swizzle(c)[k] = c[m]
<1>1. k = 1 \/ k = 2 \/ k = 3 \/ k = 4  OBVIOUS
<1>2. \A c : Swizzle(c)[1] = c[3] /\ Swizzle(c)[2] = c[2] /\ Swizzle(c)[3] = c[1] /\ Swizzle(c)[4] = c[4]
  BY DEF Swizzle
<1>3. QED  BY <1>1, <1>2

\* Channel k of a colour lies between those of two texels.
BetweenTexels(tex, c, k) ==
  \E x1, x2 \in 0 .. tex.w - 1, y1, y2 \in 0 .. tex.h - 1 :
    tex.texel[x1][y1][k] <= c[k] /\ c[k] <= tex.texel[x2][y2][k]

\* So does every channel of a sample, before the reordering.
LEMMA TapsInRange ==
  ASSUME NEW tex, IsTexture(tex), NEW un \in Int, NEW vn \in Int, NEW d \in Nat \ {0}, NEW filter
  PROVE  \E raw \in Colours :
           /\ Sample(tex, un, vn, d, filter) = Swizzle(raw)
           /\ \A k \in 1 .. 4 : BetweenTexels(tex, raw, k)
<1> DEFINE w == tex.w
           h == tex.h
           T == tex.texel
           X == 0 .. w - 1
           Y == 0 .. h - 1
           cx(x) == Clamp(x, 0, w - 1)
           cy(y) == Clamp(y, 0, h - 1)
           Between(c, k) == \E x1, x2 \in X, y1, y2 \in Y : T[x1][y1][k] <= c[k] /\ c[k] <= T[x2][y2][k]
<1>1. w \in Nat \ {0} /\ h \in Nat \ {0} /\ T \in [X -> [Y -> Colours]]
  BY DEF IsTexture, Colours
<1> SUFFICES \E raw \in Colours : /\ Sample(tex, un, vn, d, filter) = Swizzle(raw)
                                  /\ \A k \in 1 .. 4 : Between(raw, k)
  BY DEF BetweenTexels
<1> HIDE DEF w, h, T
<1>2. \A x \in Int : cx(x) \in X  BY <1>1 DEF Clamp
<1>3. \A y \in Int : cy(y) \in Y  BY <1>1 DEF Clamp
<1> HIDE DEF X, Y
<1>4. \A x \in X, y \in Y : T[x][y] \in Colours  BY <1>1
<1>8. \A c \in Colours, k \in 1 .. 4 : c[k] \in 0 .. 255  BY DEF Colours
<1>5. CASE filter = "nearest"
  <2> DEFINE x == cx((un * w) \div d)
             y == cy((vn * h) \div d)
  <2>1. x \in X /\ y \in Y
    <3>1. un * w \in Int /\ vn * h \in Int  BY <1>1
    <3>2. (un * w) \div d \in Int /\ (vn * h) \div d \in Int  BY <3>1, IntDivMod
    <3>3. QED  BY <1>2, <1>3, <3>2
  <2>2. Sample(tex, un, vn, d, filter) = Swizzle(T[x][y])  BY <1>5 DEF Sample, T, w, h
  <2> HIDE DEF x, y
  <2>3. T[x][y] \in Colours  BY <1>4, <2>1
  <2>4. \A c \in Colours, k \in 1 .. 4 : c[k] <= c[k]
    <3>1. \A b \in 0 .. 255 : b <= b  OBVIOUS
    <3>2. QED  BY <1>8, <3>1
  <2>5. \A k \in 1 .. 4 : Between(T[x][y], k)  BY <2>1, <2>3, <2>4
  <2>6. QED  BY <2>2, <2>3, <2>5
<1>6. CASE filter # "nearest"
  <2> DEFINE dd == 2 * d
             fx == 2 * un * w - d
             fy == 2 * vn * h - d
             x0 == fx \div dd
             y0 == fy \div dd
             dx == fx % dd
             dy == fy % dd
             tap(i, j) == T[cx(x0 + i)][cy(y0 + j)]
             blend(k) == (tap(0, 0)[k] * (dd - dx) + tap(1, 0)[k] * dx) * (dd - dy)
                           + (tap(0, 1)[k] * (dd - dx) + tap(1, 1)[k] * dx) * dy
             raw == [k \in 1 .. 4 |-> RoundUnit(blend(k), dd * dd)]
  <2>1. Sample(tex, un, vn, d, filter) = Swizzle(raw)  BY <1>6 DEF Sample, T, w, h
  <2>2. dd \in Nat \ {0} /\ x0 \in Int /\ y0 \in Int /\ dx \in 0 .. dd - 1 /\ dy \in 0 .. dd - 1
    <3>1. dd \in Nat \ {0}  OBVIOUS
    <3>2. fx \in Int /\ fy \in Int  BY <1>1
    <3> HIDE DEF dd, fx, fy
    <3>3. QED  BY <3>1, <3>2, IntDivMod
  <2> HIDE DEF dd, x0, y0, dx, dy
  <2>3. \A i, j \in 0 .. 1 : cx(x0 + i) \in X /\ cy(y0 + j) \in Y  BY <1>2, <1>3, <2>2
  <2>4. ASSUME NEW k \in 1 .. 4
        PROVE  raw[k] \in 0 .. 255 /\ Between(raw, k)
    <3> DEFINE f == <<tap(0, 0)[k], tap(1, 0)[k], tap(0, 1)[k], tap(1, 1)[k]>>
               g == [i \in 1 .. 4 |-> -f[i]]
    <3>1. /\ tap(0, 0)[k] \in 0 .. 255 /\ tap(1, 0)[k] \in 0 .. 255
          /\ tap(0, 1)[k] \in 0 .. 255 /\ tap(1, 1)[k] \in 0 .. 255
      <4>1. tap(0, 0) \in Colours /\ tap(1, 0) \in Colours /\ tap(0, 1) \in Colours /\ tap(1, 1) \in Colours
        BY <1>4, <2>3
      <4> HIDE DEF tap
      <4>2. QED  BY <1>8, <4>1
    <3>2. /\ f[1] = tap(0, 0)[k] /\ f[2] = tap(1, 0)[k] /\ f[3] = tap(0, 1)[k] /\ f[4] = tap(1, 1)[k]
      OBVIOUS
    <3>3. f \in [1 .. 4 -> 0 .. 255]
      <4> HIDE DEF tap
      <4>1. QED  BY <3>1
    <3>4. \A i \in 1 .. 4 : \E x \in X, y \in Y : f[i] = T[x][y][k]
      <4>1. \A i \in 1 .. 4 : i = 1 \/ i = 2 \/ i = 3 \/ i = 4  OBVIOUS
      <4> HIDE DEF f
      <4> DEFINE Tap(v) == \E x \in X, y \in Y : v = T[x][y][k]
      <4>2. \A i, j \in 0 .. 1 : Tap(tap(i, j)[k])  BY <2>3
      <4>3. Tap(tap(0, 0)[k]) /\ Tap(tap(1, 0)[k]) /\ Tap(tap(0, 1)[k]) /\ Tap(tap(1, 1)[k])
        <5> HIDE DEF Tap, tap
        <5>1. QED  BY <4>2
      <4> HIDE DEF Tap, tap
      <4>4. \A i \in 1 .. 4 : Tap(f[i])  BY <3>2, <4>1, <4>3
      <4>5. QED  BY <4>4 DEF Tap
    <3> HIDE DEF f
    <3>5. g \in [1 .. 4 -> Int] /\ \A i \in 1 .. 4 : g[i] = -f[i]  BY <3>3
    <3>15. \A j \in 1 .. 4 : f[j] \in Int /\ f[j] \in 0 .. 255  BY <3>3
    <3> HIDE DEF g
    <3>6. PICK t \in 1 .. 4 : \A j \in 1 .. 4 : f[j] <= f[t]  BY <3>3, LargestOfFour
    <3>7. PICK l \in 1 .. 4 : \A j \in 1 .. 4 : g[j] <= g[l]  BY <3>5, LargestOfFour
    <3>8. \A j \in 1 .. 4 : f[j] \in f[l] .. f[t]
      <4>1. ASSUME NEW j \in 1 .. 4 PROVE f[j] \in f[l] .. f[t]
        <5>1. f[j] \in Int /\ f[l] \in Int /\ f[t] \in Int  BY <3>15
        <5>2. g[j] = -f[j] /\ g[l] = -f[l]  BY <3>5
        <5>3. g[j] <= g[l] /\ f[j] <= f[t]  BY <3>6, <3>7
        <5>4. QED  BY <5>1, <5>2, <5>3
      <4>2. QED  BY <4>1
    <3>9. RoundUnit((f[1] * (dd - dx) + f[2] * dx) * (dd - dy) + (f[3] * (dd - dx) + f[4] * dx) * dy, dd * dd)
            \in f[l] .. f[t]
      <4>1. f[l] \in 0 .. 255 /\ f[t] \in 0 .. 255  BY <3>15
      <4>2. f[1] \in f[l] .. f[t] /\ f[2] \in f[l] .. f[t] /\ f[3] \in f[l] .. f[t] /\ f[4] \in f[l] .. f[t]
        BY <3>8
      <4>3. QED  BY <2>2, <4>1, <4>2, BlendInRange, Zenon
    <3>10. raw[k] = RoundUnit((f[1] * (dd - dx) + f[2] * dx) * (dd - dy) + (f[3] * (dd - dx) + f[4] * dx) * dy, dd * dd)
      BY <3>2
    <3> HIDE DEF raw
    <3>11. raw[k] \in f[l] .. f[t]  BY <3>9, <3>10
    <3>12. raw[k] \in 0 .. 255 /\ f[l] <= raw[k] /\ raw[k] <= f[t]
      <4>1. f[l] \in 0 .. 255 /\ f[t] \in 0 .. 255  BY <3>15
      <4>2. \A a, b \in 0 .. 255 : \A c \in a .. b : c \in 0 .. 255 /\ a <= c /\ c <= b  OBVIOUS
      <4>3. QED  BY <3>11, <4>1, <4>2, ZenonT(40)
    <3>13. Between(raw, k)
      <4>1. PICK x1 \in X, y1 \in Y : f[l] = T[x1][y1][k]  BY <3>4
      <4>2. PICK x2 \in X, y2 \in Y : f[t] = T[x2][y2][k]  BY <3>4
      <4>3. QED  BY <3>12, <4>1, <4>2
    <3>14. QED  BY <3>12, <3>13
  <2>5. raw \in Colours  BY <2>4 DEF Colours
  <2> HIDE DEF raw
  <2>6. QED  BY <2>1, <2>4, <2>5
<1>7. QED  BY <1>5, <1>6

\* sample returns a colour whose channels lie between those of two texels.
LEMMA SampleInRange ==
  ASSUME NEW tex, IsTexture(tex), NEW un \in Int, NEW vn \in Int, NEW d \in Nat \ {0}, NEW filter
  PROVE  LET s == Sample(tex, un, vn, d, filter)
         IN /\ s \in Colours
            /\ \A k \in 1 .. 4 : \E x1, x2 \in 0 .. tex.w - 1, y1, y2 \in 0 .. tex.h - 1 :
                 /\ Swizzle(tex.texel[x1][y1])[k] <= s[k]
                 /\ s[k] <= Swizzle(tex.texel[x2][y2])[k]
<1> DEFINE s == Sample(tex, un, vn, d, filter)
<1> HIDE DEF s
<1>1. PICK raw \in Colours :
        /\ s = Swizzle(raw)
        /\ \A k \in 1 .. 4 : BetweenTexels(tex, raw, k)
  BY TapsInRange DEF s
<1>2. s \in Colours
  <2>1. raw[1] \in 0 .. 255 /\ raw[2] \in 0 .. 255 /\ raw[3] \in 0 .. 255 /\ raw[4] \in 0 .. 255
    BY DEF Colours
  <2>2. s = <<raw[3], raw[2], raw[1], raw[4]>>  BY <1>1 DEF Swizzle
  <2>3. QED  BY <2>1, <2>2 DEF Colours
<1>3. ASSUME NEW k \in 1 .. 4
      PROVE  \E x1, x2 \in 0 .. tex.w - 1, y1, y2 \in 0 .. tex.h - 1 :
               Swizzle(tex.texel[x1][y1])[k] <= s[k] /\ s[k] <= Swizzle(tex.texel[x2][y2])[k]
  <2>1. PICK m \in 1 .. 4 : \A c : Swizzle(c)[k] = c[m]  BY SwizzleFacts
  <2>2. PICK x1, x2 \in 0 .. tex.w - 1, y1, y2 \in 0 .. tex.h - 1 :
          tex.texel[x1][y1][m] <= raw[m] /\ raw[m] <= tex.texel[x2][y2][m]
    BY <1>1 DEF BetweenTexels
  <2>3. s[k] = raw[m]  BY <1>1, <2>1
  <2>4. QED  BY <2>1, <2>2, <2>3
<1>4. QED  BY <1>2, <1>3 DEF s

-----------------------------------------------------------------------------
(* Triangles.                                                              *)

Points == [1 .. 2 -> Int]

\* The signed area keeps its value when the corners are rotated and changes
\* its sign when two are swapped.
LEMMA EdgeTurns ==
  ASSUME NEW a \in Points, NEW b \in Points, NEW c \in Points
  PROVE  /\ Edge(a, b, c) \in Int
         /\ Edge(b, c, a) = Edge(a, b, c)
         /\ Edge(b, a, c) = -Edge(a, b, c)
<1> DEFINE ax == a[1] ay == a[2] bx == b[1] by == b[2] cx == c[1] cy == c[2]
<1>1. ax \in Int /\ ay \in Int /\ bx \in Int /\ by \in Int /\ cx \in Int /\ cy \in Int  BY DEF Points
<1>2. /\ Edge(a, b, c) = (bx - ax) * (cy - ay) - (by - ay) * (cx - ax)
      /\ Edge(b, c, a) = (cx - bx) * (ay - by) - (cy - by) * (ax - bx)
      /\ Edge(b, a, c) = (ax - bx) * (cy - by) - (ay - by) * (cx - bx)
  BY DEF Edge
<1> HIDE DEF ax, ay, bx, by, cx, cy
<1>3. (bx - ax) * (cy - ay) - (by - ay) * (cx - ax) \in Int  BY <1>1
<1>4. (cx - bx) * (ay - by) - (cy - by) * (ax - bx) = (bx - ax) * (cy - ay) - (by - ay) * (cx - ax)
  BY <1>1, Z3
<1>5. (ax - bx) * (cy - by) - (ay - by) * (cx - bx) = -((bx - ax) * (cy - ay) - (by - ay) * (cx - ax))
  BY <1>1, Z3
<1>6. QED  BY <1>2, <1>3, <1>4, <1>5

\* Pixel centres and the vertices in the window are points of the lattice.
LEMMA LatticeFacts ==
  /\ \A p \in Pixels : Col(p) \in 0 .. W - 1 /\ Row(p) \in Nat /\ Centre(p) \in Points
  /\ \A v \in Points : Window(v) \in Points
<1>1. W \in Nat \ {0} /\ H \in Nat \ {0}  BY TargetAssumption
<1>2. ASSUME NEW p \in Pixels PROVE Col(p) \in 0 .. W - 1 /\ Row(p) \in Nat /\ Centre(p) \in Points
  <2>1. p \in Nat
    <3>1. W * H \in Nat  BY <1>1
    <3>2. QED  BY <3>1 DEF Pixels
  <2>2. Col(p) \in 0 .. W - 1 /\ Row(p) \in Nat  BY <1>1, <2>1, DivMod DEF Col, Row
  <2>3. 2 * Col(p) + 1 \in Int /\ 2 * Row(p) + 1 \in Int  BY <1>1, <2>2
  <2>4. Centre(p) = <<2 * Col(p) + 1, 2 * Row(p) + 1>>  BY DEF Centre
  <2>5. QED  BY <2>2, <2>3, <2>4 DEF Points
<1>3. ASSUME NEW v \in Points PROVE Window(v) \in Points
  <2>1. W * (v[1] + 2) \in Int /\ H * (v[2] + 2) \in Int  BY <1>1 DEF Points
  <2>2. (W * (v[1] + 2)) \div 2 \in Int /\ (H * (v[2] + 2)) \div 2 \in Int
    <3> DEFINE x == W * (v[1] + 2)
               y == H * (v[2] + 2)
    <3> HIDE DEF x, y
    <3>1. x \in Int /\ y \in Int  BY <2>1 DEF x, y
    <3>2. x \div 2 \in Int /\ y \div 2 \in Int  BY <3>1
    <3>3. QED  BY <3>2 DEF x, y
  <2>3. QED  BY <2>2 DEF Window, Points
<1>4. QED  BY <1>2, <1>3

\* The edge functions of a pixel and the area, for a triangle of clip space.
LEMMA WeightFacts ==
  ASSUME NEW v \in [1 .. 3 -> Points], NEW p \in Pixels
  PROVE  LET t == InWindow(v)
             w == Weights(t, p)
         IN /\ t[1] \in Points /\ t[2] \in Points /\ t[3] \in Points
            /\ Area(t) \in Int /\ w[1] \in Int /\ w[2] \in Int /\ w[3] \in Int
            /\ Area(t) = Edge(t[1], t[2], t[3])
            /\ w[1] = Edge(t[2], t[3], Centre(p))
            /\ w[2] = Edge(t[3], t[1], Centre(p))
            /\ w[3] = Edge(t[1], t[2], Centre(p))
            /\ Inside(t, p) <=> \/ Area(t) > 0 /\ w[1] >= 0 /\ w[2] >= 0 /\ w[3] >= 0
                                \/ Area(t) < 0 /\ w[1] <= 0 /\ w[2] <= 0 /\ w[3] <= 0
<1> DEFINE t == InWindow(v)
           w == Weights(t, p)
           c == Centre(p)
<1>1. v[1] \in Points /\ v[2] \in Points /\ v[3] \in Points  OBVIOUS
<1>2. /\ t[1] = Window(v[1]) /\ t[2] = Window(v[2]) /\ t[3] = Window(v[3])
  BY DEF InWindow
<1>3. t[1] \in Points /\ t[2] \in Points /\ t[3] \in Points /\ c \in Points
  BY <1>1, <1>2, LatticeFacts
<1> HIDE DEF t
<1>4. w[1] = Edge(t[2], t[3], c) /\ w[2] = Edge(t[3], t[1], c) /\ w[3] = Edge(t[1], t[2], c)
  BY DEF Weights
<1>5. Area(t) = Edge(t[1], t[2], t[3])  BY DEF Area
<1>6. Area(t) \in Int /\ w[1] \in Int /\ w[2] \in Int /\ w[3] \in Int
  BY <1>3, <1>4, <1>5, EdgeTurns
<1>7. Inside(t, p) <=> \/ Area(t) > 0 /\ \A i \in 1 .. 3 : w[i] >= 0
                       \/ Area(t) < 0 /\ \A i \in 1 .. 3 : w[i] <= 0
  BY DEF Inside
<1> HIDE DEF w, c
<1>8. \A i \in 1 .. 3 : i = 1 \/ i = 2 \/ i = 3  OBVIOUS
<1>9. Inside(t, p) <=> \/ Area(t) > 0 /\ w[1] >= 0 /\ w[2] >= 0 /\ w[3] >= 0
                       \/ Area(t) < 0 /\ w[1] <= 0 /\ w[2] <= 0 /\ w[3] <= 0
  BY <1>7, <1>8
<1>10. QED  BY <1>3, <1>4, <1>5, <1>6, <1>9 DEF t, w, c

\* The same triangle with its corners rotated, and with two of them swapped.
LEMMA TurnedWeights ==
  ASSUME NEW v \in [1 .. 3 -> Points], NEW p \in Pixels
  PROVE  LET t == InWindow(v)
             r == InWindow(Rotated(v))
             m == InWindow(Mirrored(v))
             w == Weights(t, p)
         IN /\ Rotated(v) \in [1 .. 3 -> Points] /\ Mirrored(v) \in [1 .. 3 -> Points]
            /\ Area(r) = Area(t) /\ Area(m) = -Area(t)
            /\ Weights(r, p)[1] = w[2] /\ Weights(r, p)[2] = w[3] /\ Weights(r, p)[3] = w[1]
            /\ Weights(m, p)[1] = -w[1] /\ Weights(m, p)[2] = -w[3] /\ Weights(m, p)[3] = -w[2]
<1> DEFINE t == InWindow(v)
           r == InWindow(Rotated(v))
           m == InWindow(Mirrored(v))
           w == Weights(t, p)
           wr == Weights(r, p)
           wm == Weights(m, p)
           c == Centre(p)
<1>1. v[1] \in Points /\ v[2] \in Points /\ v[3] \in Points  OBVIOUS
<1>2. Rotated(v) \in [1 .. 3 -> Points] /\ Mirrored(v) \in [1 .. 3 -> Points]
  BY <1>1 DEF Rotated, Mirrored
<1>3. /\ r[1] = t[2] /\ r[2] = t[3] /\ r[3] = t[1]
      /\ m[1] = t[1] /\ m[2] = t[3] /\ m[3] = t[2]
  BY DEF InWindow, Rotated, Mirrored
<1>4. /\ t[1] \in Points /\ t[2] \in Points /\ t[3] \in Points
      /\ Area(t) = Edge(t[1], t[2], t[3])
      /\ w[1] = Edge(t[2], t[3], c) /\ w[2] = Edge(t[3], t[1], c) /\ w[3] = Edge(t[1], t[2], c)
  BY WeightFacts
<1>5. /\ Area(r) = Edge(r[1], r[2], r[3])
      /\ wr[1] = Edge(r[2], r[3], c) /\ wr[2] = Edge(r[3], r[1], c) /\ wr[3] = Edge(r[1], r[2], c)
  BY <1>2, WeightFacts
<1>6. /\ Area(m) = Edge(m[1], m[2], m[3])
      /\ wm[1] = Edge(m[2], m[3], c) /\ wm[2] = Edge(m[3], m[1], c) /\ wm[3] = Edge(m[1], m[2], c)
  BY <1>2, WeightFacts
<1>7. c \in Points  BY LatticeFacts
<1> HIDE DEF t, r, m, w, wr, wm, c
<1>8. Area(r) = Area(t) /\ wr[1] = w[2] /\ wr[2] = w[3] /\ wr[3] = w[1]
  BY <1>3, <1>4, <1>5, <1>7, EdgeTurns
<1>9. Area(m) = -Area(t)
  <2>1. /\ Edge(t[1], t[3], t[2]) = Edge(t[2], t[1], t[3])
        /\ Edge(t[2], t[1], t[3]) = -Edge(t[1], t[2], t[3])
    BY <1>4, EdgeTurns
  <2>2. QED  BY <1>3, <1>4, <1>6, <2>1
<1>10. wm[1] = -w[1] /\ wm[2] = -w[3] /\ wm[3] = -w[2]
  BY <1>3, <1>4, <1>6, <1>7, EdgeTurns
<1>11. QED  BY <1>2, <1>8, <1>9, <1>10 DEF t, r, m, w, wr, wm

\* rasterise does not depend on the winding.
LEMMA RasteriseTurned ==
  ASSUME NEW v \in [1 .. 3 -> Points]
  PROVE  Rasterise(v) = Rasterise(Rotated(v)) /\ Rasterise(v) = Rasterise(Mirrored(v))
<1>1. ASSUME NEW p \in Pixels
      PROVE  /\ Inside(InWindow(v), p) = Inside(InWindow(Rotated(v)), p)
             /\ Inside(InWindow(v), p) = Inside(InWindow(Mirrored(v)), p)
  <2> DEFINE t == InWindow(v)
             r == InWindow(Rotated(v))
             m == InWindow(Mirrored(v))
             w == Weights(t, p)
             wr == Weights(r, p)
             wm == Weights(m, p)
  <2>1. /\ Rotated(v) \in [1 .. 3 -> Points] /\ Mirrored(v) \in [1 .. 3 -> Points]
        /\ Area(r) = Area(t) /\ Area(m) = -Area(t)
        /\ wr[1] = w[2] /\ wr[2] = w[3] /\ wr[3] = w[1]
        /\ wm[1] = -w[1] /\ wm[2] = -w[3] /\ wm[3] = -w[2]
    BY TurnedWeights
  <2>2. /\ Area(t) \in Int /\ w[1] \in Int /\ w[2] \in Int /\ w[3] \in Int
        /\ Inside(t, p) <=> \/ Area(t) > 0 /\ w[1] >= 0 /\ w[2] >= 0 /\ w[3] >= 0
                            \/ Area(t) < 0 /\ w[1] <= 0 /\ w[2] <= 0 /\ w[3] <= 0
    BY WeightFacts
  <2>3. Inside(r, p) <=> \/ Area(r) > 0 /\ wr[1] >= 0 /\ wr[2] >= 0 /\ wr[3] >= 0
                         \/ Area(r) < 0 /\ wr[1] <= 0 /\ wr[2] <= 0 /\ wr[3] <= 0
    BY <2>1, WeightFacts
  <2>4. Inside(m, p) <=> \/ Area(m) > 0 /\ wm[1] >= 0 /\ wm[2] >= 0 /\ wm[3] >= 0
                         \/ Area(m) < 0 /\ wm[1] <= 0 /\ wm[2] <= 0 /\ wm[3] <= 0
    BY <2>1, WeightFacts
  <2>5. Inside(t, p) \in BOOLEAN /\ Inside(r, p) \in BOOLEAN /\ Inside(m, p) \in BOOLEAN
    BY DEF Inside
  <2> HIDE DEF t, r, m, w, wr, wm
  <2>6. (Inside(t, p) <=> Inside(r, p)) /\ (Inside(t, p) <=> Inside(m, p))
    BY <2>1, <2>2, <2>3, <2>4
  <2>7. QED  BY <2>5, <2>6 DEF t, r, m
<1>2. QED  BY <1>1 DEF Rasterise

\* The point of the texture that a pixel samples: its coordinates are
\* numerators over a positive denominator where the triangle has an area.
LEMMA TexColourIsSample ==
  ASSUME NEW v \in [1 .. 3 -> Points], NEW uv \in [1 .. 3 -> Points], NEW p \in Pixels,
         NEW tex, NEW filter, Area(InWindow(v)) # 0
  PROVE  LET t == InWindow(v)
             w == Weights(t, p)
             sign == IF Area(t) > 0 THEN 1 ELSE -1
             at(i) == sign * (w[1] * uv[1][i] + w[2] * uv[2][i] + w[3] * uv[3][i])
             d == 2 * sign * Area(t)
         IN at(1) \in Int /\ at(2) \in Int /\ d \in Nat \ {0}
            /\ TexColour(v, uv, tex, filter, p) = Sample(tex, at(1), at(2), d, filter)
<1> DEFINE t == InWindow(v)
           w == Weights(t, p)
           sign == IF Area(t) > 0 THEN 1 ELSE -1
           at(i) == sign * (w[1] * uv[1][i] + w[2] * uv[2][i] + w[3] * uv[3][i])
           d == 2 * sign * Area(t)
<1>1. Area(t) \in Int /\ Area(t) # 0 /\ w[1] \in Int /\ w[2] \in Int /\ w[3] \in Int
  BY WeightFacts
<1>2. \A i \in 1 .. 2 : uv[1][i] \in Int /\ uv[2][i] \in Int /\ uv[3][i] \in Int
  BY DEF Points
<1>3. TexColour(v, uv, tex, filter, p) = Sample(tex, at(1), at(2), d, filter)
  BY DEF TexColour
<1> HIDE DEF t, w
<1>4. sign \in Int /\ d \in Nat \ {0}  BY <1>1
<1> HIDE DEF sign
<1>5. \A i \in 1 .. 2 : at(i) \in Int  BY <1>1, <1>2, <1>4
<1>6. QED  BY <1>3, <1>4, <1>5 DEF t, w, sign

\* The sampled colours do not depend on the winding.
LEMMA TexColourTurned ==
  ASSUME NEW v \in [1 .. 3 -> Points], NEW uv \in [1 .. 3 -> Points], NEW p \in Pixels,
         NEW tex, NEW filter, Area(InWindow(v)) # 0
  PROVE  /\ TexColour(v, uv, tex, filter, p) = TexColour(Rotated(v), Rotated(uv), tex, filter, p)
         /\ TexColour(v, uv, tex, filter, p) = TexColour(Mirrored(v), Mirrored(uv), tex, filter, p)
<1> DEFINE A == Area(InWindow(v))
           w == Weights(InWindow(v), p)
           sign == IF A > 0 THEN 1 ELSE -1
           at(i) == sign * (w[1] * uv[1][i] + w[2] * uv[2][i] + w[3] * uv[3][i])
           Ar == Area(InWindow(Rotated(v)))
           wr == Weights(InWindow(Rotated(v)), p)
           ur == Rotated(uv)
           signr == IF Ar > 0 THEN 1 ELSE -1
           atr(i) == signr * (wr[1] * ur[1][i] + wr[2] * ur[2][i] + wr[3] * ur[3][i])
           Am == Area(InWindow(Mirrored(v)))
           wm == Weights(InWindow(Mirrored(v)), p)
           um == Mirrored(uv)
           signm == IF Am > 0 THEN 1 ELSE -1
           atm(i) == signm * (wm[1] * um[1][i] + wm[2] * um[2][i] + wm[3] * um[3][i])
<1>1. A \in Int /\ A # 0 /\ w[1] \in Int /\ w[2] \in Int /\ w[3] \in Int  BY WeightFacts
<1>2. \A i \in 1 .. 2 : uv[1][i] \in Int /\ uv[2][i] \in Int /\ uv[3][i] \in Int  BY DEF Points
<1>3. /\ Ar = A /\ wr[1] = w[2] /\ wr[2] = w[3] /\ wr[3] = w[1]
      /\ Am = -A /\ wm[1] = -w[1] /\ wm[2] = -w[3] /\ wm[3] = -w[2]
  BY TurnedWeights
<1>4. /\ ur[1] = uv[2] /\ ur[2] = uv[3] /\ ur[3] = uv[1]
      /\ um[1] = uv[1] /\ um[2] = uv[3] /\ um[3] = uv[2]
  BY DEF Rotated, Mirrored
<1>5. /\ TexColour(v, uv, tex, filter, p) = Sample(tex, at(1), at(2), 2 * sign * A, filter)
      /\ TexColour(Rotated(v), ur, tex, filter, p) = Sample(tex, atr(1), atr(2), 2 * signr * Ar, filter)
      /\ TexColour(Mirrored(v), um, tex, filter, p) = Sample(tex, atm(1), atm(2), 2 * signm * Am, filter)
  BY DEF TexColour
<1> HIDE DEF A, w, Ar, wr, ur, Am, wm, um
<1>6. signr = sign /\ signm = -sign /\ sign \in Int  BY <1>1, <1>3
<1> HIDE DEF sign, signr, signm
<1>7. 2 * signr * Ar = 2 * sign * A /\ 2 * signm * Am = 2 * sign * A
  <2>1. (-sign) * (-A) = sign * A  BY <1>1, <1>6, Z3
  <2>2. 2 * signm * Am = 2 * (-sign) * (-A)  BY <1>3, <1>6
  <2>3. 2 * (-sign) * (-A) = 2 * sign * A  BY <1>1, <1>6, Z3
  <2>4. QED  BY <1>3, <1>6, <2>2, <2>3
<1>8. ASSUME NEW i \in 1 .. 2 PROVE atr(i) = at(i) /\ atm(i) = at(i)
  <2> DEFINE w1 == w[1] w2 == w[2] w3 == w[3]
             u1 == uv[1][i] u2 == uv[2][i] u3 == uv[3][i]
  <2>1. /\ w1 \in Int /\ w2 \in Int /\ w3 \in Int /\ u1 \in Int /\ u2 \in Int /\ u3 \in Int
    BY <1>1, <1>2
  <2>2. /\ at(i) = sign * (w1 * u1 + w2 * u2 + w3 * u3)
        /\ atr(i) = sign * (w2 * u2 + w3 * u3 + w1 * u1)
        /\ atm(i) = (-sign) * ((-w1) * u1 + (-w3) * u3 + (-w2) * u2)
    BY <1>3, <1>4, <1>6
  <2> HIDE DEF w1, w2, w3, u1, u2, u3
  <2>3. sign * (w2 * u2 + w3 * u3 + w1 * u1) = sign * (w1 * u1 + w2 * u2 + w3 * u3)
    BY <1>6, <2>1, Z3
  <2>4. (-sign) * ((-w1) * u1 + (-w3) * u3 + (-w2) * u2) = sign * (w1 * u1 + w2 * u2 + w3 * u3)
    BY <1>6, <2>1, Z3
  <2>5. QED  BY <2>2, <2>3, <2>4
<1>9. atr(1) = at(1) /\ atr(2) = at(2) /\ atm(1) = at(1) /\ atm(2) = at(2)  BY <1>8
<1> HIDE DEF at, atr, atm
<1>10. QED  BY <1>5, <1>7, <1>9 DEF ur, um

\* The point halfway between two others lies halfway on their edge.
LEMMA HalfwayEdge ==
  ASSUME NEW a \in Points, NEW b \in Points, NEW m \in Points, NEW c \in Points,
         2 * m[1] = a[1] + b[1], 2 * m[2] = a[2] + b[2]
  PROVE  /\ 2 * Edge(a, m, c) = Edge(a, b, c)
         /\ 2 * Edge(m, b, c) = Edge(a, b, c)
<1> DEFINE ax == a[1] ay == a[2] bx == b[1] by == b[2] cx == c[1] cy == c[2] mx == m[1] my == m[2]
<1>1. /\ ax \in Int /\ ay \in Int /\ bx \in Int /\ by \in Int /\ cx \in Int /\ cy \in Int
      /\ mx \in Int /\ my \in Int
  BY DEF Points
<1>2. bx = 2 * mx - ax /\ by = 2 * my - ay  BY <1>1
<1>3. /\ Edge(a, m, c) = (mx - ax) * (cy - ay) - (my - ay) * (cx - ax)
      /\ Edge(m, b, c) = (bx - mx) * (cy - my) - (by - my) * (cx - mx)
      /\ Edge(a, b, c) = (bx - ax) * (cy - ay) - (by - ay) * (cx - ax)
  BY DEF Edge
<1> HIDE DEF ax, ay, bx, by, cx, cy, mx, my
<1>4. 2 * ((mx - ax) * (cy - ay) - (my - ay) * (cx - ax))
        = ((2 * mx - ax) - ax) * (cy - ay) - ((2 * my - ay) - ay) * (cx - ax)
  BY <1>1, Z3
<1>5. 2 * (((2 * mx - ax) - mx) * (cy - my) - ((2 * my - ay) - my) * (cx - mx))
        = ((2 * mx - ax) - ax) * (cy - ay) - ((2 * my - ay) - ay) * (cx - ax)
  BY <1>1, Z3
<1>6. QED  BY <1>2, <1>3, <1>4, <1>5

\* Viewport.window takes the middle of two vertices to the middle of their
\* images: the target's sides are even.
LEMMA WindowHalfway ==
  ASSUME NEW a \in Points, NEW b \in Points, NEW m \in Points,
         2 * m[1] = a[1] + b[1], 2 * m[2] = a[2] + b[2]
  PROVE  /\ 2 * Window(m)[1] = Window(a)[1] + Window(b)[1]
         /\ 2 * Window(m)[2] = Window(a)[2] + Window(b)[2]
<1>1. ASSUME NEW S \in Nat, S % 2 = 0
      PROVE  \E h \in Nat : \A x \in Int : (S * (x + 2)) \div 2 = h * (x + 2)
  <2>1. PICK h \in Nat : S = 2 * h  BY <1>1
  <2>2. ASSUME NEW x \in Int PROVE (S * (x + 2)) \div 2 = h * (x + 2)
    <3> DEFINE y == h * (x + 2)
    <3>1. S * (x + 2) = 2 * y /\ y \in Int  BY <2>1, Z3
    <3> HIDE DEF y
    <3>2. (2 * y) \div 2 = y  BY <3>1
    <3>3. QED  BY <3>1, <3>2 DEF y
  <2>3. QED  BY <2>2
<1>2. PICK g \in Nat : \A x \in Int : (W * (x + 2)) \div 2 = g * (x + 2)
  BY <1>1, TargetAssumption
<1>3. PICK h \in Nat : \A x \in Int : (H * (x + 2)) \div 2 = h * (x + 2)
  BY <1>1, TargetAssumption
<1> DEFINE ax == a[1] ay == a[2] bx == b[1] by == b[2] mx == m[1] my == m[2]
<1>4. /\ ax \in Int /\ ay \in Int /\ bx \in Int /\ by \in Int /\ mx \in Int /\ my \in Int
  BY DEF Points
<1>5. bx = 2 * mx - ax /\ by = 2 * my - ay  BY <1>4
<1>6. /\ Window(a)[1] = g * (ax + 2) /\ Window(b)[1] = g * (bx + 2) /\ Window(m)[1] = g * (mx + 2)
      /\ Window(a)[2] = h * (ay + 2) /\ Window(b)[2] = h * (by + 2) /\ Window(m)[2] = h * (my + 2)
  BY <1>2, <1>3, <1>4 DEF Window
<1> HIDE DEF ax, ay, bx, by, mx, my
<1>7. 2 * (g * (mx + 2)) = g * (ax + 2) + g * ((2 * mx - ax) + 2)  BY <1>4, Z3
<1>8. 2 * (h * (my + 2)) = h * (ay + 2) + h * ((2 * my - ay) + 2)  BY <1>4, Z3
<1>9. QED  BY <1>5, <1>6, <1>7, <1>8

\* A pixel inside a triangle is inside one of the halves into which a line
\* from the middle of its first edge divides it.
LEMMA SplitCovers ==
  ASSUME NEW v \in [1 .. 3 -> Points], NEW m \in Points, NEW p \in Pixels,
         2 * m[1] = v[1][1] + v[2][1], 2 * m[2] = v[1][2] + v[2][2],
         Inside(InWindow(v), p)
  PROVE  \/ Inside(InWindow(<<v[1], m, v[3]>>), p)
         \/ Inside(InWindow(<<m, v[2], v[3]>>), p)
<1> DEFINE A == Window(v[1])
           B == Window(v[2])
           C == Window(v[3])
           M == Window(m)
           P == Centre(p)
           vl == <<v[1], m, v[3]>>
           vr == <<m, v[2], v[3]>>
           t == InWindow(v)
           l == InWindow(vl)
           r == InWindow(vr)
<1>1. v[1] \in Points /\ v[2] \in Points /\ v[3] \in Points  OBVIOUS
<1>2. vl \in [1 .. 3 -> Points] /\ vr \in [1 .. 3 -> Points]  BY <1>1
<1>3. A \in Points /\ B \in Points /\ C \in Points /\ M \in Points /\ P \in Points
  BY <1>1, LatticeFacts
<1>4. /\ t[1] = A /\ t[2] = B /\ t[3] = C /\ l[1] = A /\ l[2] = M /\ l[3] = C
      /\ r[1] = M /\ r[2] = B /\ r[3] = C
  BY DEF InWindow
<1>5. 2 * M[1] = A[1] + B[1] /\ 2 * M[2] = A[2] + B[2]  BY <1>1, WindowHalfway
<1>6. LET w == Weights(t, p)
      IN /\ Area(t) = Edge(t[1], t[2], t[3]) /\ w[1] = Edge(t[2], t[3], P)
         /\ w[2] = Edge(t[3], t[1], P) /\ w[3] = Edge(t[1], t[2], P)
         /\ Inside(t, p) <=> \/ Area(t) > 0 /\ w[1] >= 0 /\ w[2] >= 0 /\ w[3] >= 0
                             \/ Area(t) < 0 /\ w[1] <= 0 /\ w[2] <= 0 /\ w[3] <= 0
  BY WeightFacts
<1>7. LET w == Weights(l, p)
      IN /\ Area(l) = Edge(l[1], l[2], l[3]) /\ w[1] = Edge(l[2], l[3], P)
         /\ w[2] = Edge(l[3], l[1], P) /\ w[3] = Edge(l[1], l[2], P)
         /\ Inside(l, p) <=> \/ Area(l) > 0 /\ w[1] >= 0 /\ w[2] >= 0 /\ w[3] >= 0
                             \/ Area(l) < 0 /\ w[1] <= 0 /\ w[2] <= 0 /\ w[3] <= 0
  <2> HIDE DEF vl
  <2>1. QED  BY <1>2, WeightFacts
<1>8. LET w == Weights(r, p)
      IN /\ Area(r) = Edge(r[1], r[2], r[3]) /\ w[1] = Edge(r[2], r[3], P)
         /\ w[2] = Edge(r[3], r[1], P) /\ w[3] = Edge(r[1], r[2], P)
         /\ Inside(r, p) <=> \/ Area(r) > 0 /\ w[1] >= 0 /\ w[2] >= 0 /\ w[3] >= 0
                             \/ Area(r) < 0 /\ w[1] <= 0 /\ w[2] <= 0 /\ w[3] <= 0
  <2> HIDE DEF vr
  <2>1. QED  BY <1>2, WeightFacts
<1> HIDE DEF A, B, C, M, P, t, l, r, vl, vr
<1>9. Inside(t, p)  BY DEF t
<1> DEFINE area == Edge(A, B, C)
           e1 == Edge(B, C, P)
           e2 == Edge(C, A, P)
           e3 == Edge(A, B, P)
           f == Edge(M, C, P)
<1>10. \/ area > 0 /\ e1 >= 0 /\ e2 >= 0 /\ e3 >= 0
       \/ area < 0 /\ e1 <= 0 /\ e2 <= 0 /\ e3 <= 0
  BY <1>4, <1>6, <1>9
<1>11. Inside(l, p) <=> \/ Edge(A, M, C) > 0 /\ f >= 0 /\ e2 >= 0 /\ Edge(A, M, P) >= 0
                        \/ Edge(A, M, C) < 0 /\ f <= 0 /\ e2 <= 0 /\ Edge(A, M, P) <= 0
  BY <1>4, <1>7
<1>12. Inside(r, p) <=> \/ Edge(M, B, C) > 0 /\ e1 >= 0 /\ Edge(C, M, P) >= 0 /\ Edge(M, B, P) >= 0
                        \/ Edge(M, B, C) < 0 /\ e1 <= 0 /\ Edge(C, M, P) <= 0 /\ Edge(M, B, P) <= 0
  BY <1>4, <1>8
<1>13. /\ 2 * Edge(A, M, C) = area /\ 2 * Edge(M, B, C) = area
       /\ 2 * Edge(A, M, P) = e3 /\ 2 * Edge(M, B, P) = e3
  BY <1>3, <1>5, HalfwayEdge
<1>14. /\ Edge(C, M, P) = -f /\ area \in Int /\ e1 \in Int /\ e2 \in Int /\ e3 \in Int /\ f \in Int
       /\ Edge(A, M, C) \in Int /\ Edge(M, B, C) \in Int /\ Edge(A, M, P) \in Int /\ Edge(M, B, P) \in Int
  BY <1>3, EdgeTurns
<1> HIDE DEF area, e1, e2, e3, f
<1>15. Inside(l, p) \/ Inside(r, p)
  BY <1>10, <1>11, <1>12, <1>13, <1>14
<1>16. QED  BY <1>15 DEF l, r, vl, vr

-----------------------------------------------------------------------------
(* The band.                                                               *)

\* The pixel in a given column and row.
LEMMA PixelAt ==
  ASSUME NEW c \in 0 .. W - 1, NEW r \in 0 .. H - 1
  PROVE  \E q \in Pixels : Col(q) = c /\ Row(q) = r
<1>1. W \in Nat \ {0} /\ H \in Nat \ {0} /\ r \in Nat  BY TargetAssumption
<1> DEFINE q == W * r + c
<1>2. q % W = c /\ q \div W = r  BY <1>1, DivModOf
<1>3. q \in 0 .. W * H - 1
  <2>1. r * W <= (H - 1) * W  BY <1>1, MulMonotone
  <2>2. r * W = W * r /\ (H - 1) * W = W * H - W  BY <1>1, Z3
  <2>3. W * r \in Nat /\ W * H \in Nat  BY <1>1
  <2> DEFINE x == W * r
             y == W * H
             u == r * W
             z == (H - 1) * W
  <2>4. u <= z /\ u = x /\ z = y - W /\ x \in Nat /\ y \in Nat  BY <2>1, <2>2, <2>3
  <2> HIDE DEF x, y, u, z
  <2>5. x + c \in 0 .. y - 1  BY <1>1, <2>4
  <2>6. QED  BY <2>5 DEF x, y
<1> HIDE DEF q
<1>4. QED  BY <1>2, <1>3 DEF Pixels, Col, Row

\* Column and row of a pixel, which determine it.
LEMMA PixelFacts ==
  ASSUME NEW p \in Pixels
  PROVE  Col(p) \in 0 .. W - 1 /\ Row(p) \in 0 .. H - 1 /\ p = W * Row(p) + Col(p)
<1>1. W \in Nat \ {0} /\ H \in Nat \ {0} /\ W * H \in Nat  BY TargetAssumption
<1>2. p \in Nat /\ p < W * H
  <2> DEFINE y == W * H
  <2>1. y \in Nat /\ p \in 0 .. y - 1  BY <1>1 DEF Pixels
  <2> HIDE DEF y
  <2>2. p \in Nat /\ p < y  BY <2>1
  <2>3. QED  BY <2>2 DEF y
<1>3. Col(p) \in 0 .. W - 1 /\ Row(p) \in Nat /\ p = W * Row(p) + Col(p)
  BY <1>1, <1>2, DivMod DEF Col, Row
<1>4. Row(p) < H
  <2>1. SUFFICES ASSUME H <= Row(p) PROVE FALSE  BY <1>1, <1>3
  <2>2. H * W <= Row(p) * W  BY <1>1, <1>3, <2>1, MulMonotone
  <2>3. H * W = W * H /\ Row(p) * W = W * Row(p)  BY <1>1, <1>3, Z3
  <2> DEFINE x == W * Row(p)
             y == W * H
  <2>4. x \in Nat /\ y \in Nat /\ y <= x /\ p = x + Col(p) /\ p < y  BY <1>1, <1>2, <1>3, <2>2, <2>3
  <2> HIDE DEF x, y
  <2>5. QED  BY <1>1, <1>3, <2>4
<1>5. QED  BY <1>1, <1>3, <1>4

\* The number of steps from pixel to pixel, along rows and columns.
Steps(p, q) == Abs(Col(p) - Col(q)) + Abs(Row(p) - Row(q))

\* From one pixel, one step leads closer to another.
LEMMA StepCloser ==
  ASSUME NEW p \in Pixels, NEW q \in Pixels, p # q
  PROVE  \E r \in Pixels : /\ Adjacent(r, q) /\ Steps(p, r) < Steps(p, q)
                           /\ Chebyshev(p, r) <= Chebyshev(p, q)
<1>1. /\ Col(p) \in 0 .. W - 1 /\ Row(p) \in 0 .. H - 1 /\ p = W * Row(p) + Col(p)
      /\ Col(q) \in 0 .. W - 1 /\ Row(q) \in 0 .. H - 1 /\ q = W * Row(q) + Col(q)
  BY PixelFacts
<1>2. Col(p) # Col(q) \/ Row(p) # Row(q)  BY <1>1
<1>3. W \in Nat /\ H \in Nat  BY TargetAssumption
<1> DEFINE Towards(c, r) ==
             \/ r = Row(q) /\ ((c = Col(q) - 1 /\ Col(p) <= c) \/ (c = Col(q) + 1 /\ c <= Col(p)))
             \/ c = Col(q) /\ ((r = Row(q) - 1 /\ Row(p) <= r) \/ (r = Row(q) + 1 /\ r <= Row(p)))
<1>4. ASSUME NEW c \in 0 .. W - 1, NEW r \in 0 .. H - 1, Towards(c, r)
      PROVE  \E s \in Pixels : /\ Adjacent(s, q) /\ Steps(p, s) < Steps(p, q)
                               /\ Chebyshev(p, s) <= Chebyshev(p, q)
  <2>1. PICK s \in Pixels : Col(s) = c /\ Row(s) = r  BY PixelAt
  <2>2. Adjacent(s, q) /\ Steps(p, s) < Steps(p, q)
    BY <1>1, <1>3, <1>4, <2>1 DEF Adjacent, Steps, Abs
  <2>3. Chebyshev(p, s) <= Chebyshev(p, q)
    BY <1>1, <1>3, <1>4, <2>1 DEF Chebyshev, Abs
  <2>4. QED  BY <2>2, <2>3
<1>5. CASE Col(p) < Col(q)
  <2>1. Col(q) - 1 \in 0 .. W - 1 /\ Col(p) <= Col(q) - 1  BY <1>1, <1>3, <1>5
  <2>2. Towards(Col(q) - 1, Row(q))  BY <2>1
  <2> HIDE DEF Towards
  <2>3. QED  BY <1>1, <1>4, <2>1, <2>2
<1>6. CASE Col(p) > Col(q)
  <2>1. Col(q) + 1 \in 0 .. W - 1 /\ Col(q) + 1 <= Col(p)  BY <1>1, <1>3, <1>6
  <2>2. Towards(Col(q) + 1, Row(q))  BY <2>1
  <2> HIDE DEF Towards
  <2>3. QED  BY <1>1, <1>4, <2>1, <2>2
<1>7. CASE Row(p) < Row(q)
  <2>1. Row(q) - 1 \in 0 .. H - 1 /\ Row(p) <= Row(q) - 1  BY <1>1, <1>3, <1>7
  <2>2. Towards(Col(q), Row(q) - 1)  BY <2>1
  <2> HIDE DEF Towards
  <2>3. QED  BY <1>1, <1>4, <2>1, <2>2
<1>8. CASE Row(p) > Row(q)
  <2>1. Row(q) + 1 \in 0 .. H - 1 /\ Row(q) + 1 <= Row(p)  BY <1>1, <1>3, <1>8
  <2>2. Towards(Col(q), Row(q) + 1)  BY <2>1
  <2> HIDE DEF Towards
  <2>3. QED  BY <1>1, <1>4, <2>1, <2>2
<1>9. Col(p) \in Int /\ Col(q) \in Int /\ Row(p) \in Int /\ Row(q) \in Int  BY <1>1
<1>10. QED  BY <1>2, <1>5, <1>6, <1>7, <1>8, <1>9

\* boundaryBand holds every pixel within tol of one of the other kind: on the
\* way there is an edge, no farther away.
LEMMA BandReaches ==
  ASSUME NEW c \in [Pixels -> BOOLEAN], NEW tol \in Nat, NEW p \in Pixels, NEW q \in Pixels,
         c[q] # c[p], Chebyshev(p, q) <= tol
  PROVE  BoundaryBand(c, tol)[p]
<1> DEFINE Other(s) == s \in Pixels /\ c[s] # c[p] /\ Chebyshev(p, s) <= tol
           Far == {n \in Nat : \E s \in Pixels : Other(s) /\ n = Steps(p, s)}
           R == OpToRel(<, Nat)
<1>1. \A s, z \in Pixels : Steps(s, z) \in Nat /\ Chebyshev(s, z) \in Nat
  BY PixelFacts, TargetAssumption DEF Steps, Chebyshev, Abs
<1>2. Far \subseteq Nat /\ Far # {}
  <2>1. Other(q)  OBVIOUS
  <2>2. Steps(p, q) \in Far  BY <1>1, <2>1
  <2>3. QED  BY <2>2
<1>3. IsWellFoundedOn(R, Nat)  BY NatLessThanWellFounded
<1>4. PICK n \in Far : \A k \in Far : ~(<<k, n>> \in R)
  <2> HIDE DEF R, Far
  <2>1. QED  BY <1>2, <1>3, WFMin
<1>5. \A k \in Far : ~(k < n)
  <2> HIDE DEF Far
  <2>1. QED  BY <1>2, <1>4 DEF OpToRel
<1>6. PICK s \in Pixels : Other(s) /\ n = Steps(p, s)  OBVIOUS
<1>7. PICK r \in Pixels : Adjacent(r, s) /\ Steps(p, r) < Steps(p, s) /\ Chebyshev(p, r) <= Chebyshev(p, s)
  BY <1>6, StepCloser
<1>8. Chebyshev(p, r) <= tol  BY <1>1, <1>6, <1>7
<1>9. c[r] = c[p]
  <2>1. SUFFICES ASSUME c[r] # c[p] PROVE FALSE  OBVIOUS
  <2>2. Other(r)  BY <1>8, <2>1
  <2>3. Steps(p, r) \in Far  BY <1>1, <2>2
  <2>4. QED  BY <1>5, <1>6, <1>7, <2>3
<1>10. OnEdge(c, r)  BY <1>6, <1>7, <1>9 DEF OnEdge
<1>11. QED  BY <1>8, <1>10 DEF BoundaryBand

\* It holds none that is farther than tol + 1 from all of the other kind.
LEMMA BandStops ==
  ASSUME NEW c \in [Pixels -> BOOLEAN], NEW tol \in Nat, NEW p \in Pixels, BoundaryBand(c, tol)[p]
  PROVE  \E q \in Pixels : c[q] # c[p] /\ Chebyshev(p, q) <= tol + 1
<1>1. PICK q \in Pixels : OnEdge(c, q) /\ Chebyshev(p, q) <= tol  BY DEF BoundaryBand
<1>2. PICK r \in Pixels : Adjacent(q, r) /\ c[r] # c[q]  BY <1>1 DEF OnEdge
<1>3. \A s \in Pixels : Col(s) \in Int /\ Row(s) \in Int  BY PixelFacts, TargetAssumption
<1>4. Chebyshev(p, r) <= tol + 1  BY <1>1, <1>2, <1>3 DEF Chebyshev, Adjacent, Abs
<1>5. Chebyshev(p, q) <= tol + 1  BY <1>1, <1>3 DEF Chebyshev, Abs
<1>6. c[q] # c[p] \/ c[r] # c[p]  BY <1>2
<1>7. QED  BY <1>4, <1>5, <1>6

-----------------------------------------------------------------------------
(* The scan.                                                               *)

\* The size of the target, and what the scan's bound variable ranges over.
LEMMA Target == W * H \in Nat /\ Pixels \subseteq Nat /\ IsFiniteSet(Pixels)
<1>1. W * H \in Nat  BY TargetAssumption
<1> DEFINE n == W * H
<1>2. Pixels = 0 .. n - 1  BY DEF Pixels
<1> HIDE DEF n
<1>3. n \in Nat  BY <1>1 DEF n
<1>4. IsFiniteSet(0 .. n - 1)  BY <1>3, FS_Interval
<1>5. QED  BY <1>1, <1>2, <1>3, <1>4

\* A covered pixel has a reference colour: the flat one, or a sample.
LEMMA RefColour ==
  ASSUME World, NEW p \in Pixels, cov[p]
  PROVE  /\ Area(InWindow(verts)) # 0 /\ verts \in [1 .. 3 -> Points]
         /\ Ref(p) \in Colours
         /\ shade.mode = "tex" =>
              \A k \in 1 .. 4 :
                \E x1, x2 \in 0 .. shade.tex.w - 1, y1, y2 \in 0 .. shade.tex.h - 1 :
                  /\ Swizzle(shade.tex.texel[x1][y1])[k] <= Ref(p)[k]
                  /\ Ref(p)[k] <= Swizzle(shade.tex.texel[x2][y2])[k]
<1>1. verts \in [1 .. 3 -> Points]  BY CompareAssumption DEF World, Points
<1>2. Inside(InWindow(verts), p)  BY DEF World, Rasterise
<1>3. Area(InWindow(verts)) # 0
  <2>1. Area(InWindow(verts)) \in Int  BY <1>1, WeightFacts
  <2>2. Area(InWindow(verts)) > 0 \/ Area(InWindow(verts)) < 0  BY <1>2 DEF Inside
  <2>3. QED  BY <2>1, <2>2
<1>4. CASE shade.mode # "tex"
  <2>1. Ref(p) = Fill  BY <1>4 DEF Ref
  <2>2. Fill \in Colours  BY CompareAssumption
  <2>3. QED  BY <1>1, <1>3, <1>4, <2>1, <2>2
<1>5. CASE shade.mode = "tex"
  <2>1. IsTexture(shade.tex)  BY <1>5, CompareAssumption DEF World, IsShading
  <2>2. GpuUV \in [1 .. 3 -> Points]
    <3>1. <<1, 2>> \in Points /\ <<0, 0>> \in Points /\ <<2, 0>> \in Points  BY DEF Points
    <3>2. QED  BY <3>1 DEF GpuUV
  <2>3. Ref(p) = TexColour(verts, GpuUV, shade.tex, shade.filter, p)  BY <1>5 DEF Ref
  <2>4. PICK un \in Int, vn \in Int, d \in Nat \ {0} :
          TexColour(verts, GpuUV, shade.tex, shade.filter, p) = Sample(shade.tex, un, vn, d, shade.filter)
    BY <1>1, <1>3, <2>2, TexColourIsSample
  <2> DEFINE s == Sample(shade.tex, un, vn, d, shade.filter)
  <2>5. /\ s \in Colours
        /\ \A k \in 1 .. 4 :
             \E x1, x2 \in 0 .. shade.tex.w - 1, y1, y2 \in 0 .. shade.tex.h - 1 :
               /\ Swizzle(shade.tex.texel[x1][y1])[k] <= s[k]
               /\ s[k] <= Swizzle(shade.tex.texel[x2][y2])[k]
    BY <2>1, SampleInRange
  <2> HIDE DEF s
  <2>6. Ref(p) = s  BY <2>3, <2>4 DEF s
  <2>7. QED  BY <1>1, <1>3, <2>5, <2>6
<1>6. QED  BY <1>4, <1>5

\* The delta that compare takes is within the tolerance when the colour is.
LEMMA DeltaIsColour ==
  ASSUME World, NEW p \in Pixels, cov[p]
  PROVE  /\ MaxChannelDelta(real[p], Ref(p)) \in Nat
         /\ MaxChannelDelta(real[p], Ref(p)) <= ColourTol <=> ColourOK(p)
<1>1. real[p] \in Colours /\ BG \in Colours /\ ColourTol \in Int  BY CompareAssumption DEF World
<1>2. Ref(p) \in Colours  BY RefColour
<1>3. \A c \in Colours : c \in [1 .. 4 -> Int] /\ DOMAIN c = 1 .. 4  BY DEF Colours
<1>4. QED  BY <1>1, <1>2, <1>3, DeltaFacts DEF ColourOK

\* Counting on: one more element, or none.
LEMMA CountOn ==
  ASSUME NEW A, NEW B, NEW i, NEW b \in BOOLEAN, IsFiniteSet(A), i \notin A,
         b => B = A \cup {i}, ~b => B = A
  PROVE  Cardinality(B) = Cardinality(A) + One(b) /\ Cardinality(A) \in Nat
<1>1. Cardinality(A) \in Nat  BY FS_CardinalityType
<1>2. CASE b
  <2>1. Cardinality(A \cup {i}) = Cardinality(A) + 1  BY FS_AddElement
  <2>2. QED  BY <1>1, <1>2, <2>1 DEF One
<1>3. CASE ~b  BY <1>1, <1>3 DEF One
<1>4. QED  BY <1>2, <1>3

\* The pixels seen after one more.
LEMMA SeenGrows ==
  ASSUME idx \in Pixels, idx' = idx + 1
  PROVE  Seen' = Seen \cup {idx} /\ idx \notin Seen /\ Seen \subseteq Pixels /\ IsFiniteSet(Seen)
<1>1. Pixels \subseteq Nat /\ IsFiniteSet(Pixels)  BY Target
<1>2. Seen \subseteq Pixels /\ idx \notin Seen  BY <1>1 DEF Seen
<1>3. IsFiniteSet(Seen)  BY <1>1, <1>2, FS_Subset
<1>4. Seen' = {p \in Pixels : p < idx + 1}  BY DEF Seen
<1>5. \A p \in Pixels : p < idx + 1 <=> p < idx \/ p = idx  BY <1>1
<1>6. {p \in Pixels : p < idx + 1} = Seen \cup {idx}
  <2>1. {p \in Pixels : p < idx + 1} = {p \in Pixels : p < idx \/ p = idx}  BY <1>5
  <2>2. {p \in Pixels : p < idx \/ p = idx} = Seen \cup {idx}  BY DEF Seen
  <2>3. QED  BY <2>1, <2>2
<1>7. QED  BY <1>2, <1>3, <1>4, <1>6

\* One iteration of the loop of compare.
LEMMA ScanPixelInv ==
  ASSUME ScanInv, ScanPixel
  PROVE  ScanInv'
<1> DEFINE p == idx
           realIn == real[p] # BG
           covOK == cov[p] = realIn \/ near[p]
           d == MaxChannelDelta(real[p], Ref(p))
<1>1. /\ idx \in Pixels /\ shade.mode # "clear" /\ idx' = idx + 1
      /\ UNCHANGED <<shade, verts, real, cov, near, pass>>
      /\ res' = [interior |-> res.interior + One(cov[p]),
                 covMatch |-> res.covMatch + One(cov[p] /\ covOK),
                 covMismatch |-> res.covMismatch + One(~covOK),
                 covExact |-> res.covExact + One(cov[p] = realIn),
                 maxDelta |-> IF cov[p] /\ realIn /\ d > res.maxDelta THEN d ELSE res.maxDelta,
                 tested |-> res.tested + One(cov[p] /\ realIn)]
  BY DEF ScanPixel
<1>2. World' /\ World  BY <1>1 DEF ScanInv, World
<1>3. /\ cov \in [Pixels -> BOOLEAN] /\ near \in [Pixels -> BOOLEAN]
      /\ cov[p] \in BOOLEAN /\ near[p] \in BOOLEAN
      /\ res.interior \in Nat /\ res.covMatch \in Nat /\ res.covMismatch \in Nat
      /\ res.covExact \in Nat /\ res.maxDelta \in Nat /\ res.tested \in Nat
  BY <1>1 DEF ScanInv, CountersAddUp, TypeOK
<1>4. cov[p] => d \in Nat /\ (d <= ColourTol <=> ColourOK(p))  BY <1>1, <1>2, DeltaIsColour
<1>5. Seen' = Seen \cup {p} /\ p \notin Seen /\ Seen \subseteq Pixels /\ IsFiniteSet(Seen)
  BY <1>1, SeenGrows
<1>6. \A q : Agrees(q)' = Agrees(q) /\ ColourOK(q)' = ColourOK(q)
  BY <1>1 DEF Agrees, ColourOK, Ref
<1>8. /\ res'.interior = res.interior + One(cov[p])
      /\ res'.covMatch = res.covMatch + One(cov[p] /\ covOK)
      /\ res'.covMismatch = res.covMismatch + One(~covOK)
      /\ res'.covExact = res.covExact + One(cov[p] = realIn)
      /\ res'.maxDelta = IF cov[p] /\ realIn /\ d > res.maxDelta THEN d ELSE res.maxDelta
      /\ res'.tested = res.tested + One(cov[p] /\ realIn)
  BY <1>1
<1>9. /\ realIn \in BOOLEAN /\ covOK \in BOOLEAN
      /\ Agrees(p) <=> (cov[p] = realIn)
      /\ covOK <=> Agrees(p) \/ near[p]
  BY <1>3 DEF Agrees
<1> HIDE DEF d, realIn, covOK
<1>10. TypeOK'
  <2>1. idx' \in 0 .. W * H + 1
    <3> DEFINE n == W * H
    <3>1. n \in Nat /\ idx \in 0 .. n - 1  BY <1>1, Target DEF Pixels
    <3> HIDE DEF n
    <3>2. idx + 1 \in 0 .. n + 1  BY <3>1
    <3>3. QED  BY <1>1, <3>2 DEF n
  <2>2. /\ res.interior + One(cov[p]) \in Nat /\ res.covMatch + One(cov[p] /\ covOK) \in Nat
        /\ res.covMismatch + One(~covOK) \in Nat /\ res.covExact + One(cov[p] = realIn) \in Nat
        /\ res.tested + One(cov[p] /\ realIn) \in Nat
    BY <1>3 DEF One
  <2>3. (IF cov[p] /\ realIn /\ d > res.maxDelta THEN d ELSE res.maxDelta) \in Nat  BY <1>3, <1>4
  <2>4. QED  BY <1>1, <1>3, <2>1, <2>2, <2>3 DEF ScanInv, CountersAddUp, TypeOK
<1>11. CountersAddUp'
  <2> DEFINE Covered == {q \in Seen : cov[q]}
             Stray == {q \in Seen : ~cov[q] /\ ~Agrees(q) /\ ~near[q]}
             Exact == {q \in Seen : Agrees(q)}
             Both == {q \in Seen : cov[q] /\ real[q] # BG}
  <2>1. /\ res.interior = Cardinality(Covered)
        /\ res.covMatch + res.covMismatch = res.interior + Cardinality(Stray)
        /\ res.covExact = Cardinality(Exact)
        /\ res.tested = Cardinality(Both)
    BY <1>1 DEF ScanInv, CountersAddUp
  <2>2. /\ IsFiniteSet(Covered) /\ IsFiniteSet(Stray) /\ IsFiniteSet(Exact) /\ IsFiniteSet(Both)
    <3>1. Covered \subseteq Seen /\ Stray \subseteq Seen /\ Exact \subseteq Seen /\ Both \subseteq Seen
      OBVIOUS
    <3> HIDE DEF Covered, Stray, Exact, Both
    <3>2. QED  BY <1>5, <3>1, FS_Subset
  <2>3. p \notin Covered /\ p \notin Stray /\ p \notin Exact /\ p \notin Both  BY <1>5
  <2>4. Cardinality(Covered') = Cardinality(Covered) + One(cov[p]) /\ Cardinality(Covered) \in Nat
    <3>1. (cov[p] => Covered' = Covered \cup {p}) /\ (~cov[p] => Covered' = Covered)
      BY <1>1, <1>5
    <3> HIDE DEF Covered
    <3>2. QED  BY <1>3, <2>2, <2>3, <3>1, CountOn
  <2>5. /\ Cardinality(Stray') = Cardinality(Stray) + One(~cov[p] /\ ~Agrees(p) /\ ~near[p])
        /\ Cardinality(Stray) \in Nat
    <3> DEFINE b == ~cov[p] /\ ~Agrees(p) /\ ~near[p]
    <3>1. (b => Stray' = Stray \cup {p}) /\ (~b => Stray' = Stray)  BY <1>1, <1>5, <1>6
    <3>2. b \in BOOLEAN  OBVIOUS
    <3> HIDE DEF Stray, b
    <3>3. Cardinality(Stray') = Cardinality(Stray) + One(b) /\ Cardinality(Stray) \in Nat
      BY <2>2, <2>3, <3>1, <3>2, CountOn
    <3>4. QED  BY <3>3 DEF b
  <2>6. Cardinality(Exact') = Cardinality(Exact) + One(cov[p] = realIn)
    <3> DEFINE b == cov[p] = realIn
    <3>1. (b => Exact' = Exact \cup {p}) /\ (~b => Exact' = Exact)  BY <1>5, <1>6, <1>9
    <3>2. b \in BOOLEAN  OBVIOUS
    <3> HIDE DEF Exact, b
    <3>3. Cardinality(Exact') = Cardinality(Exact) + One(b)
      BY <2>2, <2>3, <3>1, <3>2, CountOn
    <3>4. QED  BY <3>3 DEF b
  <2>7. Cardinality(Both') = Cardinality(Both) + One(cov[p] /\ realIn)
    <3> DEFINE b == cov[p] /\ realIn
    <3>1. (b => Both' = Both \cup {p}) /\ (~b => Both' = Both)  BY <1>1, <1>5 DEF realIn
    <3>2. b \in BOOLEAN  OBVIOUS
    <3> HIDE DEF Both, b
    <3>3. Cardinality(Both') = Cardinality(Both) + One(b)
      BY <2>2, <2>3, <3>1, <3>2, CountOn
    <3>4. QED  BY <3>3 DEF b
  <2>8. One(cov[p] /\ covOK) + One(~covOK) = One(cov[p]) + One(~cov[p] /\ ~Agrees(p) /\ ~near[p])
    BY <1>9 DEF One
  <2>9. /\ One(cov[p] /\ covOK) \in Nat /\ One(~covOK) \in Nat /\ One(cov[p]) \in Nat
        /\ One(~cov[p] /\ ~Agrees(p) /\ ~near[p]) \in Nat
    BY DEF One
  <2>10. /\ Covered' = {q \in Seen' : cov'[q]}
         /\ Stray' = {q \in Seen' : ~cov'[q] /\ ~Agrees(q)' /\ ~near'[q]}
         /\ Exact' = {q \in Seen' : Agrees(q)'}
         /\ Both' = {q \in Seen' : cov'[q] /\ real'[q] # BG}
    OBVIOUS
  <2> HIDE DEF Covered, Stray, Exact, Both
  <2>11. res'.covMatch + res'.covMismatch = res'.interior + Cardinality(Stray')
    BY <1>3, <1>8, <2>1, <2>5, <2>8, <2>9
  <2>12. /\ res'.interior = Cardinality(Covered') /\ res'.covExact = Cardinality(Exact')
         /\ res'.tested = Cardinality(Both')
    BY <1>8, <2>1, <2>4, <2>6, <2>7
  <2>13. QED  BY <1>10, <2>10, <2>11, <2>12 DEF CountersAddUp
<1>12. FoundSoFar'
  <2>1. /\ res.covMismatch = 0 <=> \A q \in Seen : Agrees(q) \/ near[q]
        /\ res.maxDelta <= ColourTol <=> \A q \in Seen : cov[q] /\ real[q] # BG => ColourOK(q)
    BY <1>1 DEF ScanInv, FoundSoFar
  <2>2. res'.covMismatch = 0 <=> res.covMismatch = 0 /\ covOK
    BY <1>3, <1>8, <1>9 DEF One
  <2>3. res'.maxDelta <= ColourTol <=> res.maxDelta <= ColourTol /\ (cov[p] /\ realIn => ColourOK(p))
    BY <1>3, <1>4, <1>8, CompareAssumption
  <2>4. res'.covMismatch = 0 <=> \A q \in Seen' : Agrees(q)' \/ near'[q]
    BY <1>1, <1>5, <1>6, <1>9, <2>1, <2>2
  <2>5. res'.maxDelta <= ColourTol <=> \A q \in Seen' : cov'[q] /\ real'[q] # BG => ColourOK(q)'
    BY <1>1, <1>5, <1>6, <2>1, <2>3 DEF realIn
  <2>6. QED  BY <1>1, <2>4, <2>5 DEF FoundSoFar
<1>13. ~Done'
  <2> DEFINE n == W * H
  <2>1. n \in Nat /\ idx \in 0 .. n - 1  BY <1>1, Target DEF Pixels
  <2> HIDE DEF n
  <2>2. idx + 1 # n + 1  BY <2>1
  <2>3. QED  BY <1>1, <2>2 DEF Done, n
<1>14. QED  BY <1>2, <1>11, <1>12, <1>13 DEF ScanInv

\* One iteration of the loop of assertClearExact.
LEMMA ClearPixelInv ==
  ASSUME ScanInv, ClearPixel
  PROVE  ScanInv'
<1>1. /\ idx \in Pixels /\ shade.mode = "clear" /\ idx' = idx + 1
      /\ UNCHANGED <<shade, verts, real, cov, near, pass>>
      /\ res' = [res EXCEPT !.covMismatch = @ + One(real[idx] # Fill)]
  BY DEF ClearPixel
<1>2. World'  BY <1>1 DEF ScanInv, World
<1>3. res \in [interior : Nat, covMatch : Nat, covMismatch : Nat, covExact : Nat, maxDelta : Nat, tested : Nat]
  BY DEF ScanInv, CountersAddUp, TypeOK
<1>4. Seen' = Seen \cup {idx}  BY <1>1, SeenGrows
<1> DEFINE n == W * H
<1>5. n \in Nat /\ idx \in 0 .. n - 1  BY <1>1, Target DEF Pixels
<1> HIDE DEF n
<1>6. idx + 1 \in 0 .. n + 1 /\ idx + 1 # n + 1  BY <1>5
<1>7. ~Done'  BY <1>1, <1>6 DEF Done, n
<1>8. /\ res'.maxDelta = res.maxDelta /\ res'.covMismatch = res.covMismatch + One(real[idx] # Fill)
      /\ res.covMismatch \in Nat
  BY <1>1, <1>3
<1>9. CountersAddUp'
  <2>1. One(real[idx] # Fill) \in Nat  BY DEF One
  <2>2. res' \in [interior : Nat, covMatch : Nat, covMismatch : Nat, covExact : Nat, maxDelta : Nat, tested : Nat]
    BY <1>1, <1>3, <2>1
  <2>3. TypeOK'
    <3>1. idx' \in 0 .. W * H + 1  BY <1>1, <1>6 DEF n
    <3>2. QED  BY <1>1, <2>2, <3>1 DEF ScanInv, CountersAddUp, TypeOK
  <2>4. QED  BY <1>1, <2>3 DEF CountersAddUp
<1>10. FoundSoFar'
  <2>1. res.maxDelta = 0 /\ (res.covMismatch = 0 <=> \A p \in Seen : real[p] = Fill)
    BY <1>1 DEF ScanInv, FoundSoFar
  <2>2. res'.covMismatch = 0 <=> res.covMismatch = 0 /\ real[idx] = Fill
    BY <1>8 DEF One
  <2>3. res'.covMismatch = 0 <=> \A p \in Seen' : real'[p] = Fill
    BY <1>1, <1>4, <2>1, <2>2
  <2>4. QED  BY <1>1, <1>8, <2>1, <2>3 DEF FoundSoFar
<1>11. QED  BY <1>2, <1>7, <1>9, <1>10 DEF ScanInv

\* The verdict, after the last pixel.
LEMMA VerdictInv ==
  ASSUME ScanInv, Verdict
  PROVE  ScanInv'
<1>1. /\ idx = W * H /\ idx' = idx + 1 /\ UNCHANGED <<shade, verts, real, cov, near, res>>
      /\ pass' = (res.covMismatch = 0 /\ res.maxDelta <= ColourTol)
  BY DEF Verdict
<1>2. World'  BY <1>1 DEF ScanInv, World
<1> DEFINE n == W * H
<1>3. n \in Nat /\ Pixels = 0 .. n - 1 /\ idx = n  BY <1>1, Target DEF Pixels
<1>4. Seen' = Seen
  <2>1. Seen' = {p \in Pixels : p < idx + 1}  BY <1>1 DEF Seen
  <2> HIDE DEF n
  <2>2. \A p \in Pixels : p < idx /\ p < idx + 1  BY <1>3
  <2>3. QED  BY <2>1, <2>2 DEF Seen
<1>5. \A q : Agrees(q)' = Agrees(q) /\ ColourOK(q)' = ColourOK(q)
  BY <1>1 DEF Agrees, ColourOK, Ref
<1>6. TypeOK'
  <2>1. pass' \in BOOLEAN  BY <1>1
  <2>2. idx' \in 0 .. W * H + 1
    <3> HIDE DEF n
    <3>1. idx + 1 \in 0 .. n + 1  BY <1>3
    <3>2. QED  BY <1>1, <3>1 DEF n
  <2>3. QED  BY <1>1, <2>1, <2>2 DEF ScanInv, CountersAddUp, TypeOK
<1>7. CountersAddUp'  BY <1>1, <1>4, <1>5, <1>6 DEF ScanInv, CountersAddUp
<1>8. FoundSoFar'  BY <1>1, <1>4, <1>5 DEF ScanInv, FoundSoFar
<1>9. pass' <=> res'.covMismatch = 0 /\ res'.maxDelta <= ColourTol  BY <1>1
<1>10. QED  BY <1>2, <1>7, <1>8, <1>9 DEF ScanInv

\* Before the first pixel.
LEMMA ScanInit == Init => ScanInv
<1> SUFFICES ASSUME Init PROVE ScanInv  OBVIOUS
<1>1. World  BY DEF Init, AssertExact, World
<1> DEFINE n == W * H
<1>2. n \in Nat /\ Pixels = 0 .. n - 1 /\ idx = 0  BY Target DEF Pixels, Init
<1>3. Seen = {} /\ ~Done
  <2> HIDE DEF n
  <2>1. \A p \in Pixels : ~(p < idx)  BY <1>2
  <2>2. idx # n + 1  BY <1>2
  <2>3. QED  BY <2>1, <2>2 DEF Seen, Done, n
<1>4. TypeOK
  <2>1. idx \in 0 .. W * H + 1
    <3> HIDE DEF n
    <3>1. 0 \in 0 .. n + 1  BY <1>2
    <3>2. QED  BY <1>2, <3>1 DEF n
  <2>2. cov \in [Pixels -> BOOLEAN]  BY DEF Init, Rasterise, Inside
  <2>3. near \in [Pixels -> BOOLEAN]  BY DEF Init, BoundaryBand
  <2>4. QED  BY <2>1, <2>2, <2>3 DEF Init, TypeOK
<1>5. /\ res.interior = 0 /\ res.covMatch = 0 /\ res.covMismatch = 0 /\ res.covExact = 0
      /\ res.maxDelta = 0 /\ res.tested = 0
  BY DEF Init
<1>6. CountersAddUp
  <2>1. Cardinality({}) = 0  BY FS_EmptySet
  <2>2. /\ {p \in Seen : cov[p]} = {} /\ {p \in Seen : ~cov[p] /\ ~Agrees(p) /\ ~near[p]} = {}
        /\ {p \in Seen : Agrees(p)} = {} /\ {p \in Seen : cov[p] /\ real[p] # BG} = {}
    BY <1>3
  <2>3. QED  BY <1>4, <1>5, <2>1, <2>2 DEF CountersAddUp
<1>7. FoundSoFar  BY <1>3, <1>5, CompareAssumption DEF FoundSoFar
<1>8. QED  BY <1>1, <1>3, <1>6, <1>7 DEF ScanInv

\* One step of the scan.
LEMMA ScanStep == ScanInv /\ [Next]_vars => ScanInv'
<1> SUFFICES ASSUME ScanInv, [Next]_vars PROVE ScanInv'  OBVIOUS
<1>1. CASE UNCHANGED vars
  <2>1. UNCHANGED <<shade, verts, real, cov, near, idx, res, pass>>  BY <1>1 DEF vars
  <2>2. World' /\ Seen' = Seen /\ Done' = Done  BY <2>1 DEF ScanInv, World, Seen, Done
  <2>3. \A q : Agrees(q)' = Agrees(q) /\ ColourOK(q)' = ColourOK(q)
    BY <2>1 DEF Agrees, ColourOK, Ref
  <2>4. TypeOK'  BY <2>1 DEF ScanInv, CountersAddUp, TypeOK
  <2>5. CountersAddUp'  BY <2>1, <2>2, <2>3, <2>4 DEF ScanInv, CountersAddUp
  <2>6. FoundSoFar'  BY <2>1, <2>2, <2>3 DEF ScanInv, FoundSoFar
  <2>7. QED  BY <2>1, <2>2, <2>5, <2>6 DEF ScanInv
<1>2. QED  BY <1>1, ScanPixelInv, ClearPixelInv, VerdictInv DEF Next

-----------------------------------------------------------------------------
(* The theorems.                                                           *)

\* The inductive invariant of the scans of compare and assertClearExact.
THEOREM ScanInvariant == Spec => []ScanInv
  BY ScanInit, ScanStep, PTL DEF Spec

\* The counters of compare partition the pixels, for a target of any size.
THEOREM ScanCountersAddUp == Spec => []CountersAddUp
<1>1. ScanInv => CountersAddUp  BY DEF ScanInv
<1>2. QED  BY <1>1, ScanInvariant, PTL

\* The verdict of compare, and of assertClearExact, is agreement pixel by
\* pixel: for every target, triangle, texture, readback and tolerance.
THEOREM ScanPassIsAgreement == Spec => []PassIsAgreement
<1>1. ScanInv => PassIsAgreement
  <2> SUFFICES ASSUME ScanInv, Done
               PROVE  pass <=> IF shade.mode = "clear"
                               THEN \A p \in Pixels : real[p] = Fill
                               ELSE \A p \in Pixels : /\ Agrees(p) \/ near[p]
                                                      /\ cov[p] /\ real[p] # BG => ColourOK(p)
    BY DEF PassIsAgreement
  <2> DEFINE n == W * H
  <2>1. n \in Nat /\ Pixels = 0 .. n - 1 /\ idx = n + 1  BY Target DEF Pixels, Done
  <2>2. Seen = Pixels
    <3> HIDE DEF n
    <3>1. \A p \in Pixels : p < idx  BY <2>1
    <3>2. QED  BY <3>1 DEF Seen
  <2>3. pass <=> res.covMismatch = 0 /\ res.maxDelta <= ColourTol  BY DEF ScanInv
  <2>4. CASE shade.mode = "clear"
    <3>1. res.maxDelta = 0 /\ (res.covMismatch = 0 <=> \A p \in Pixels : real[p] = Fill)
      BY <2>2, <2>4 DEF ScanInv, FoundSoFar
    <3>2. QED  BY <2>3, <2>4, <3>1, CompareAssumption
  <2>5. CASE shade.mode # "clear"
    <3>1. /\ res.covMismatch = 0 <=> \A p \in Pixels : Agrees(p) \/ near[p]
          /\ res.maxDelta <= ColourTol <=> \A p \in Pixels : cov[p] /\ real[p] # BG => ColourOK(p)
      BY <2>2, <2>5 DEF ScanInv, FoundSoFar
    <3>2. QED  BY <2>3, <2>5, <3>1
  <2>6. QED  BY <2>4, <2>5
<1>2. QED  BY <1>1, ScanInvariant, PTL

\* rasterise and TexReference give the same for either winding and every order
\* of the vertices.
THEOREM RenderWindingIrrelevant == Spec => []WindingIrrelevant
<1>1. ScanInv => WindingIrrelevant
  <2> SUFFICES ASSUME ScanInv PROVE WindingIrrelevant  OBVIOUS
  <2>1. World /\ cov = Rasterise(verts)  BY DEF ScanInv, World
  <2>2. verts \in [1 .. 3 -> Points]  BY <2>1, CompareAssumption DEF World, Points
  <2>3. cov = Rasterise(Rotated(verts)) /\ cov = Rasterise(Mirrored(verts))
    BY <2>1, <2>2, RasteriseTurned
  <2>4. GpuUV \in [1 .. 3 -> Points]
    <3>1. <<1, 2>> \in Points /\ <<0, 0>> \in Points /\ <<2, 0>> \in Points  BY DEF Points
    <3>2. QED  BY <3>1 DEF GpuUV
  <2>5. ASSUME shade.mode = "tex", NEW p \in Pixels, cov[p]
        PROVE  /\ Ref(p) = TexColour(Rotated(verts), Rotated(GpuUV), shade.tex, shade.filter, p)
               /\ Ref(p) = TexColour(Mirrored(verts), Mirrored(GpuUV), shade.tex, shade.filter, p)
    <3>1. Ref(p) = TexColour(verts, GpuUV, shade.tex, shade.filter, p)  BY <2>5 DEF Ref
    <3>2. Area(InWindow(verts)) # 0  BY <2>1, <2>5, RefColour
    <3>3. QED  BY <2>2, <2>4, <3>1, <3>2, TexColourTurned
  <2>6. QED  BY <2>3, <2>5 DEF WindingIrrelevant
<1>2. QED  BY <1>1, ScanInvariant, PTL

\* sample never returns a channel outside the range of the texels, for every
\* texture, filter and triangle.
THEOREM RenderBlendStaysInRange == Spec => []BlendStaysInRange
<1>1. ScanInv => BlendStaysInRange
  <2> SUFFICES ASSUME ScanInv, shade.mode = "tex", NEW p \in Pixels, NEW k \in 1 .. 4, cov[p]
               PROVE  LET chans == {Swizzle(shade.tex.texel[x][y])[k] :
                                      x \in 0 .. shade.tex.w - 1, y \in 0 .. shade.tex.h - 1}
                      IN (\E c \in chans : c <= Ref(p)[k]) /\ (\E c \in chans : c >= Ref(p)[k])
    BY DEF BlendStaysInRange
  <2>1. World  BY DEF ScanInv
  <2>2. PICK x1, x2 \in 0 .. shade.tex.w - 1, y1, y2 \in 0 .. shade.tex.h - 1 :
          /\ Swizzle(shade.tex.texel[x1][y1])[k] <= Ref(p)[k]
          /\ Ref(p)[k] <= Swizzle(shade.tex.texel[x2][y2])[k]
    BY <2>1, RefColour
  <2>3. QED  BY <2>2
<1>2. QED  BY <1>1, ScanInvariant, PTL

\* rasterise leaves no crack along a shared edge, for every triangle with an
\* edge whose middle is a vertex of clip space.
THEOREM RenderNoCrack == Spec => []NoCrack
<1>1. ScanInv => NoCrack
  <2> SUFFICES ASSUME ScanInv PROVE NoCrack  OBVIOUS
  <2> DEFINE a == verts[1]
             b == verts[2]
             c == verts[3]
             mid == <<(a[1] + b[1]) \div 2, (a[2] + b[2]) \div 2>>
  <2>1. cov = Rasterise(verts) /\ verts \in [1 .. 3 -> Points]
    BY CompareAssumption DEF ScanInv, World, Points
  <2>2. a \in Points /\ b \in Points  BY <2>1
  <2>3. ASSUME (a[1] + b[1]) % 2 = 0, (a[2] + b[2]) % 2 = 0, NEW p \in Pixels, cov[p]
        PROVE  Rasterise(<<a, mid, c>>)[p] \/ Rasterise(<<mid, b, c>>)[p]
    <3>1. a[1] \in Int /\ a[2] \in Int /\ b[1] \in Int /\ b[2] \in Int  BY <2>2 DEF Points
    <3>2. 2 * ((a[1] + b[1]) \div 2) = a[1] + b[1] /\ 2 * ((a[2] + b[2]) \div 2) = a[2] + b[2]
      BY <2>3, <3>1
    <3>3. mid \in Points /\ 2 * mid[1] = a[1] + b[1] /\ 2 * mid[2] = a[2] + b[2]
      BY <3>1, <3>2 DEF Points
    <3> HIDE DEF mid
    <3>4. Inside(InWindow(verts), p)  BY <2>1, <2>3 DEF Rasterise
    <3>5. Inside(InWindow(<<a, mid, c>>), p) \/ Inside(InWindow(<<mid, b, c>>), p)
      BY <2>1, <3>3, <3>4, SplitCovers
    <3>6. QED  BY <3>5 DEF Rasterise
  <2>4. QED  BY <2>3 DEF NoCrack
<1>2. QED  BY <1>1, ScanInvariant, PTL

\* boundaryBand hugs the edge of the coverage, for every target, tolerance and
\* triangle: where compare forgives a difference, an edge is near.
THEOREM RenderBandHugsEdge == Spec => []BandHugsEdge
<1>1. ScanInv => BandHugsEdge
  <2> SUFFICES ASSUME ScanInv, NEW p \in Pixels
               PROVE  /\ (\E q \in Pixels : cov[q] # cov[p] /\ Chebyshev(p, q) <= EdgeTol) => near[p]
                      /\ near[p] => \E q \in Pixels : cov[q] # cov[p] /\ Chebyshev(p, q) <= EdgeTol + 1
    BY DEF BandHugsEdge
  <2>1. near = BoundaryBand(cov, EdgeTol) /\ cov \in [Pixels -> BOOLEAN] /\ EdgeTol \in Nat
    BY CompareAssumption DEF ScanInv, World, CountersAddUp, TypeOK
  <2>2. QED  BY <2>1, BandReaches, BandStops
<1>2. QED  BY <1>1, ScanInvariant, PTL
=============================================================================
