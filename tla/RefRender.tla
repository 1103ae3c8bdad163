----------------------------- MODULE RefRender ------------------------------
(***************************************************************************)
(* The software reference of vtest/refrender: which pixels of a W x H      *)
(* target a triangle covers (rasterise), the colour a texture gives them    *)
(* (sample), and which pixels lie in the band along the edge of that        *)
(* coverage (boundaryBand).                                                *)
(*                                                                         *)
(* Coordinates are in half pixels: the centre of pixel (i, j) is the       *)
(* lattice point (2i+1, 2j+1), and clip-space vertices are given in halves *)
(* (-2 .. 2 for -1.0 .. 1.0).  On this lattice the code's float64          *)
(* arithmetic is exact.                                                    *)
(***************************************************************************)
EXTENDS Integers, FiniteSets

CONSTANTS W, H     \* width and height of the target

ASSUME TargetAssumption == W \in Nat \ {0} /\ H \in Nat \ {0} /\ W % 2 = 0 /\ H % 2 = 0

Pixels == 0 .. W * H - 1
Col(p) == p % W
Row(p) == p \div W

\* Viewport.window with ViewportFor(W, H): scale W/2 and translate W/2.
Window(v) == <<(W * (v[1] + 2)) \div 2, (H * (v[2] + 2)) \div 2>>

\* Twice the signed area of the triangle a b c.
Edge(a, b, c) == (b[1] - a[1]) * (c[2] - a[2]) - (b[2] - a[2]) * (c[1] - a[1])

Centre(p) == <<2 * Col(p) + 1, 2 * Row(p) + 1>>

\* The edge functions of a pixel; divided by the area, its barycentric weights.
Weights(t, p) ==
  <<Edge(t[2], t[3], Centre(p)), Edge(t[3], t[1], Centre(p)), Edge(t[1], t[2], Centre(p))>>
Area(t) == Edge(t[1], t[2], t[3])

\* Mutant: only counter-clockwise triangles are filled.
InsideOneWinding(t, p) == Area(t) > 0 /\ \A i \in 1 .. 3 : Weights(t, p)[i] >= 0

\* Mutant: the boundary counts as outside.
InsideStrict(t, p) ==
  LET w == Weights(t, p)
  IN \/ Area(t) > 0 /\ \A i \in 1 .. 3 : w[i] > 0
     \/ Area(t) < 0 /\ \A i \in 1 .. 3 : w[i] < 0

\* Inside for either winding, the boundary included; nothing if degenerate.
Inside(t, p) ==
  LET w == Weights(t, p)
  IN \/ Area(t) > 0 /\ \A i \in 1 .. 3 : w[i] >= 0
     \/ Area(t) < 0 /\ \A i \in 1 .. 3 : w[i] <= 0

\* The coverage of the triangle with clip-space vertices v: pixel row j is
\* window y = j + 0.5, without a flip.
InWindow(v) == <<Window(v[1]), Window(v[2]), Window(v[3])>>
Rasterise(v) == [p \in Pixels |-> Inside(InWindow(v), p)]

Clamp(x, lo, hi) == IF x < lo THEN lo ELSE IF x > hi THEN hi ELSE x

\* roundUnit of n/d: to the nearest, within 0 .. 255.
RoundUnit(n, d) == Clamp((2 * n + d) \div (2 * d), 0, 255)

\* RGBA to the BGRA order of the render target.
Swizzle(c) == <<c[3], c[2], c[1], c[4]>>

\* rgbaFloatToBGRA, of channels in quarters.
RgbaToBGRA(c) == Swizzle([k \in 1 .. 4 |-> RoundUnit(c[k] * 255, 4)])

-----------------------------------------------------------------------------
(* Textures: [w, h, texel], texel[x][y] an RGBA tuple.  Texture coordinates *)
(* are fractions un/d and vn/d.  The code divides in float64: where the     *)
(* area is no power of two, "nearest" may differ from this on the border    *)
(* between two texels, and "linear" by the rounding of a tie.               *)

IsTexture(tex) ==
  /\ tex.w \in Nat \ {0} /\ tex.h \in Nat \ {0}
  /\ tex.texel \in [0 .. tex.w - 1 -> [0 .. tex.h - 1 -> [1 .. 4 -> 0 .. 255]]]

\* Mutant: the distance is taken from the clamped tap.
SampleClampFirst(tex, un, vn, d, filter) ==
  LET dd == 2 * d
      fx == 2 * un * tex.w - d
      fy == 2 * vn * tex.h - d
      x0 == Clamp(fx \div dd, 0, tex.w - 1)
      y0 == Clamp(fy \div dd, 0, tex.h - 1)
      dx == fx - x0 * dd
      dy == fy - y0 * dd
      tap(i, j) == tex.texel[Clamp(x0 + i, 0, tex.w - 1)][Clamp(y0 + j, 0, tex.h - 1)]
      blend(k) == (tap(0, 0)[k] * (dd - dx) + tap(1, 0)[k] * dx) * (dd - dy)
                    + (tap(0, 1)[k] * (dd - dx) + tap(1, 1)[k] * dx) * dy
  IN Swizzle([k \in 1 .. 4 |-> RoundUnit(blend(k), dd * dd)])

\* sample: the texel that covers the point, or the blend of the four taps
\* around it; every tap is clamped to the edge.
Sample(tex, un, vn, d, filter) ==
  LET dd == 2 * d
      fx == 2 * un * tex.w - d
      fy == 2 * vn * tex.h - d
      x0 == fx \div dd
      y0 == fy \div dd
      dx == fx % dd
      dy == fy % dd
      tap(i, j) == tex.texel[Clamp(x0 + i, 0, tex.w - 1)][Clamp(y0 + j, 0, tex.h - 1)]
      blend(k) == (tap(0, 0)[k] * (dd - dx) + tap(1, 0)[k] * dx) * (dd - dy)
                    + (tap(0, 1)[k] * (dd - dx) + tap(1, 1)[k] * dx) * dy
  IN Swizzle(IF filter = "nearest"
             THEN tex.texel[Clamp((un * tex.w) \div d, 0, tex.w - 1)][Clamp((vn * tex.h) \div d, 0, tex.h - 1)]
             ELSE [k \in 1 .. 4 |-> RoundUnit(blend(k), dd * dd)])

\* TexReference at a covered pixel: the texture coordinates of the vertices,
\* uv in halves, interpolated and sampled.
TexColour(v, uv, tex, filter, p) ==
  LET t == InWindow(v)
      w == Weights(t, p)
      sign == IF Area(t) > 0 THEN 1 ELSE -1
      at(i) == sign * (w[1] * uv[1][i] + w[2] * uv[2][i] + w[3] * uv[3][i])
  IN Sample(tex, at(1), at(2), 2 * sign * Area(t), filter)

-----------------------------------------------------------------------------

Abs(n) == IF n < 0 THEN -n ELSE n
Chebyshev(p, q) ==
  LET dx == Abs(Col(p) - Col(q))
      dy == Abs(Row(p) - Row(q))
  IN IF dx > dy THEN dx ELSE dy
Adjacent(p, q) == Abs(Col(p) - Col(q)) + Abs(Row(p) - Row(q)) = 1

\* Mutant: the border of the target counts as an edge, as compare.go:132 has it.
OnEdgeOrBorder(cov, p) ==
  \/ \E q \in Pixels : Adjacent(p, q) /\ cov[q] # cov[p]
  \/ Col(p) \in {0, W - 1} \/ Row(p) \in {0, H - 1}

\* A pixel is on the edge if one of its four neighbours differs.  The border of
\* the target does not count, other than the comment at compare.go:132 has it: a
\* neighbour outside the image is skipped.
OnEdge(cov, p) == \E q \in Pixels : Adjacent(p, q) /\ cov[q] # cov[p]

\* boundaryBand: the edge pixels, dilated by tol.
BoundaryBand(cov, tol) ==
  LET edge == {p \in Pixels : OnEdge(cov, p)}
  IN [p \in Pixels |-> \E q \in edge : Chebyshev(p, q) <= tol]
=============================================================================
