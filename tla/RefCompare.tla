----------------------------- MODULE RefCompare -----------------------------
(***************************************************************************)
(* compare of vtest/refrender/compare.go: one scan over the pixels of a    *)
(* readback, against the reference render of a flat or a textured triangle *)
(* (DrawReference, TexReference), as assertDrawExact and assertTexExact of *)
(* cmd/validator run it; and the scan of assertClearExact, which knows no  *)
(* tolerance.                                                              *)
(*                                                                         *)
(* A colour is a tuple of channels.  A pixel of the readback counts as     *)
(* covered when it is not the background colour.  Disagreements in         *)
(* coverage are forgiven inside the boundary band; colours are compared    *)
(* where both sides are covered.                                           *)
(***************************************************************************)
EXTENDS RefRender, Sequences

CONSTANTS
  Triangles,       \* triangles to render: triples of clip-space vertices
  Palette,         \* colours a readback may hold
  Fill, BG,        \* flat colour (also of a clear) and background colour
  Shadings,        \* modes of cmd/validator: [mode], for "tex" also [tex, filter]
  EdgeTol, ColourTol

Colours == [1 .. 4 -> 0 .. 255]

\* The modes of assertClearExact and assertDrawExact, and of assertTexExact.
IsShading(s) ==
  \/ s.mode \in {"clear", "draw"}
  \/ s.mode = "tex" /\ IsTexture(s.tex)

ASSUME CompareAssumption ==
  /\ EdgeTol \in Nat /\ ColourTol \in Nat
  /\ Fill # BG
  /\ Palette \cup {Fill, BG} \subseteq Colours
  /\ Triangles \subseteq [1 .. 3 -> [1 .. 2 -> Int]]
  /\ \A s \in Shadings : IsShading(s)

VARIABLES
  shade,           \* the mode
  verts,           \* the triangle
  real,            \* the readback
  cov, near,       \* its coverage and the band along its edge
  idx,             \* next pixel of the scan
  res,             \* the counters of Result
  pass             \* Result.Pass; FALSE until the scan is over

vars == <<shade, verts, real, cov, near, idx, res, pass>>

\* The texture coordinates of gpuVerts, in halves.
GpuUV == <<<<1, 2>>, <<0, 0>>, <<2, 0>>>>

\* DrawReference and TexReference.
Ref(p) == IF ~cov[p] THEN BG
          ELSE IF shade.mode = "tex" THEN TexColour(verts, GpuUV, shade.tex, shade.filter, p)
          ELSE Fill

MaxChannelDelta(a, b) ==
  LET deltas == {Abs(a[k] - b[k]) : k \in DOMAIN a}
  IN CHOOSE d \in deltas : \A e \in deltas : e <= d

\* assertClearExact, assertDrawExact and assertTexExact: each takes a readback
\* and has its own reference.
AssertExact ==
  /\ shade \in Shadings
  /\ verts \in Triangles
  /\ real \in [Pixels -> Palette]

Init ==
  /\ AssertExact
  /\ cov = Rasterise(verts)
  /\ near = BoundaryBand(cov, EdgeTol)
  /\ idx = 0
  /\ res = [interior |-> 0, covMatch |-> 0, covMismatch |-> 0, covExact |-> 0,
            maxDelta |-> 0, tested |-> 0]
  /\ pass = FALSE

One(b) == IF b THEN 1 ELSE 0

\* Mutant: paint outside the triangle is not a mismatch.
ScanPixelInteriorOnly ==
  LET p == idx
      realIn == real[p] # BG
      covOK == cov[p] = realIn \/ near[p]
      d == MaxChannelDelta(real[p], Ref(p))
  IN /\ idx \in Pixels /\ shade.mode # "clear"
     /\ res' = [interior |-> res.interior + One(cov[p]),
                covMatch |-> res.covMatch + One(cov[p] /\ covOK),
                covMismatch |-> res.covMismatch + One(cov[p] /\ ~covOK),
                covExact |-> res.covExact + One(cov[p] = realIn),
                maxDelta |-> IF cov[p] /\ realIn /\ d > res.maxDelta THEN d ELSE res.maxDelta,
                tested |-> res.tested + One(cov[p] /\ realIn)]
     /\ idx' = idx + 1
     /\ UNCHANGED <<shade, verts, real, cov, near, pass>>

\* Mutant: the last delta replaces the largest.
ScanPixelLastDelta ==
  LET p == idx
      realIn == real[p] # BG
      covOK == cov[p] = realIn \/ near[p]
      d == MaxChannelDelta(real[p], Ref(p))
  IN /\ idx \in Pixels /\ shade.mode # "clear"
     /\ res' = [interior |-> res.interior + One(cov[p]),
                covMatch |-> res.covMatch + One(cov[p] /\ covOK),
                covMismatch |-> res.covMismatch + One(~covOK),
                covExact |-> res.covExact + One(cov[p] = realIn),
                maxDelta |-> IF cov[p] /\ realIn THEN d ELSE res.maxDelta,
                tested |-> res.tested + One(cov[p] /\ realIn)]
     /\ idx' = idx + 1
     /\ UNCHANGED <<shade, verts, real, cov, near, pass>>

\* One iteration of the double loop.
ScanPixel ==
  LET p == idx
      realIn == real[p] # BG
      covOK == cov[p] = realIn \/ near[p]
      d == MaxChannelDelta(real[p], Ref(p))
  IN /\ idx \in Pixels /\ shade.mode # "clear"
     /\ res' = [interior |-> res.interior + One(cov[p]),
                covMatch |-> res.covMatch + One(cov[p] /\ covOK),
                covMismatch |-> res.covMismatch + One(~covOK),
                covExact |-> res.covExact + One(cov[p] = realIn),
                maxDelta |-> IF cov[p] /\ realIn /\ d > res.maxDelta THEN d ELSE res.maxDelta,
                tested |-> res.tested + One(cov[p] /\ realIn)]
     /\ idx' = idx + 1
     /\ UNCHANGED <<shade, verts, real, cov, near, pass>>

\* assertClearExact: no mask, no band, no tolerance.
ClearPixel ==
  /\ idx \in Pixels /\ shade.mode = "clear"
  /\ res' = [res EXCEPT !.covMismatch = @ + One(real[idx] # Fill)]
  /\ idx' = idx + 1
  /\ UNCHANGED <<shade, verts, real, cov, near, pass>>

\* res.Pass, after the loop.
Verdict ==
  /\ idx = W * H
  /\ pass' = (res.covMismatch = 0 /\ res.maxDelta <= ColourTol)
  /\ idx' = idx + 1
  /\ UNCHANGED <<shade, verts, real, cov, near, res>>

Next == ScanPixel \/ ClearPixel \/ Verdict

Spec == Init /\ [][Next]_vars

Done == idx = W * H + 1

-----------------------------------------------------------------------------
(* Properties.                                                             *)

\* The scan's state has its type.
TypeOK ==
  /\ idx \in 0 .. W * H + 1
  /\ cov \in [Pixels -> BOOLEAN] /\ near \in [Pixels -> BOOLEAN]
  /\ res \in [interior : Nat, covMatch : Nat, covMismatch : Nat, covExact : Nat,
             maxDelta : Nat, tested : Nat]
  /\ pass \in BOOLEAN

\* The pixels that the scan has passed.
Seen == {p \in Pixels : p < idx}

Agrees(p) == cov[p] = (real[p] # BG)
ColourOK(p) == \A k \in DOMAIN BG : Abs(real[p][k] - Ref(p)[k]) <= ColourTol

\* The verdict of the scan (compare.go:111-113) is the declarative one: outside
\* the band the coverage agrees everywhere, and wherever both sides are covered
\* every channel is within the tolerance of the flat or sampled colour.  A
\* clear passes if the whole frame has its colour.
PassIsAgreement ==
  Done => (pass <=> IF shade.mode = "clear"
                    THEN \A p \in Pixels : real[p] = Fill
                    ELSE \A p \in Pixels : /\ Agrees(p) \/ near[p]
                                           /\ cov[p] /\ real[p] # BG => ColourOK(p))

\* The counters have their type and partition the pixels: every covered pixel
\* is a match or a mismatch, and colours are tested exactly where both sides are
\* covered (compare.go:53-102).
CountersAddUp ==
  /\ TypeOK
  /\ shade.mode # "clear" =>
       /\ res.interior = Cardinality({p \in Seen : cov[p]})
       /\ res.covMatch + res.covMismatch =
            res.interior + Cardinality({p \in Seen : ~cov[p] /\ ~Agrees(p) /\ ~near[p]})
       /\ res.covExact = Cardinality({p \in Seen : Agrees(p)})
       /\ res.tested = Cardinality({p \in Seen : cov[p] /\ real[p] # BG})

Rotated(s) == <<s[2], s[3], s[1]>>
Mirrored(s) == <<s[1], s[3], s[2]>>

\* Neither coverage nor sampled colours depend on the order in which the
\* vertices are given with their texture coordinates, so on neither winding
\* (refrender.go:72-74, 176-179).
WindingIrrelevant ==
  idx = 0 =>
    /\ cov = Rasterise(Rotated(verts)) /\ cov = Rasterise(Mirrored(verts))
    /\ shade.mode = "tex" =>
         \A p \in Pixels : cov[p] =>
           /\ Ref(p) = TexColour(Rotated(verts), Rotated(GpuUV), shade.tex, shade.filter, p)
           /\ Ref(p) = TexColour(Mirrored(verts), Mirrored(GpuUV), shade.tex, shade.filter, p)

\* Filtering never leaves the range of the texels: at the edge of the texture
\* the taps are clamped and still weighted by their true distance
\* (refrender.go:195-215), so no channel is brighter or darker than all texels.
BlendStaysInRange ==
  idx = 0 /\ shade.mode = "tex" =>
    \A p \in Pixels, k \in 1 .. 4 : cov[p] =>
      LET chans == {Swizzle(shade.tex.texel[x][y])[k] : x \in 0 .. shade.tex.w - 1, y \in 0 .. shade.tex.h - 1}
      IN (\E c \in chans : c <= Ref(p)[k]) /\ (\E c \in chans : c >= Ref(p)[k])

\* Splitting the triangle at the middle of its first edge leaves no crack
\* between the halves: boundaries count as inside for both (refrender.go:106-108).
NoCrack ==
  LET a == verts[1] b == verts[2] c == verts[3]
      mid == <<(a[1] + b[1]) \div 2, (a[2] + b[2]) \div 2>>
  IN idx = 0 /\ (a[1] + b[1]) % 2 = 0 /\ (a[2] + b[2]) % 2 = 0 =>
       LET left == Rasterise(<<a, mid, c>>)
           right == Rasterise(<<mid, b, c>>)
       IN \A p \in Pixels : cov[p] => left[p] \/ right[p]

\* The band has both sides of the edge and is no wider than it says: it holds
\* every pixel within EdgeTol of a pixel of the other kind, and none that is
\* more than EdgeTol + 1 away from all of them.  So the border of the image is
\* forgiven nothing, and an image that is covered throughout has no band at all:
\* the comment at compare.go:132 counts the border as a boundary, the loop below
\* it skips neighbours outside the image.
BandHugsEdge ==
  idx = 0 =>
    \A p \in Pixels :
      /\ (\E q \in Pixels : cov[q] # cov[p] /\ Chebyshev(p, q) <= EdgeTol) => near[p]
      /\ near[p] => \E q \in Pixels : cov[q] # cov[p] /\ Chebyshev(p, q) <= EdgeTol + 1

-----------------------------------------------------------------------------
(* The inductive invariant.                                                *)

\* The frames and masks are those of the start.
World ==
  /\ shade \in Shadings /\ verts \in Triangles /\ real \in [Pixels -> Palette]
  /\ cov = Rasterise(verts) /\ near = BoundaryBand(cov, EdgeTol)

\* What the two counters that decide the verdict say of the pixels so far.
FoundSoFar ==
  IF shade.mode = "clear"
  THEN /\ res.maxDelta = 0
       /\ res.covMismatch = 0 <=> \A p \in Seen : real[p] = Fill
  ELSE /\ res.covMismatch = 0 <=> \A p \in Seen : Agrees(p) \/ near[p]
       /\ res.maxDelta <= ColourTol <=> \A p \in Seen : cov[p] /\ real[p] # BG => ColourOK(p)

\* The state of the scan after every pixel (compare.go:53-113).
ScanInv ==
  /\ World /\ CountersAddUp /\ FoundSoFar
  /\ Done => (pass <=> res.covMismatch = 0 /\ res.maxDelta <= ColourTol)

-----------------------------------------------------------------------------
(* What the repository says of the comparison and the code does not do.    *)

\* cmd/validator/main.go:264: a pass means that "the interior is the flat gpu
\* colour"; at least one covered pixel must then have it.
PassShowsFill == Done /\ pass => \E p \in Pixels : cov[p] /\ ColourOK(p)
=============================================================================
