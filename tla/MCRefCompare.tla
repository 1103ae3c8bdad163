---------------------------- MODULE MCRefCompare ----------------------------
(* Palette: background, fill, a colour within ColourTol = 2 of the fill and *)
(* one outside it.  The triangle of cmd/validator (gpuVerts) is Fixture;    *)
(* AllTriangles holds both windings, edges through pixel centres, and       *)
(* triangles without area, all with their first vertex in the left half.    *)
(* Shallow is a texture whose blends lie on both sides of the tolerance;    *)
(* Gpu is the one of assertTexExact, Muted the same without channels of 0   *)
(* and 255, where rounding would hide a blend that leaves their range.      *)
EXTENDS RefCompare

Background == <<0, 0, 0, 0>>
Flat == RgbaToBGRA(<<1, 2, 3, 4>>)
Close == <<193, 128, 64, 255>>
Off == <<191, 128, 61, 255>>

Fixture == <<<<0, 1>>, <<-1, -1>>, <<1, -1>>>>
LowerLeft == {<<<<-2, -2>>, <<2, -2>>, <<-2, 2>>>>}
Corner == {<<x, y>> : x, y \in {-2, -1, 0, 1, 2}}
AllTriangles == {<<a, b, c>> : a \in {d \in Corner : d[1] <= 0}, b, c \in Corner}

Texture(c00, c10, c01, c11) ==
  [w |-> 2, h |-> 2,
   texel |-> [x \in 0 .. 1 |-> [y \in 0 .. 1 |->
                IF y = 0 THEN (IF x = 0 THEN c00 ELSE c10) ELSE (IF x = 0 THEN c01 ELSE c11)]]]
Gpu == Texture(<<255, 0, 0, 255>>, <<0, 255, 0, 255>>, <<0, 0, 255, 255>>, <<255, 255, 255, 255>>)
Muted == Texture(<<240, 16, 16, 200>>, <<16, 240, 16, 240>>, <<16, 16, 240, 200>>, <<240, 240, 240, 100>>)
Shallow == Texture(<<64, 128, 191, 255>>, <<64, 128, 195, 255>>, <<64, 128, 191, 255>>, <<62, 128, 191, 255>>)

FourColours == {Background, Flat, Close, Off}
Blank == {Background}
OnlyFixture == {Fixture}

Draw == [mode |-> "draw"]
OnlyDraw == {Draw}
ScanModes == {Draw, [mode |-> "clear"], [mode |-> "tex", tex |-> Shallow, filter |-> "linear"]}
Textured == {[mode |-> "tex", tex |-> Gpu, filter |-> "nearest"],
             [mode |-> "tex", tex |-> Muted, filter |-> "linear"]}
=============================================================================
