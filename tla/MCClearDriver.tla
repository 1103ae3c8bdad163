--------------------------- MODULE MCClearDriver ----------------------------
(* Two command types, one of them zero as vkCreateInstance is; commands of  *)
(* one or two dwords in a ring of three, so that a batch can fill the ring  *)
(* and every alignment of a wrap occurs.                                    *)
EXTENDS ClearDriver
=============================================================================
