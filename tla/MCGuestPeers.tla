---------------------------- MODULE MCGuestPeers ----------------------------
(* Four bytes, one of them twice as in the real token, can be cut, shifted *)
(* and swapped in any chunking; three polls let the guest's line fall      *)
(* before, between and after them.                                         *)
EXTENDS GuestPeers

FourBytes == <<1, 2, 1, 3>>
AllKinds == {"plain", "balloon", "net", "console", "vsock", "gpu", "venus"}
=============================================================================
