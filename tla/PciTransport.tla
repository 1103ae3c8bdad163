---------------------------- MODULE PciTransport ----------------------------
(***************************************************************************)
(* guest/transport: what the virtio drivers of the guests see of a PCI     *)
(* device.  Configuration space is read a dword at a time and smaller      *)
(* values are cut out of it; a 64-bit register is accessed as two 32-bit   *)
(* words, between which the device goes on working; pages come out of the  *)
(* fixed DMA region of guest/board and are never given back.               *)
(*                                                                         *)
(* One 64-bit BAR register is modelled.  It belongs to the driver          *)
(* ("latch": a queue address) or to the device ("counter").  ByteBase is   *)
(* 256 and WordBase 2^32 in the machine; the region has 65536 pages.       *)
(***************************************************************************)
EXTENDS Integers, FiniteSets

CONSTANTS
  ByteBase,        \* number of values of a byte
  WordBase,        \* number of values of a 32-bit word
  RegionStart,     \* number of the first page of the DMA region
  RegionPages,     \* and its size
  Unmapped         \* BARs without a base address

Bars == 0 .. 5
Offsets == 0 .. 7

ASSUME TransportAssumption ==
  /\ ByteBase \in Nat \ {0} /\ WordBase \in Nat \ {0}
  /\ RegionStart \in Nat \ {0} /\ RegionPages \in Nat
  /\ Unmapped \subseteq Bars

VARIABLES
  cfg,             \* configuration space: a byte for every offset
  cmd,             \* enabled bits of the PCI command register
  barBase,         \* Transport.barBase; empty before New
  owner,           \* who changes the register: "latch" or "counter"
  reg,             \* the 64-bit register
  call,            \* the 64-bit access in progress
  ret,             \* the last access that returned
  blocks           \* reserved blocks of pages: <<first page, count>>

barVars == <<reg, call, ret>>
transportVars == <<cfg, cmd, barBase, owner, barVars, blocks>>

Region == RegionStart .. RegionStart + RegionPages - 1
PagesOf(b) == b[1] .. b[1] + b[2] - 1
Taken == UNION {PagesOf(b) : b \in blocks}

\* began and ended are ghosts: the register at the first and the last access.
Access(op, v, old) == [op |-> op, val |-> v, began |-> old, ended |-> old]
Nothing == Access("none", 0, 0)

-----------------------------------------------------------------------------
(* Configuration space.                                                    *)

Pow(k) == CASE k = 0 -> 1 [] k = 1 -> ByteBase [] k = 2 -> ByteBase * ByteBase
            [] OTHER -> ByteBase * ByteBase * ByteBase

\* The aligned dword that contains the offset.
Dword(o) ==
  LET a == o - (o % 4)
  IN cfg[a] + cfg[a + 1] * Pow(1) + cfg[a + 2] * Pow(2) + cfg[a + 3] * Pow(3)

ReadConfig8(o) == (Dword(o) \div Pow(o % 4)) % ByteBase

\* The shift is (offset & 2) * 8: an odd offset gets the word it lies in.
ReadConfig16(o) == (Dword(o) \div Pow(2 * ((o % 4) \div 2))) % Pow(2)

ReadConfig32(o) == Dword(o)

-----------------------------------------------------------------------------
(* New, and accesses to a BAR.                                             *)

TransportInit ==
  /\ cmd = {} /\ barBase = << >>
  /\ call = Nothing /\ ret = Nothing
  /\ blocks = {}

\* Memory space and bus mastering are enabled before the bases are read.
New ==
  /\ barBase = << >>
  /\ cmd' = cmd \cup {"memory", "master"}
  /\ barBase' = [i \in Bars |-> IF i \in Unmapped THEN 0 ELSE 1]
  /\ UNCHANGED <<cfg, owner, barVars, blocks>>

\* addr: the BAR exists and has a base.
Resolves(bar) == bar \in Bars /\ barBase[bar] # 0

\* errBadBAR, and nothing is touched.
BadBar(bar) ==
  /\ barBase # << >> /\ call = Nothing
  /\ ~Resolves(bar)
  /\ ret' = Access("errBadBAR", 0, 0)
  /\ UNCHANGED <<cfg, cmd, barBase, owner, reg, call, blocks>>

\* The words of a register: "lo" at its offset, "hi" four bytes further.
Words == {"lo", "hi"}

Word(v, w) == IF w = "lo" THEN v % WordBase ELSE v \div WordBase
WithWord(v, w, x) ==
  IF w = "lo" THEN (v \div WordBase) * WordBase + x ELSE x * WordBase + (v % WordBase)

Ready(bar) == barBase # << >> /\ call = Nothing /\ Resolves(bar)
RestOfBar == UNCHANGED <<cfg, cmd, barBase, owner, blocks>>

\* Read8, Read16 and Read32 are one access of the machine; so are the writes.
ReadNarrow(bar, w) ==
  /\ Ready(bar)
  /\ ret' = Access("narrow", Word(reg, w), reg)
  /\ UNCHANGED <<reg, call>> /\ RestOfBar

WriteNarrow(bar, w, x) ==
  /\ Ready(bar) /\ owner = "latch"
  /\ reg' = WithWord(reg, w, x)
  /\ ret' = Access("narrow", x, reg)
  /\ UNCHANGED call /\ RestOfBar

\* Mutant: the high word first.
OrderHighFirst == <<"hi", "lo">>

\* Read64 and Write64 take the low word first.
Order == <<"lo", "hi">>

Read64Begin(bar) ==
  /\ Ready(bar)
  /\ call' = Access("read", WithWord(0, Order[1], Word(reg, Order[1])), reg)
  /\ UNCHANGED <<reg, ret>> /\ RestOfBar

Read64End ==
  /\ call.op = "read"
  /\ ret' = [call EXCEPT !.val = WithWord(@, Order[2], Word(reg, Order[2])), !.ended = reg]
  /\ call' = Nothing
  /\ UNCHANGED reg /\ RestOfBar

Write64Begin(bar, v) ==
  /\ Ready(bar) /\ owner = "latch"
  /\ reg' = WithWord(reg, Order[1], Word(v, Order[1]))
  /\ call' = Access("write", v, reg)
  /\ UNCHANGED ret /\ RestOfBar

Write64End ==
  /\ call.op = "write"
  /\ reg' = WithWord(reg, Order[2], Word(call.val, Order[2]))
  /\ ret' = call
  /\ call' = Nothing
  /\ RestOfBar

\* The device advances its own register.
DeviceCounts ==
  /\ owner = "counter" /\ reg + 1 < WordBase * WordBase
  /\ reg' = reg + 1
  /\ UNCHANGED <<call, ret>> /\ RestOfBar

-----------------------------------------------------------------------------
(* Pages.                                                                  *)

\* dma.Reserve: some free run of pages; none if the region has no such run.
FreeRuns(n) == {p \in Region : p + n - 1 \in Region /\ (p .. p + n - 1) \cap Taken = {}}

\* Nothing is reserved (errBadAlloc) if no page is asked for or no run is free.
\* The zeroes written to the pages are content, which is not modelled.
AllocatePages(n) ==
  /\ n > 0
  /\ \E p \in FreeRuns(n) : blocks' = blocks \cup {<<p, n>>}
  /\ UNCHANGED <<cfg, cmd, barBase, owner, barVars>>

-----------------------------------------------------------------------------
(* Properties of the transport.                                            *)

\* The state of the transport has its type.
TransportTypeOK ==
  /\ cmd \subseteq {"memory", "master"}
  /\ owner \in {"latch", "counter"} /\ reg \in 0 .. WordBase * WordBase - 1
  /\ call.op \in {"none", "read", "write"}
  /\ \A b \in blocks : PagesOf(b) \subseteq Region

\* A byte read returns the byte at its offset, odd ones included: the capability
\* walk reads single bytes at +1, +3 and +5 (transport.go:61-68).  Wider reads
\* are of the aligned value the offset lies in: two bytes from o & ~1, four from
\* o & ~3 (transport.go:83-91).
ConfigReads ==
  \A o \in Offsets :
    LET e == o - (o % 2)  a == o - (o % 4)
    IN /\ ReadConfig8(o) = cfg[o]
       /\ ReadConfig16(o) = cfg[e] + cfg[e + 1] * ByteBase
       /\ ReadConfig32(o) % Pow(2) = ReadConfig16(a)
       /\ ReadConfig32(o) \div Pow(2) = ReadConfig16(a + 2)

\* A register only the driver writes holds the value of the last Write64, and
\* Read64 returns it, though both take two accesses (transport.go:131, 172).
LatchExact ==
  owner = "latch" /\ call = Nothing /\ ret.op \in {"read", "write"} => reg = ret.val

\* Read64 of a register that the device advances is not atomic: it returns what
\* the register held when the read began, unless the low word carried between
\* the two accesses.  Then the value is one that the register need never have
\* held, but not behind the beginning, and less than WordBase beyond the end
\* (transport.go:131-142).
TornOnlyOnCarry ==
  ret.op = "read" =>
    /\ ret.val \in ret.began .. ret.ended + WordBase - 1
    /\ Word(ret.began, "hi") = Word(ret.ended, "hi") => ret.val = ret.began

\* What an access of each width returns.
AccessExact == TransportTypeOK /\ ConfigReads /\ LatchExact /\ TornOnlyOnCarry
=============================================================================
