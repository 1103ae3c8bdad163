-------------------------- MODULE GuestChecksProofs -------------------------
(***************************************************************************)
(* Proofs about PciTransport and GuestChecks: for every size of bytes,     *)
(* words and DMA region, every disk that may start a request anywhere, and *)
(* every sample of the entropy source in which m values occur h times.     *)
(***************************************************************************)
EXTENDS GuestChecks, ArithmeticLemmas

-----------------------------------------------------------------------------
(* The invariants.                                                         *)

Word64 == 0 .. WordBase * WordBase - 1
Returned == {"none", "read", "write", "narrow", "errBadBAR"}

\* A 64-bit access between its two words: the low word read is the one of the
\* moment the read began, the low word written is already in the register.
AccessUnderWay ==
  /\ call.op = "read" => /\ call.val = Word(call.began, "lo") /\ call.began <= reg
                         /\ owner = "latch" => call.began = reg
  /\ call.op = "write" => owner = "latch" /\ Word(reg, "lo") = Word(call.val, "lo")

TransportInv ==
  /\ TransportTypeOK
  /\ cfg \in [Offsets -> 0 .. ByteBase - 1]
  /\ call \in [op : {"none", "read", "write"}, val : Word64, began : Word64, ended : Word64]
  /\ ret \in [op : Returned, val : Word64, began : Word64, ended : Word64]
  /\ AccessUnderWay /\ LatchExact /\ TornOnlyOnCarry

\* Sector s holds what the write of case j put there.
WrittenBy(s, j) ==
  /\ s \in blk.wt[j] .. blk.wt[j] + blk.kept[j] - 1
  /\ blk.disk[s] = Stamp(Cases[j].start + (s - blk.wt[j]))

\* What the disk holds comes from the writes so far, the latest one first.
DiskFromWrites ==
  \A s \in Sectors : blk.disk[s] = -1 \/ \E j \in 1 .. Len(blk.wt) : WrittenBy(s, j)
LastWriteHolds ==
  \A j \in 1 .. Len(blk.wt) : \A s \in blk.wt[j] .. blk.wt[j] + blk.kept[j] - 1 :
    \E l \in j .. Len(blk.wt) : WrittenBy(s, l)

BlkInv ==
  job = "blk" =>
    /\ blk \in [k : 1 .. 4, disk : [Sectors -> Int], wt : Seq(BlkTargets), kept : Seq(Nat),
                rt : Seq(BlkTargets)]
    /\ Len(blk.wt) <= 3 /\ Len(blk.kept) = Len(blk.wt)
    /\ \A j \in 1 .. Len(blk.wt) : blk.kept[j] <= Cases[j].count
    /\ pc # "halted" => /\ Len(blk.rt) = blk.k - 1
                        /\ Len(blk.wt) = IF pc \in {"flush", "read"} THEN blk.k ELSE blk.k - 1
                        /\ (pc = "reread" <=> blk.k = 4)
                        /\ \A j \in 1 .. blk.k - 1 :
                             blk.rt[j] = blk.wt[j] /\ blk.kept[j] = Cases[j].count
    /\ DiskFromWrites /\ LastWriteHolds

\* Where a request of the balloon can be: <<round, pages left, buffers taken>>.
BalloonPlaces ==
  {<<1, 64, 0>>, <<1, 0, 1>>, <<2, 64, 1>>, <<2, 0, 2>>,
   <<3, 300, 2>>, <<3, 44, 3>>, <<3, 0, 4>>, <<4, 300, 4>>, <<4, 44, 5>>, <<4, 0, 6>>}

\* Every round has ended with the Actual it should, and for a driver that counts
\* what it posts, with that many pages in the balloon.
BalloonInv ==
  job = "balloon" =>
    /\ bal \in [op : 1 .. 4, left : Nat, actual : Int, buffers : Nat, given : Int, back : Int,
                miscount : BOOLEAN]
    /\ <<bal.op, bal.left, bal.buffers>> \in BalloonPlaces
    /\ ~bal.miscount => /\ bal.actual = bal.given - bal.back
                        /\ bal.op = 1 => bal.back = 0
                        /\ bal.op = 2 => bal.given = 64
                        /\ bal.op = 3 => bal.back = 64
                        /\ bal.op = 4 => bal.given = 364

FsInv ==
  job = "fs" =>
    /\ srv \in [hello : {"want", "sameSize", "otherSize", "absent"},
                cache : {"none", "token", "part"}, stable : {"none", "token", "part"}]
    /\ pc \in {"create", "write token", "fsync", "readback"} => srv.hello = "want"

GuestPart ==
  /\ job \in Jobs /\ (pc = "open" => job \in Validators)
  /\ verdict \in {"none", "PASS", "FAIL"} /\ (verdict = "PASS" => pc = "halted")
  /\ BlkInv /\ BalloonInv /\ FsInv
  /\ PassMeans

\* The inductive invariant.
GuestInv == TransportInv /\ GuestPart

-----------------------------------------------------------------------------
(* The transport.                                                          *)

\* The two words of a register, and the register made of two words.
LEMMA Words64 ==
  ASSUME NEW v \in Word64, NEW lo \in 0 .. WordBase - 1
  PROVE  /\ v % WordBase \in 0 .. WordBase - 1
         /\ v \div WordBase \in 0 .. WordBase - 1
         /\ v = (v \div WordBase) * WordBase + (v % WordBase)
         /\ (v \div WordBase) * WordBase + lo \in Word64
         /\ ((v \div WordBase) * WordBase + lo) % WordBase = lo
         /\ ((v \div WordBase) * WordBase + lo) \div WordBase = v \div WordBase
         /\ lo * WordBase + (v % WordBase) \in Word64
         /\ (lo * WordBase + (v % WordBase)) % WordBase = v % WordBase
         /\ (lo * WordBase + (v % WordBase)) \div WordBase = lo
<1> DEFINE B == WordBase
           q == v \div B
           r == v % B
<1>1. B \in Nat \ {0} /\ v \in Nat  BY TransportAssumption DEF Word64
<1>2. r \in 0 .. B - 1 /\ q \in Nat /\ v = B * q + r  BY <1>1, DivMod
<1>3. v <= B * B - 1 /\ B * B \in Nat  BY <1>1 DEF Word64
<1> HIDE DEF q, r
<1>4. q <= B - 1
  <2>1. SUFFICES ASSUME q - B >= 0 PROVE FALSE  BY <1>1, <1>2
  <2>2. B * (q - B) >= 0  BY <1>1, <1>2, <2>1, Z3
  <2>3. B * (q - B) = B * q - B * B  BY <1>1, <1>2, Z3
  <2>4. B * q \in Int  BY <1>1, <1>2
  <2>5. QED  BY <1>2, <1>3, <2>2, <2>3, <2>4
<1>5. \A h, l \in 0 .. B - 1 : h * B + l \in 0 .. B * B - 1
  <2> SUFFICES ASSUME NEW h \in 0 .. B - 1, NEW l \in 0 .. B - 1
               PROVE  h * B + l \in 0 .. B * B - 1
    OBVIOUS
  <2>1. (B - 1 - h) * B >= 0 /\ h * B >= 0  BY <1>1, Z3
  <2>2. (B - 1 - h) * B = B * B - B - h * B  BY <1>1, Z3
  <2>3. QED  BY <2>1, <2>2, <1>1
<1>6. \A h, l \in 0 .. B - 1 : (h * B + l) % B = l /\ (h * B + l) \div B = h
  <2> SUFFICES ASSUME NEW h \in 0 .. B - 1, NEW l \in 0 .. B - 1
               PROVE  (h * B + l) % B = l /\ (h * B + l) \div B = h
    OBVIOUS
  <2>1. h * B = B * h  BY <1>1, Z3
  <2>2. (B * h + l) % B = l /\ (B * h + l) \div B = h  BY <1>1, DivModOf
  <2>3. QED  BY <2>1, <2>2
<1>7. q \in 0 .. B - 1 /\ q * B = B * q  BY <1>1, <1>2, <1>4, Z3
<1>8. QED  BY <1>2, <1>5, <1>6, <1>7 DEF q, r, Word64

\* What Read64, Write64 and the narrow accesses do with the words.
LEMMA RegisterWords ==
  /\ \A v \in Word64, w \in Words : Word(v, w) \in 0 .. WordBase - 1
  /\ \A v \in Word64, w \in Words, x \in 0 .. WordBase - 1 : WithWord(v, w, x) \in Word64
  /\ \A x \in 0 .. WordBase - 1 : WithWord(0, "lo", x) = x /\ x \in Word64 /\ Word(x, "lo") = x
  /\ \A v \in Word64, x \in 0 .. WordBase - 1 :
       /\ Word(WithWord(v, "hi", x), "hi") = x /\ Word(WithWord(v, "hi", x), "lo") = Word(v, "lo")
       /\ Word(WithWord(v, "lo", x), "lo") = x
  /\ \A u, v \in Word64 : Word(u, "lo") = Word(v, "lo") => WithWord(u, "hi", Word(v, "hi")) = v
  /\ \A u, v \in Word64 : u <= v => Word(u, "hi") <= Word(v, "hi")
  /\ \A u, v \in Word64 : u <= v =>
       LET x == WithWord(Word(u, "lo"), "hi", Word(v, "hi"))
       IN x \in u .. v + WordBase - 1 /\ (Word(u, "hi") = Word(v, "hi") => x = u)
<1> DEFINE V == 0 .. WordBase - 1
<1>1. WordBase \in Nat \ {0} /\ 0 \in V /\ 0 \in Word64 /\ \A v \in Word64 : v \in Nat
  BY TransportAssumption DEF Word64
<1>2. \A v \in Word64, x \in V :
         /\ v % WordBase \in V /\ v \div WordBase \in V
         /\ v = (v \div WordBase) * WordBase + (v % WordBase)
         /\ (v \div WordBase) * WordBase + x \in Word64
         /\ ((v \div WordBase) * WordBase + x) % WordBase = x
         /\ x * WordBase + (v % WordBase) \in Word64
         /\ (x * WordBase + (v % WordBase)) % WordBase = v % WordBase
         /\ (x * WordBase + (v % WordBase)) \div WordBase = x
  BY Words64
<1>3. \A x \in V : x \in Word64 /\ x % WordBase = x /\ x \div WordBase = 0
  <2> SUFFICES ASSUME NEW x \in V PROVE x \in Word64 /\ x % WordBase = x /\ x \div WordBase = 0
    OBVIOUS
  <2>1. WordBase * 0 + x = x  BY <1>1
  <2>2. (WordBase * 0 + x) \div WordBase = 0 /\ (WordBase * 0 + x) % WordBase = x
    BY <1>1, DivModOf
  <2>3. WordBase * WordBase >= WordBase  BY <1>1, Z3
  <2>4. QED  BY <1>1, <2>1, <2>2, <2>3 DEF Word64
<1>4. \A u, v \in Word64 : u <= v => u \div WordBase <= v \div WordBase
  BY <1>1, DivMonotone
<1>5. ASSUME NEW u \in Word64, NEW v \in Word64, u <= v
      PROVE  LET x == (v \div WordBase) * WordBase + (u % WordBase)
             IN x \in u .. v + WordBase - 1 /\ (u \div WordBase = v \div WordBase => x = u)
  <2> DEFINE a == u \div WordBase
             b == v \div WordBase
             r == u % WordBase
             t == v % WordBase
  <2>1. /\ a \in V /\ b \in V /\ r \in V /\ t \in V /\ a <= b
        /\ u = a * WordBase + r /\ v = b * WordBase + t
    BY <1>1, <1>2, <1>4, <1>5
  <2> HIDE DEF a, b, r, t
  <2>2. (b - a) * WordBase >= 0 /\ (b - a) * WordBase = b * WordBase - a * WordBase
    BY <1>1, <2>1, Z3
  <2>3. a * WordBase \in Int /\ b * WordBase \in Int  BY <1>1, <2>1
  <2>4. b * WordBase + r \in u .. v + WordBase - 1  BY <1>1, <2>1, <2>2, <2>3
  <2>5. a = b => b * WordBase + r = u  BY <2>1
  <2>6. QED  BY <2>4, <2>5 DEF a, b, r
<1>6. \A v \in Word64, w \in Words : Word(v, w) \in V  BY <1>1, <1>2 DEF Word, Words
<1>7. \A v \in Word64, w \in Words, x \in V : WithWord(v, w, x) \in Word64
  BY <1>2 DEF WithWord, Words
<1>8. \A x \in V : WithWord(0, "lo", x) = x /\ x \in Word64 /\ Word(x, "lo") = x
  BY <1>1, <1>3 DEF WithWord, Word
<1>9. \A v \in Word64, x \in V :
        /\ Word(WithWord(v, "hi", x), "hi") = x /\ Word(WithWord(v, "hi", x), "lo") = Word(v, "lo")
        /\ Word(WithWord(v, "lo", x), "lo") = x
  BY <1>2 DEF WithWord, Word
<1>10. \A u, v \in Word64 : Word(u, "lo") = Word(v, "lo") => WithWord(u, "hi", Word(v, "hi")) = v
  BY <1>1, <1>2 DEF WithWord, Word
<1>11. \A u, v \in Word64 : u <= v => Word(u, "hi") <= Word(v, "hi")
  BY <1>4 DEF Word
<1>12. \A u, v \in Word64 : u <= v =>
         LET x == WithWord(Word(u, "lo"), "hi", Word(v, "hi"))
         IN x \in u .. v + WordBase - 1 /\ (Word(u, "hi") = Word(v, "hi") => x = u)
  <2> DEFINE X(u, v) == WithWord(Word(u, "lo"), "hi", Word(v, "hi"))
  <2> SUFFICES ASSUME NEW u \in Word64, NEW v \in Word64, u <= v
               PROVE  /\ X(u, v) \in u .. v + WordBase - 1
                      /\ Word(u, "hi") = Word(v, "hi") => X(u, v) = u
    OBVIOUS
  <2>1. Word(Word(u, "lo"), "lo") = Word(u, "lo")  BY <1>6, <1>8 DEF Words
  <2>2. WithWord(Word(u, "lo"), "hi", Word(v, "hi")) = (v \div WordBase) * WordBase + (u % WordBase)
    BY <2>1 DEF WithWord, Word
  <2>3. Word(u, "hi") = u \div WordBase /\ Word(v, "hi") = v \div WordBase  BY DEF Word
  <2>4. QED  BY <1>5, <2>2, <2>3
<1>13. QED  BY <1>6, <1>7, <1>8, <1>9, <1>10, <1>11, <1>12

\* Every access to a BAR, and the device's own step between two words of one.
LEMMA BarStepInv ==
  ASSUME TransportInv, NEW bar,
         \/ BadBar(bar) \/ Read64Begin(bar) \/ Read64End \/ Write64End \/ DeviceCounts
         \/ \E w \in Words : ReadNarrow(bar, w) \/ \E x \in 0 .. WordBase - 1 : WriteNarrow(bar, w, x)
         \/ \E v \in Word64 : Write64Begin(bar, v)
  PROVE  TransportInv'
<1> USE DEF TransportInv
<1>1. reg \in Word64 /\ 0 \in Word64 /\ (\A v \in Word64 : v \in Nat)
  BY TransportAssumption DEF TransportTypeOK, Word64
<1>2. Nothing.op = "none" /\ Nothing \in [op : {"none", "read", "write"}, val : Word64, began : Word64, ended : Word64]
  BY <1>1 DEF Nothing, Access
<1>3. "lo" \in Words /\ "hi" \in Words /\ Order[1] = "lo" /\ Order[2] = "hi"
  BY DEF Words, Order
<1> DEFINE Rest == UNCHANGED <<cfg, cmd, owner, blocks>>
           Frame == reg' \in Word64 /\ Rest
<1>4. Frame /\ call' \in [op : {"none", "read", "write"}, val : Word64, began : Word64, ended : Word64] =>
        TransportTypeOK' /\ cfg' \in [Offsets -> 0 .. ByteBase - 1]
  BY DEF TransportTypeOK, Word64, PagesOf, Region
<1>5. CASE BadBar(bar)
  <2>1. Rest /\ UNCHANGED <<reg, call>> /\ ret' = [op |-> "errBadBAR", val |-> 0, began |-> 0, ended |-> 0]
    BY <1>5 DEF BadBar, Access
  <2>2. ret' \in [op : Returned, val : Word64, began : Word64, ended : Word64]  BY <1>1, <2>1 DEF Returned
  <2>3. QED  BY <1>1, <1>4, <2>1, <2>2 DEF AccessUnderWay, LatchExact, TornOnlyOnCarry
<1>6. CASE Read64Begin(bar)
  <2>1. /\ Rest /\ UNCHANGED <<reg, ret>>
        /\ call' = [op |-> "read", val |-> WithWord(0, "lo", Word(reg, "lo")), began |-> reg, ended |-> reg]
    BY <1>3, <1>6 DEF Read64Begin, Access, RestOfBar
  <2>2. WithWord(0, "lo", Word(reg, "lo")) = Word(reg, "lo") /\ Word(reg, "lo") \in Word64
    BY <1>1, <1>3, RegisterWords
  <2>3. call' \in [op : {"none", "read", "write"}, val : Word64, began : Word64, ended : Word64] /\ call' # Nothing
    BY <1>1, <1>2, <2>1, <2>2
  <2>4. AccessUnderWay'  BY <1>1, <2>1, <2>2 DEF AccessUnderWay
  <2>5. QED  BY <1>1, <1>4, <2>1, <2>3, <2>4 DEF LatchExact, TornOnlyOnCarry
<1>7. CASE Read64End
  <2>1. /\ Rest /\ UNCHANGED reg /\ call' = Nothing /\ call.op = "read"
        /\ ret' = [op |-> "read", val |-> WithWord(call.val, "hi", Word(reg, "hi")), began |-> call.began, ended |-> reg]
    BY <1>3, <1>7 DEF Read64End, RestOfBar
  <2>2. call.val = Word(call.began, "lo") /\ call.began <= reg /\ (owner = "latch" => call.began = reg)
        /\ call.began \in Word64 /\ call.val \in Word64
    BY <2>1 DEF AccessUnderWay
  <2>3. ret'.val \in Word64  BY <1>1, <1>3, <2>1, <2>2, RegisterWords
  <2>4. /\ ret'.val \in call.began .. reg + WordBase - 1
        /\ Word(call.began, "hi") = Word(reg, "hi") => ret'.val = call.began
    BY <1>1, <2>1, <2>2, RegisterWords
  <2>5. owner = "latch" => ret'.val = reg
    <3>1. Word(Word(reg, "lo"), "lo") = Word(reg, "lo")  BY <1>1, <1>3, RegisterWords
    <3>2. QED  BY <1>1, <2>1, <2>2, <3>1, RegisterWords
  <2>6. ret' \in [op : Returned, val : Word64, began : Word64, ended : Word64]
    BY <1>1, <2>1, <2>2, <2>3 DEF Returned
  <2>7. QED
    BY <1>1, <1>2, <1>4, <2>1, <2>3, <2>4, <2>5, <2>6
    DEF AccessUnderWay, LatchExact, TornOnlyOnCarry
<1>8. CASE Write64End
  <2>1. /\ Rest /\ call.op = "write" /\ call' = Nothing /\ ret' = call
        /\ reg' = WithWord(reg, "hi", Word(call.val, "hi"))
    BY <1>3, <1>8 DEF Write64End, RestOfBar
  <2>2. call.val \in Word64 /\ Word(reg, "lo") = Word(call.val, "lo")
    BY <2>1 DEF AccessUnderWay
  <2>3. reg' = call.val  BY <1>1, <2>1, <2>2, RegisterWords
  <2>4. QED
    BY <1>2, <1>4, <2>1, <2>2, <2>3 DEF AccessUnderWay, LatchExact, TornOnlyOnCarry, Returned
<1>9. CASE DeviceCounts
  <2>1. Rest /\ UNCHANGED <<call, ret>> /\ owner = "counter" /\ reg' = reg + 1 /\ reg' \in Word64
    BY <1>1, <1>9, TransportAssumption DEF DeviceCounts, RestOfBar, Word64
  <2>2. AccessUnderWay'
    <3>1. call.began \in Nat /\ reg \in Nat  BY <1>1
    <3>2. QED  BY <2>1, <3>1 DEF AccessUnderWay
  <2>3. TornOnlyOnCarry'  BY <2>1 DEF TornOnlyOnCarry
  <2>4. QED  BY <1>4, <2>1, <2>2, <2>3 DEF LatchExact
<1>10. ASSUME NEW w \in Words, ReadNarrow(bar, w) PROVE TransportInv'
  <2>1. /\ Rest /\ UNCHANGED <<reg, call>>
        /\ ret' = [op |-> "narrow", val |-> Word(reg, w), began |-> reg, ended |-> reg]
    BY <1>10 DEF ReadNarrow, Access, RestOfBar
  <2>2. ret' \in [op : Returned, val : Word64, began : Word64, ended : Word64]
    BY <1>1, <2>1, RegisterWords DEF Returned
  <2>3. QED  BY <1>1, <1>4, <2>1, <2>2 DEF AccessUnderWay, LatchExact, TornOnlyOnCarry
<1>11. ASSUME NEW w \in Words, NEW x \in 0 .. WordBase - 1, WriteNarrow(bar, w, x)
       PROVE  TransportInv'
  <2>1. /\ Rest /\ call = Nothing /\ UNCHANGED call /\ reg' = WithWord(reg, w, x)
        /\ ret' = [op |-> "narrow", val |-> x, began |-> reg, ended |-> reg]
    BY <1>11 DEF WriteNarrow, Access, RestOfBar, Ready
  <2>2. ret' \in [op : Returned, val : Word64, began : Word64, ended : Word64] /\ reg' \in Word64
    BY <1>1, <2>1, RegisterWords DEF Returned
  <2>3. QED  BY <1>1, <1>2, <1>4, <2>1, <2>2 DEF AccessUnderWay, LatchExact, TornOnlyOnCarry
<1>12. ASSUME NEW v \in Word64, Write64Begin(bar, v) PROVE TransportInv'
  <2>1. /\ Rest /\ UNCHANGED ret /\ owner = "latch"
        /\ reg' = WithWord(reg, "lo", Word(v, "lo"))
        /\ call' = [op |-> "write", val |-> v, began |-> reg, ended |-> reg]
    BY <1>3, <1>12 DEF Write64Begin, Access, RestOfBar
  <2>2. reg' \in Word64 /\ Word(reg', "lo") = Word(v, "lo")
    BY <1>1, <1>3, <2>1, RegisterWords
  <2>3. call' # Nothing  BY <1>2, <2>1
  <2>4. QED  BY <1>1, <1>4, <2>1, <2>2, <2>3 DEF AccessUnderWay, LatchExact, TornOnlyOnCarry
<1>13. QED  BY <1>5, <1>6, <1>7, <1>8, <1>9, <1>10, <1>11, <1>12

\* The bytes and words of a dword of four bytes.
LEMMA DwordBytes ==
  ASSUME NEW B \in Nat \ {0}
  PROVE  \A c0, c1, c2, c3 \in 0 .. B - 1 :
           LET D == c0 + c1 * B + c2 * (B * B) + c3 * (B * B * B)
           IN /\ D \in Nat
              /\ D % B = c0 /\ (D \div B) % B = c1
              /\ (D \div (B * B)) % B = c2 /\ (D \div (B * B * B)) % B = c3
              /\ D % (B * B) = c0 + c1 * B
              /\ D \div (B * B) = c2 + c3 * B
              /\ (c2 + c3 * B) % (B * B) = c2 + c3 * B
<1> TAKE c0, c1, c2, c3 \in 0 .. B - 1
<1> DEFINE D == c0 + c1 * B + c2 * (B * B) + c3 * (B * B * B)
<1> DEFINE S == B * B
           C == B * B * B
           lo == c0 + c1 * B
           hi == c2 + c3 * B
<1>1. S \in Nat \ {0} /\ C \in Nat \ {0}  BY Z3
<1>2. \A x, y \in 0 .. B - 1 : x + y * B \in 0 .. S - 1 /\ B * y + x = x + y * B
  <2> SUFFICES ASSUME NEW x \in 0 .. B - 1, NEW y \in 0 .. B - 1
               PROVE  x + y * B \in 0 .. S - 1 /\ B * y + x = x + y * B
    OBVIOUS
  <2>1. (B - 1 - y) * B >= 0 /\ y * B >= 0 /\ y * B = B * y  BY Z3
  <2>2. (B - 1 - y) * B = B * B - B - y * B  BY Z3
  <2>3. QED  BY <2>1, <2>2
<1>3. lo \in 0 .. S - 1 /\ hi \in 0 .. S - 1  BY <1>2
<1>4. D = S * hi + lo  BY Z3
<1>5. D \div S = hi /\ D % S = lo
  <2>1. (S * hi + lo) \div S = hi /\ (S * hi + lo) % S = lo
    <3>1. hi \in Nat  BY <1>3
    <3> HIDE DEF S, hi, lo
    <3>2. QED  BY <1>1, <1>3, <3>1, DivModOf
  <2>2. QED  BY <1>4, <2>1
<1>6. hi % B = c2 /\ hi \div B = c3
  <2>1. (B * c3 + c2) \div B = c3 /\ (B * c3 + c2) % B = c2  BY DivModOf
  <2>2. B * c3 + c2 = hi  BY <1>2
  <2>3. QED  BY <2>1, <2>2
<1>7. D % B = c0 /\ (D \div B) % B = c1
  <2> DEFINE E == c1 + hi * B
  <2>1. hi * B \in Nat /\ E \in Nat  BY <1>3, <1>1
  <2>2. D = B * E + c0  BY Z3
  <2>3. (B * E + c0) \div B = E /\ (B * E + c0) % B = c0
    <3> HIDE DEF E
    <3>1. QED  BY <2>1, DivModOf
  <2>4. (B * hi + c1) \div B = hi /\ (B * hi + c1) % B = c1
    <3>1. hi \in Nat  BY <1>3
    <3> HIDE DEF hi
    <3>2. QED  BY <3>1, DivModOf
  <2>5. E = B * hi + c1  BY Z3
  <2>6. QED  BY <2>2, <2>3, <2>4, <2>5
<1>8. D \div C = c3
  <2> DEFINE r == lo + c2 * S
  <2>1. r \in 0 .. C - 1
    <3>1. (B - 1 - c2) * S >= 0 /\ c2 * S >= 0  BY <1>1, Z3
    <3>2. (B - 1 - c2) * S = C - S - c2 * S  BY Z3
    <3>3. c2 * S \in Int /\ C \in Int /\ S \in Int /\ lo \in 0 .. S - 1  BY <1>1, <1>3
    <3> HIDE DEF lo, S, C
    <3>4. QED  BY <3>1, <3>2, <3>3
  <2>2. D = C * c3 + r  BY Z3
  <2>3. (C * c3 + r) \div C = c3
    <3> HIDE DEF C, r
    <3>1. QED  BY <1>1, <2>1, DivModOf
  <2>4. QED  BY <2>2, <2>3
<1>9. c3 % B = c3 /\ hi % S = hi
  <2>1. (B * 0 + c3) % B = c3  BY DivModOf
  <2>2. (S * 0 + hi) % S = hi
    <3> HIDE DEF S, hi
    <3>1. QED  BY <1>1, <1>3, DivModOf
  <2>3. B * 0 + c3 = c3 /\ S * 0 + hi = hi  BY <1>1, <1>3
  <2>4. QED  BY <2>1, <2>2, <2>3
<1>10. D \in Nat
  <2>1. S * hi \in Nat  BY <1>1, <1>3
  <2>2. QED  BY <1>3, <1>4, <2>1
<1>11. QED  BY <1>5, <1>6, <1>7, <1>8, <1>9, <1>10

\* Reads of configuration space return the byte, or the aligned value, of the offset.
LEMMA ConfigExact ==
  ASSUME cfg \in [Offsets -> 0 .. ByteBase - 1]
  PROVE  ConfigReads
<1> DEFINE B == ByteBase
<1>1. B \in Nat \ {0}  BY TransportAssumption
<1>2. Pow(0) = 1 /\ Pow(1) = B /\ Pow(2) = B * B /\ Pow(3) = B * B * B
  BY DEF Pow
<1>3. \A c0, c1, c2, c3 \in 0 .. B - 1 :
        LET D == c0 + c1 * B + c2 * (B * B) + c3 * (B * B * B)
        IN /\ D \in Nat
           /\ D % B = c0 /\ (D \div B) % B = c1
           /\ (D \div (B * B)) % B = c2 /\ (D \div (B * B * B)) % B = c3
           /\ D % (B * B) = c0 + c1 * B
           /\ D \div (B * B) = c2 + c3 * B
           /\ (c2 + c3 * B) % (B * B) = c2 + c3 * B
  <2> HIDE DEF B
  <2>1. QED  BY <1>1, DwordBytes, Zenon
<1>4. SUFFICES ASSUME NEW a \in {0, 4}, NEW i \in 0 .. 3
               PROVE  LET o == a + i  e == o - (o % 2)
                      IN /\ ReadConfig8(o) = cfg[o]
                         /\ ReadConfig16(o) = cfg[e] + cfg[e + 1] * B
                         /\ ReadConfig32(o) % Pow(2) = ReadConfig16(a)
                         /\ ReadConfig32(o) \div Pow(2) = ReadConfig16(a + 2)
  <2>1. \A o \in Offsets : \E a \in {0, 4}, i \in 0 .. 3 : o = a + i /\ o - (o % 4) = a
    BY DEF Offsets
  <2>2. QED  BY <1>4, <2>1 DEF ConfigReads
<1> DEFINE c(j) == cfg[a + j]
           D == c(0) + c(1) * B + c(2) * (B * B) + c(3) * (B * B * B)
<1>5. \A j \in 0 .. 3 : c(j) \in 0 .. B - 1  BY DEF Offsets
<1>6. /\ D \in Nat
      /\ D % B = c(0) /\ (D \div B) % B = c(1)
      /\ (D \div (B * B)) % B = c(2) /\ (D \div (B * B * B)) % B = c(3)
      /\ D % (B * B) = c(0) + c(1) * B
      /\ D \div (B * B) = c(2) + c(3) * B
      /\ (c(2) + c(3) * B) % (B * B) = c(2) + c(3) * B
  <2>1. c(0) \in 0 .. B - 1 /\ c(1) \in 0 .. B - 1 /\ c(2) \in 0 .. B - 1 /\ c(3) \in 0 .. B - 1
    BY <1>5
  <2> HIDE DEF B, c
  <2>2. QED  BY <1>3, <2>1
<1>7. \A j \in 0 .. 3 : (a + j) % 4 = j /\ (a + j) - ((a + j) % 4) = a  OBVIOUS
<1>8. \A j \in 0 .. 3 : Dword(a + j) = D
  BY <1>2, <1>7 DEF Dword
<1>9. D \div 1 = D  BY <1>6
<1> HIDE DEF D, B
<1>10. \A j \in 0 .. 3 : ReadConfig8(a + j) = c(j)
  BY <1>2, <1>6, <1>7, <1>8, <1>9 DEF ReadConfig8, B
<1>11. ReadConfig16(a) = c(0) + c(1) * B /\ ReadConfig16(a + 1) = c(0) + c(1) * B
  BY <1>2, <1>6, <1>7, <1>8, <1>9 DEF ReadConfig16, B
<1>12. ReadConfig16(a + 2) = c(2) + c(3) * B /\ ReadConfig16(a + 3) = c(2) + c(3) * B
  BY <1>2, <1>6, <1>7, <1>8, <1>9 DEF ReadConfig16, B
<1>13. ReadConfig32(a + i) % Pow(2) = ReadConfig16(a) /\ ReadConfig32(a + i) \div Pow(2) = ReadConfig16(a + 2)
  BY <1>2, <1>6, <1>8, <1>11, <1>12 DEF ReadConfig32, B
<1>14. QED
  <2>1. ReadConfig8(a + i) = cfg[a + i]  BY <1>10
  <2>2. CASE i \in {0, 1}
    <3>1. (a + i) - ((a + i) % 2) = a  BY <2>2
    <3>2. ReadConfig16(a + i) = cfg[a] + cfg[a + 1] * B  BY <2>2, <1>11
    <3>3. QED  BY <2>1, <3>1, <3>2, <1>13
  <2>3. CASE i \in {2, 3}
    <3>1. (a + i) - ((a + i) % 2) = a + 2 /\ (a + 2) + 1 = a + 3  BY <2>3
    <3>2. ReadConfig16(a + i) = cfg[a + 2] + cfg[a + 3] * B  BY <2>3, <1>12
    <3>3. QED  BY <2>1, <3>1, <3>2, <1>13
  <2>4. QED  BY <2>2, <2>3

\* A new block lies in the region.
LEMMA AllocateInside ==
  ASSUME NEW n \in Nat, AllocatePages(n)
  PROVE  /\ \A b \in blocks' \ blocks : PagesOf(b) \subseteq Region
         /\ UNCHANGED <<cfg, cmd, barBase, owner, reg, call, ret>>
<1>1. PICK p \in FreeRuns(n) : blocks' = blocks \cup {<<p, n>>}  BY DEF AllocatePages
<1>2. p \in Region /\ p + n - 1 \in Region  BY <1>1 DEF FreeRuns
<1>3. PagesOf(<<p, n>>) = p .. p + n - 1  BY DEF PagesOf
<1>4. p .. p + n - 1 \subseteq Region  BY <1>2, TransportAssumption DEF Region
<1>5. UNCHANGED <<cfg, cmd, barBase, owner, reg, call, ret>>  BY DEF AllocatePages, barVars
<1>6. QED  BY <1>1, <1>3, <1>4, <1>5

\* The ways in which a step of the system moves the transport.
LEMMA TransportSteps ==
  ASSUME [Next]_vars
  PROVE  /\ UNCHANGED job
         /\ \/ UNCHANGED transportVars
            \/ New
            \/ \E n \in Nat : AllocatePages(n)
            \/ \E bar \in {0, 5, 6} :
                 \/ BadBar(bar) \/ Read64Begin(bar) \/ Read64End \/ Write64End \/ DeviceCounts
                 \/ \E w \in Words : ReadNarrow(bar, w)
                                    \/ \E x \in 0 .. WordBase - 1 : WriteNarrow(bar, w, x)
                 \/ \E v \in Word64 : Write64Begin(bar, v)
<1>1. QueuePages \in Nat  BY ChecksAssumption
<1>2. CASE Guest
  <2>1. CASE NewTransport  BY <2>1 DEF NewTransport
  <2>2. CASE OpenDriver
    <3>1. UNCHANGED job /\ (UNCHANGED transportVars \/ AllocatePages(QueuePages))
      BY <2>2, Zenon DEF OpenDriver
    <3>2. QED  BY <1>1, <3>1
  <2>3. CASE Probe \/ BlkGeometry \/ BlkWrite \/ BlkFlush \/ BlkRead \/ BlkReread
    BY <2>3, Zenon DEF Probe, BlkGeometry, BlkWrite, BlkFlush, BlkRead, BlkReread
  <2>4. CASE RngRead1 \/ RngRead2 \/ RngSample \/ BalloonQueues \/ BalloonPost \/ BalloonActual
    BY <2>4 DEF RngRead1, RngRead2, RngSample, BalloonQueues, BalloonPost, BalloonActual
  <2>5. CASE \/ FsCall("init", "lookup") \/ FsLookup \/ FsCall("open fh", "read hello") \/ FsRead
             \/ FsCall("create", "write token") \/ FsWrite \/ FsFsync \/ FsReadBack
    BY <2>5 DEF FsCall, FsLookup, FsRead, FsWrite, FsFsync, FsReadBack
  <2>6. QED  BY <1>2, <2>1, <2>2, <2>3, <2>4, <2>5 DEF Guest
<1>3. CASE BarStep  BY <1>3 DEF BarStep, Word64
<1>4. CASE BarEnd  BY <1>4 DEF BarEnd
<1>6. CASE Device  BY <1>6 DEF Device
<1>7. CASE Halted \/ UNCHANGED vars  BY <1>7 DEF Halted, vars
<1>8. QED  BY <1>2, <1>3, <1>4, <1>6, <1>7 DEF Next

\* Every step preserves the transport's part.
LEMMA TransportStep ==
  ASSUME TransportInv, [Next]_vars
  PROVE  TransportInv'
<1> USE DEF TransportInv
<1>1. reg \in Word64 /\ 0 \in Word64
  BY TransportAssumption DEF TransportTypeOK, Word64
<1>2. CASE UNCHANGED transportVars
  BY <1>2 DEF transportVars, barVars, TransportTypeOK, PagesOf, Region, AccessUnderWay,
     LatchExact, TornOnlyOnCarry
<1>3. CASE New
  BY <1>3 DEF New, barVars, TransportTypeOK, PagesOf, Region, AccessUnderWay,
     LatchExact, TornOnlyOnCarry
<1>4. ASSUME NEW n \in Nat, AllocatePages(n) PROVE TransportInv'
  <2>1. /\ \A b \in blocks' \ blocks : PagesOf(b) \subseteq Region
        /\ UNCHANGED <<cfg, cmd, owner, reg, call, ret>>
    BY <1>4, AllocateInside
  <2>2. \A b \in blocks' : PagesOf(b) \subseteq Region  BY <2>1 DEF TransportTypeOK
  <2>3. TransportTypeOK'
    BY <2>1, <2>2 DEF TransportTypeOK
  <2>4. QED  BY <2>1, <2>3 DEF AccessUnderWay, LatchExact, TornOnlyOnCarry
<1>5. QED  BY <1>2, <1>3, <1>4, TransportSteps, BarStepInv

\* So does it hold when nothing has been accessed yet.
LEMMA TransportStart == Init => TransportInv
<1> SUFFICES ASSUME Init PROVE TransportInv  OBVIOUS
<1>1. 0 \in Word64 /\ 0 \in 0 .. ByteBase - 1  BY TransportAssumption DEF Word64
<1>2. reg \in Word64 /\ owner \in {"latch", "counter"}  BY <1>1 DEF Init, Word64
<1>3. cfg \in [Offsets -> 0 .. ByteBase - 1]  BY <1>1 DEF Init
<1>4. /\ cmd = {} /\ blocks = {}
      /\ call = [op |-> "none", val |-> 0, began |-> 0, ended |-> 0]
      /\ ret = [op |-> "none", val |-> 0, began |-> 0, ended |-> 0]
  BY DEF Init, TransportInit, Nothing, Access
<1>5. TransportTypeOK  BY <1>2, <1>4 DEF TransportTypeOK, Word64
<1>6. QED
  BY <1>1, <1>2, <1>3, <1>4, <1>5
  DEF TransportInv, Returned, AccessUnderWay, LatchExact, TornOnlyOnCarry

-----------------------------------------------------------------------------
(* What the entropy test accepts.                                          *)

\* What a value that is d hits off the expected 32 adds to the chi-square sum
\* of rngvalidate is nonnegative, grows faster than the deviation, and lies
\* above the line through Off(1) = 3 and Off(2) = 12, rounding included.
LEMMA OffBounds ==
  ASSUME NEW d \in Int
  PROVE  /\ Off(d) \in Nat
         /\ Off(d) >= 3 * d /\ Off(d) >= -3 * d /\ Off(d) >= 9 * d - 6
         /\ d = -32 => Off(d) = 3200
         /\ ~(d \in -112 .. 112) => Off(d) >= 39903
<1> DEFINE s == d * d
<1>1. s \in Nat /\ s >= d /\ s >= -d  BY Z3
<1>2. s >= 3 * d - 2
  <2>1. (d - 1) * (d - 2) >= 0  BY Z3
  <2>2. (d - 1) * (d - 2) = s - 3 * d + 2  BY Z3
  <2>3. QED  BY <1>1, <2>1, <2>2
<1>3. ~(d \in -112 .. 112) => s >= 12769
  <2>1. d >= 113 => (d - 113) * (d + 113) >= 0  BY Z3
  <2>2. d <= -113 => (-113 - d) * (113 - d) >= 0  BY Z3
  <2>3. (d - 113) * (d + 113) = s - 12769 /\ (-113 - d) * (113 - d) = s - 12769  BY Z3
  <2>4. QED  BY <1>1, <2>1, <2>2, <2>3
<1>4. d = -32 => s = 1024  OBVIOUS
<1>5. Off(d) = (s * 25) \div 8  BY DEF Off
<1> HIDE DEF s
<1>6. Off(d) \in Nat /\ 8 * Off(d) <= 25 * s /\ 25 * s <= 8 * Off(d) + 7
  BY <1>1, <1>5
<1>7. Off(d) >= 3 * d /\ Off(d) >= -3 * d  BY <1>1, <1>6
<1>8. Off(d) >= 9 * d - 6
  <2>1. CASE d >= 1  BY <2>1, <1>1, <1>2, <1>6
  <2>2. CASE d <= 0  BY <2>2, <1>1, <1>6
  <2>3. QED  BY <2>1, <2>2
<1>9. d = -32 => Off(d) = 3200  BY <1>1, <1>4, <1>6
<1>10. ~(d \in -112 .. 112) => Off(d) >= 39903  BY <1>1, <1>3, <1>6
<1>11. QED  BY <1>6, <1>7, <1>8, <1>9, <1>10

\* A group of a values that are d off, weighed.
LEMMA OffWeighed ==
  ASSUME NEW a \in Nat, NEW d \in Int
  PROVE  /\ a * d \in Int /\ a * Off(d) \in Nat
         /\ a * Off(d) >= 3 * (a * d) /\ a * Off(d) >= -3 * (a * d)
         /\ a * Off(d) >= 9 * (a * d) - 6 * a + (IF d = -32 THEN 3494 * a ELSE 0)
         /\ a > 0 /\ ~(d \in -112 .. 112) =>
              a * Off(d) >= 39903 /\ (a * d >= 113 \/ a * d <= -113)
<1> DEFINE f == Off(d)
<1>1. /\ f \in Nat /\ f >= 3 * d /\ f >= -3 * d /\ f >= 9 * d - 6
      /\ (d = -32 => f = 3200) /\ (~(d \in -112 .. 112) => f >= 39903)
  BY OffBounds
<1> HIDE DEF f
<1>2. a * d \in Int /\ a * f \in Nat  BY <1>1
<1>3. a * (f - 3 * d) >= 0 /\ a * (f - 3 * d) = a * f - 3 * (a * d)  BY <1>1, Z3
<1>4. a * (f + 3 * d) >= 0 /\ a * (f + 3 * d) = a * f + 3 * (a * d)  BY <1>1, Z3
<1>5. a * (f - 9 * d + 6) >= 0 /\ a * (f - 9 * d + 6) = a * f - 9 * (a * d) + 6 * a  BY <1>1, Z3
<1>6. d = -32 => a * f = 3200 * a /\ a * d = -32 * a  BY <1>1
<1>7. ASSUME a > 0, ~(d \in -112 .. 112)
      PROVE  a * f >= 39903 /\ (a * d >= 113 \/ a * d <= -113)
  <2>1. (a - 1) * f >= 0 /\ (a - 1) * f = a * f - f  BY <1>1, <1>7, Z3
  <2>2. d >= 113 => (a - 1) * d >= 0  BY <1>7, Z3
  <2>3. d <= -113 => (a - 1) * d <= 0  BY <1>7, Z3
  <2>4. (a - 1) * d = a * d - d  BY Z3
  <2>5. QED  BY <1>1, <1>2, <1>7, <2>1, <2>2, <2>3, <2>4
<1>8. QED  BY <1>2, <1>3, <1>4, <1>5, <1>6, <1>7 DEF f

\* The thresholds of rngvalidate, for every sample of this shape: the
\* deviations of its three groups cancel out, so a value 113 off costs more
\* than the threshold lets through, and so do twelve values that never occur.
ValueNumbers == 1 .. 255
HitNumbers == 0 .. 8192
Accepted(m, h) == m * h <= 8192 /\ ~(Chi(Sample(m, h)) > 400)
Even(s) == Within(s, 112) /\ Distinct(s) >= 245

LEMMA SampleBounds == \A m \in ValueNumbers, h \in HitNumbers : Accepted(m, h) => Even(Sample(m, h))
<1> TAKE m \in ValueNumbers, h \in HitNumbers
<1> USE DEF ValueNumbers, HitNumbers
<1>0. SUFFICES ASSUME m * h <= 8192, ~(Chi(Sample(m, h)) > 400)
               PROVE  Within(Sample(m, h), 112) /\ Distinct(Sample(m, h)) >= 245
  BY DEF Accepted, Even
<1> DEFINE s == Sample(m, h)
           n == 256 - m
           rest == 8192 - m * h
           q == rest \div n
           r == rest % n
<1>1. n \in Nat \ {0} /\ rest \in Nat  BY <1>0
<1>2. q \in Nat /\ r \in 0 .. n - 1 /\ rest = n * q + r
  <2> HIDE DEF n, rest
  <2>1. QED  BY <1>1, DivMod
<1>3. s = <<<<m, h>>, <<r, q + 1>>, <<n - r, q>>>>  BY DEF Sample
<1>4. /\ s[1][1] = m /\ s[1][2] = h /\ s[2][1] = r /\ s[2][2] = q + 1
      /\ s[3][1] = n - r /\ s[3][2] = q
  <2> HIDE DEF s, q, r, n
  <2>1. QED  BY <1>3
<1> DEFINE c == n - r
           d == h - 32
           e == q + 1 - 32
           f == q - 32
<1> HIDE DEF s, q, r
<1>5. m \in Nat /\ r \in Nat /\ c \in Nat /\ m + r + c = 256 /\ d \in Int /\ e \in Int /\ f \in Int
  BY <1>1, <1>2
<1>6. Chi(s) = (m * Off(d) + r * Off(e) + c * Off(f)) \div 100
  <2> HIDE DEF n, rest
  <2>1. s[1][1] * Off(s[1][2] - 32) = m * Off(d)  BY <1>4
  <2>2. s[2][1] * Off(s[2][2] - 32) = r * Off(e)
    <3>1. s[2][2] - 32 = e  BY <1>2, <1>4
    <3> HIDE DEF e
    <3>2. QED  BY <1>4, <3>1
  <2>3. s[3][1] * Off(s[3][2] - 32) = c * Off(f)  BY <1>4
  <2> DEFINE g == [i \in 1 .. 3 |-> s[i][1] * Off(s[i][2] - 32)]
  <2>4. g[1] = m * Off(d) /\ g[2] = r * Off(e) /\ g[3] = c * Off(f)
    <3> HIDE DEF c, d, e, f
    <3>1. QED  BY <2>1, <2>2, <2>3
  <2>5. Chi(s) = Sum3(g) \div 100  BY DEF Chi
  <2> HIDE DEF g, c, d, e, f
  <2>6. QED  BY <2>4, <2>5 DEF Sum3
<1>7. Distinct(s) = (IF h > 0 THEN m ELSE 0) + (IF q + 1 > 0 THEN r ELSE 0) + (IF q > 0 THEN n - r ELSE 0)
  BY <1>4 DEF Distinct, Sum3
<1>8. m * d + r * e + c * f = 0
  <2>1. m * (h - 32) = m * h - 32 * m  BY Z3
  <2>2. r * (q + 1 - 32) + (n - r) * (q - 32) = n * q + r - 32 * n  BY <1>1, <1>2, Z3
  <2>3. n * q \in Int  BY <1>1, <1>2
  <2>4. m * h \in Int  OBVIOUS
  <2>5. QED  BY <2>1, <2>2, <2>3, <2>4, <1>1, <1>2
<1>9. /\ m > 0 => d \in -112 .. 112
      /\ r > 0 => e \in -112 .. 112
      /\ c > 0 => f \in -112 .. 112
      /\ (IF d = -32 THEN m ELSE 0) + (IF e = -32 THEN r ELSE 0) + (IF f = -32 THEN c ELSE 0) <= 11
  <2> HIDE DEF d, e, f, c, n, rest
  <2>1. m * Off(d) \in Nat /\ r * Off(e) \in Nat /\ c * Off(f) \in Nat
    <3>1. Off(d) \in Nat /\ Off(e) \in Nat /\ Off(f) \in Nat  BY <1>5, OffBounds
    <3>2. QED  BY <1>5, <3>1
  <2>2. m * Off(d) + r * Off(e) + c * Off(f) <= 40099
    BY <1>0, <1>6, <2>1 DEF s
  <2> DEFINE A == m * Off(d)
             B == r * Off(e)
             C == c * Off(f)
             x == m * d
             y == r * e
             z == c * f
  <2>3. /\ x \in Int /\ A \in Nat /\ A >= 3 * x /\ A >= -3 * x
        /\ A >= 9 * x - 6 * m + (IF d = -32 THEN 3494 * m ELSE 0)
        /\ m > 0 /\ ~(d \in -112 .. 112) => A >= 39903 /\ (x >= 113 \/ x <= -113)
    <3> DEFINE k == m
    <3>1. k \in Nat  BY <1>5
    <3> HIDE DEF k
    <3>2. /\ k * d \in Int /\ k * Off(d) \in Nat /\ k * Off(d) >= 3 * (k * d) /\ k * Off(d) >= -3 * (k * d)
          /\ k * Off(d) >= 9 * (k * d) - 6 * k + (IF d = -32 THEN 3494 * k ELSE 0)
          /\ k > 0 /\ ~(d \in -112 .. 112) =>
               k * Off(d) >= 39903 /\ (k * d >= 113 \/ k * d <= -113)
      BY <1>5, <3>1, OffWeighed
    <3>3. QED  BY <3>2 DEF k
  <2>4. /\ y \in Int /\ B \in Nat /\ B >= 3 * y /\ B >= -3 * y
        /\ B >= 9 * y - 6 * r + (IF e = -32 THEN 3494 * r ELSE 0)
        /\ r > 0 /\ ~(e \in -112 .. 112) => B >= 39903 /\ (y >= 113 \/ y <= -113)
    BY <1>5, OffWeighed
  <2>5. /\ z \in Int /\ C \in Nat /\ C >= 3 * z /\ C >= -3 * z
        /\ C >= 9 * z - 6 * c + (IF f = -32 THEN 3494 * c ELSE 0)
        /\ c > 0 /\ ~(f \in -112 .. 112) => C >= 39903 /\ (z >= 113 \/ z <= -113)
    BY <1>5, OffWeighed
  <2>6. x + y + z = 0 /\ A + B + C <= 40099  BY <1>8, <2>2
  <2> HIDE DEF A, B, C, x, y, z
  <2>7. m > 0 => d \in -112 .. 112  BY <2>3, <2>4, <2>5, <2>6
  <2>8. r > 0 => e \in -112 .. 112  BY <2>3, <2>4, <2>5, <2>6
  <2>9. c > 0 => f \in -112 .. 112  BY <2>3, <2>4, <2>5, <2>6
  <2>10. QED  BY <1>5, <2>3, <2>4, <2>5, <2>6, <2>7, <2>8, <2>9
<1>10. Within(s, 112)
  <2>1. SUFFICES ASSUME NEW i \in 1 .. 3, s[i][1] > 0 PROVE s[i][2] - 32 \in -112 .. 112
    BY DEF Within
  <2>2. CASE i = 1  BY <1>4, <1>9, <2>1, <2>2
  <2>3. CASE i = 2  BY <1>2, <1>4, <1>9, <2>1, <2>3
  <2>4. CASE i = 3  BY <1>4, <1>9, <2>1, <2>4
  <2>5. QED  BY <2>2, <2>3, <2>4
<1>11. Distinct(s) >= 245  BY <1>1, <1>2, <1>5, <1>7, <1>9
<1>12. QED  BY <1>10, <1>11 DEF s

-----------------------------------------------------------------------------
(* The validators.                                                         *)

\* A behaviour is about a validator or about the transport.
LEMMA JobNames == Jobs \subseteq Validators \cup {"config", "bar"}
  BY ChecksAssumption DEF ChecksAssumption

\* A step that leaves the devices alone and does not end in PASS.
LEMMA MoveInv ==
  ASSUME GuestInv, UNCHANGED <<job, guestVars>>,
         \/ UNCHANGED <<pc, verdict>>
         \/ /\ pc # "halted" /\ verdict' \in {verdict, "FAIL"}
            /\ \/ pc' = "halted"
               \/ /\ pc' \in {"flush", "read"} <=> pc \in {"flush", "read"}
                  /\ pc' = "reread" <=> pc = "reread"
                  /\ pc' = "open" => job \in Validators
                  /\ job = "fs" /\ pc' \in {"create", "write token", "fsync", "readback"} =>
                       srv.hello = "want"
  PROVE  GuestPart'
<1> USE DEF GuestInv, GuestPart
<1>1. UNCHANGED <<job, blk, rng, bal, srv>>  BY DEF guestVars
<1>2. \A z, j : WrittenBy(z, j)' <=> WrittenBy(z, j)  BY <1>1 DEF WrittenBy
<1>3. DiskFromWrites'  <=> DiskFromWrites
  BY <1>1, <1>2 DEF DiskFromWrites
<1>4. LastWriteHolds' <=> LastWriteHolds
  BY <1>1, <1>2 DEF LastWriteHolds
<1>5. CASE UNCHANGED <<pc, verdict>>
  <2>1. BlkInv'  BY <1>1, <1>5, <1>3, <1>4 DEF BlkInv
  <2>2. BalloonInv' /\ FsInv'
    <3>1. BalloonInv'  BY <1>1 DEF BalloonInv
    <3>2. FsInv'  BY <1>1, <1>5 DEF FsInv
    <3>3. QED  BY <3>1, <3>2
  <2>3. PassMeans'
    BY <1>1, <1>5 DEF PassMeans, BlkPassMeans, RngPassMeans, BalloonPassMeans, FsPassMeans
  <2>4. QED  BY <1>1, <1>5, <2>1, <2>2, <2>3 DEF GuestPart
<1>6. CASE /\ pc # "halted" /\ verdict' \in {verdict, "FAIL"}
           /\ \/ pc' = "halted"
              \/ /\ pc' \in {"flush", "read"} <=> pc \in {"flush", "read"}
                 /\ pc' = "reread" <=> pc = "reread"
                 /\ pc' = "open" => job \in Validators
                 /\ job = "fs" /\ pc' \in {"create", "write token", "fsync", "readback"} =>
                      srv.hello = "want"
  <2>1. verdict' \in {"none", "FAIL"}  BY <1>6
  <2>2. PassMeans'
    BY <2>1 DEF PassMeans, BlkPassMeans, RngPassMeans, BalloonPassMeans, FsPassMeans
  <2>3. BlkInv'  BY <1>1, <1>6, <1>3, <1>4 DEF BlkInv
  <2>4. BalloonInv'  BY <1>1 DEF BalloonInv
  <2>5. FsInv'  BY <1>1, <1>6 DEF FsInv
  <2>6. QED  BY <1>1, <1>6, <2>1, <2>2, <2>3, <2>4, <2>5 DEF GuestPart
<1>7. QED  BY <1>5, <1>6

\* The steps of that kind.
LEMMA PlainSteps ==
  ASSUME GuestInv,
         \/ Probe \/ NewTransport \/ OpenDriver \/ BlkGeometry \/ BlkFlush \/ RngRead1 \/ RngRead2 \/ BalloonQueues
         \/ FsCall("init", "lookup") \/ FsLookup \/ FsCall("open fh", "read hello") \/ FsRead
         \/ FsCall("create", "write token")
         \/ BarStep \/ BarEnd \/ Device \/ Halted \/ UNCHANGED vars
  PROVE  GuestPart'
<1> USE DEF Goto, Fail, Say, At
<1>1. CASE Probe  BY <1>1, MoveInv DEF Probe
<1>2. CASE NewTransport
  <2>1. /\ UNCHANGED <<job, guestVars, verdict>> /\ pc = "new"
        /\ pc' = CASE job \in Validators -> "open" [] job = "config" -> "halted" [] OTHER -> job
    BY <1>2 DEF NewTransport
  <2>2. job \in Validators \cup {"config", "bar"}
    <3>1. job \in Jobs  BY DEF GuestInv, GuestPart
    <3>2. QED  BY <3>1, JobNames
  <2>3. pc' \in {"open", "halted", "bar"} /\ (pc' = "open" => job \in Validators)
    BY <2>1, <2>2 DEF Validators
  <2>4. QED  BY <2>1, <2>3, MoveInv
<1>3. CASE OpenDriver
  <2>1. /\ UNCHANGED <<job, guestVars>> /\ pc = "open"
        /\ (pc' = First /\ verdict' = verdict) \/ (pc' = "halted" /\ verdict' = "FAIL")
    BY <1>3 DEF OpenDriver
  <2>2. First \in {"geometry", "read1", "queues", "init"}
    BY <2>1 DEF GuestInv, GuestPart, First, Validators
  <2>3. QED  BY <2>1, <2>2, MoveInv
<1>4. CASE BlkGeometry  BY <1>4, MoveInv DEF BlkGeometry
<1>5. CASE BlkFlush  BY <1>5, MoveInv DEF BlkFlush
<1>6. CASE RngRead1 \/ RngRead2 \/ BalloonQueues
  BY <1>6, MoveInv DEF RngRead1, RngRead2, BalloonQueues
<1>7. CASE FsCall("init", "lookup") \/ FsCall("open fh", "read hello")
  BY <1>7, MoveInv DEF FsCall
<1>8. CASE FsLookup  BY <1>8, MoveInv DEF FsLookup
<1>9. CASE FsRead  BY <1>9, MoveInv DEF FsRead
<1>10. CASE FsCall("create", "write token")
  BY <1>10, MoveInv DEF FsCall, GuestInv, GuestPart, FsInv
<1>11. CASE BarStep \/ BarEnd \/ Device \/ Halted \/ UNCHANGED vars
  BY <1>11, MoveInv DEF BarStep, BarEnd, Device, Halted, vars
<1>12. QED  BY <1>1, <1>2, <1>3, <1>4, <1>5, <1>6, <1>7, <1>8, <1>9, <1>10, <1>11

\* rngvalidate: the verdict on the sample.
LEMMA RngSampleInv ==
  ASSUME GuestInv, RngSample
  PROVE  GuestPart'
<1> USE DEF GuestInv, GuestPart
<1>1. job = "rng" /\ pc = "sample" /\ UNCHANGED <<job, blk, bal, srv>> /\ pc' = "halted"
      /\ verdict' \in {"PASS", "FAIL"}
  BY DEF RngSample, At, Fail, Say
<1>2. RngPassMeans'
  <2>1. SUFFICES ASSUME verdict' = "PASS" PROVE Within(rng', 112) /\ Distinct(rng') >= 245
    BY DEF RngPassMeans
  <2>2. PICK m \in RngValues, h \in RngHits :
          rng' = Sample(m, h) /\ Accepted(m, h)
    BY <2>1 DEF RngSample, Fail, Say, Accepted
  <2>3. m \in ValueNumbers /\ h \in HitNumbers  BY ChecksAssumption DEF ValueNumbers, HitNumbers
  <2>4. Even(Sample(m, h))  BY <2>2, <2>3, SampleBounds
  <2>5. QED  BY <2>2, <2>4 DEF Even
<1>3. QED
  BY <1>1, <1>2 DEF GuestPart, BlkInv, BalloonInv, FsInv, PassMeans, BlkPassMeans,
     BalloonPassMeans, FsPassMeans

\* balloonvalidate: the rounds.
LEMMA BalloonStepInv ==
  ASSUME GuestInv, BalloonPost \/ BalloonActual
  PROVE  GuestPart'
<1> USE DEF GuestInv, GuestPart
<1>1. /\ job = "balloon" /\ pc = "post" /\ UNCHANGED <<job, blk, rng, srv>>
      /\ pc' \in {"post", "halted"} /\ verdict' \in {verdict, "PASS", "FAIL"}
      /\ verdict' = "PASS" => pc' = "halted"
  BY DEF BalloonPost, BalloonActual, At, Fail, Say, Goto
<1>2. /\ bal \in [op : 1 .. 4, left : Nat, actual : Int, buffers : Nat, given : Int, back : Int,
                  miscount : BOOLEAN]
      /\ <<bal.op, bal.left, bal.buffers>> \in BalloonPlaces
      /\ ~bal.miscount => /\ bal.actual = bal.given - bal.back
                          /\ bal.op = 1 => bal.back = 0
                          /\ bal.op = 2 => bal.given = 64
                          /\ bal.op = 3 => bal.back = 64
                          /\ bal.op = 4 => bal.given = 364
      /\ verdict # "PASS"
  BY <1>1 DEF BalloonInv
<1>3. /\ Rounds[1] = [pages |-> 64, sign |-> 1, want |-> 64]
      /\ Rounds[2] = [pages |-> 64, sign |-> -1, want |-> 0]
      /\ Rounds[3] = [pages |-> 300, sign |-> 1, want |-> 300]
      /\ Rounds[4] = [pages |-> 300, sign |-> -1, want |-> 0]
  BY DEF Rounds
<1> DEFINE Earned == bal'.buffers = 6 /\ (~bal'.miscount => bal'.given = 364 /\ bal'.back = 364)
<1>4. BalloonInv' /\ (verdict' = "PASS" => Earned)
  <2>1. CASE UNCHANGED bal /\ verdict' # "PASS"
    BY <1>1, <1>2, <2>1 DEF BalloonInv
  <2>2. ASSUME BalloonPost, ~UNCHANGED bal
        PROVE  BalloonInv' /\ verdict' # "PASS"
    <3> DEFINE full == IF bal.left > MaxPFNsPerBuffer THEN MaxPFNsPerBuffer ELSE bal.left
    <3>1. PICK n \in {full, full - 1}, c \in {full, full - 1} :
            /\ bal' = [bal EXCEPT !.left = @ - full, !.actual = @ + Rounds[bal.op].sign * c,
                         !.buffers = @ + 1,
                         !.given = IF Rounds[bal.op].sign = 1 THEN @ + n ELSE @,
                         !.back = IF Rounds[bal.op].sign = 1 THEN @ ELSE @ + n,
                         !.miscount = @ \/ c # n]
            /\ UNCHANGED verdict /\ bal.left > 0
      BY <2>2 DEF BalloonPost, Goto
    <3>2. full \in Nat /\ n \in Int /\ c \in Int  BY <1>2 DEF MaxPFNsPerBuffer
    <3>3. <<bal.op, bal.left - full, bal.buffers + 1>> \in BalloonPlaces /\ bal.left - full \in Nat
      BY <1>2, <3>1 DEF BalloonPlaces, MaxPFNsPerBuffer
    <3> HIDE DEF full
    <3>4. /\ bal'.op = bal.op /\ bal'.left = bal.left - full /\ bal'.buffers = bal.buffers + 1
          /\ bal'.actual = bal.actual + Rounds[bal.op].sign * c
          /\ bal'.given = IF Rounds[bal.op].sign = 1 THEN bal.given + n ELSE bal.given
          /\ bal'.back = IF Rounds[bal.op].sign = 1 THEN bal.back ELSE bal.back + n
          /\ bal' = [op |-> bal'.op, left |-> bal'.left, actual |-> bal'.actual,
                     buffers |-> bal'.buffers, given |-> bal'.given, back |-> bal'.back,
                     miscount |-> bal'.miscount]
      BY <1>2, <3>1
    <3>5. bal'.miscount = (bal.miscount \/ c # n)  BY <1>2, <3>1
    <3>6. bal'.miscount \in BOOLEAN /\ (~bal'.miscount => ~bal.miscount /\ c = n)
      BY <3>5, Zenon
    <3> DEFINE Counts ==
                 /\ bal'.actual \in Int /\ bal'.given \in Int /\ bal'.back \in Int
                 /\ ~bal'.miscount => /\ bal'.actual = bal'.given - bal'.back
                                      /\ bal'.op = 1 => bal'.back = 0
                                      /\ bal'.op = 2 => bal'.given = 64
                                      /\ bal'.op = 3 => bal'.back = 64
                                      /\ bal'.op = 4 => bal'.given = 364
    <3>7. ASSUME bal.op \in {1, 3} PROVE Counts
      <4>1. Rounds[bal.op].sign = 1  BY <3>7, <1>3
      <4>2. bal'.actual = bal.actual + c /\ bal'.given = bal.given + n /\ bal'.back = bal.back
        BY <3>2, <3>4, <4>1, <1>2
      <4>3. Counts
        <5>1. bal'.actual \in Int /\ bal'.given \in Int /\ bal'.back \in Int
          BY <1>2, <3>2, <4>2
        <5>2. ASSUME ~bal'.miscount
              PROVE  /\ bal'.actual = bal'.given - bal'.back
                     /\ bal'.op = 1 => bal'.back = 0
                     /\ bal'.op = 3 => bal'.back = 64
          BY <1>2, <3>2, <3>4, <3>6, <4>2, <5>2
        <5>3. QED  BY <3>4, <3>7, <5>1, <5>2
      <4>4. QED  BY <4>3
    <3>8. ASSUME bal.op \in {2, 4} PROVE Counts
      <4>1. Rounds[bal.op].sign = -1  BY <3>8, <1>3
      <4>2. bal'.actual = bal.actual - c /\ bal'.given = bal.given /\ bal'.back = bal.back + n
        BY <3>2, <3>4, <4>1, <1>2
      <4>3. Counts
        <5>1. bal'.actual \in Int /\ bal'.given \in Int /\ bal'.back \in Int
          BY <1>2, <3>2, <4>2
        <5>2. ASSUME ~bal'.miscount
              PROVE  /\ bal'.actual = bal'.given - bal'.back
                     /\ bal'.op = 2 => bal'.given = 64
                     /\ bal'.op = 4 => bal'.given = 364
          BY <1>2, <3>2, <3>4, <3>6, <4>2, <5>2
        <5>3. QED  BY <3>4, <3>8, <5>1, <5>2
      <4>4. QED  BY <4>3
    <3>9. Counts
      <4>1. bal.op \in {1, 3} \/ bal.op \in {2, 4}  BY <1>2
      <4>2. QED  BY <3>7, <3>8, <4>1
    <3> HIDE DEF Counts
    <3>10. bal' \in [op : 1 .. 4, left : Nat, actual : Int, buffers : Nat, given : Int,
                     back : Int, miscount : BOOLEAN]
      BY <1>2, <3>3, <3>4, <3>6, <3>9 DEF Counts
    <3>11. <<bal'.op, bal'.left, bal'.buffers>> \in BalloonPlaces
      BY <3>3, <3>4
    <3>12. QED
      BY <1>2, <3>1, <3>9, <3>10, <3>11 DEF Counts, BalloonInv
  <2>3. CASE BalloonActual /\ bal.op = 4 /\ UNCHANGED bal
    <3>1. bal.left = 0 /\ (verdict' = "PASS" => bal.actual = 0)
      BY <1>2, <1>3, <2>3 DEF BalloonActual, Say, Goto
    <3>2. bal.buffers = 6  BY <1>2, <2>3, <3>1 DEF BalloonPlaces
    <3>3. QED  BY <1>1, <1>2, <2>3, <3>1, <3>2 DEF BalloonInv
  <2>4. CASE BalloonActual /\ bal.op < 4
    <3>1. verdict' # "PASS"  BY <1>2, <2>4 DEF BalloonActual, Say, Goto
    <3>2. CASE UNCHANGED bal  BY <1>1, <1>2, <3>1, <3>2 DEF BalloonInv
    <3>3. CASE /\ bal.actual = Rounds[bal.op].want /\ bal.left = 0
               /\ bal' = [bal EXCEPT !.op = @ + 1, !.left = Rounds[bal.op + 1].pages]
      <4>1. bal.op \in 1 .. 3  BY <1>2, <2>4
      <4>2. /\ Rounds[bal.op + 1].pages \in Nat
            /\ <<bal.op + 1, Rounds[bal.op + 1].pages, bal.buffers>> \in BalloonPlaces
        BY <4>1, <1>2, <1>3, <3>3 DEF BalloonPlaces
      <4>3. /\ bal'.op = bal.op + 1 /\ bal'.left = Rounds[bal.op + 1].pages
            /\ bal'.actual = bal.actual /\ bal'.given = bal.given /\ bal'.back = bal.back
            /\ bal'.buffers = bal.buffers /\ bal'.miscount = bal.miscount
            /\ bal' = [op |-> bal'.op, left |-> bal'.left, actual |-> bal'.actual,
                       buffers |-> bal'.buffers, given |-> bal'.given, back |-> bal'.back,
                       miscount |-> bal'.miscount]
        BY <1>2, <3>3
      <4>4. CASE bal.op = 1  BY <1>1, <1>2, <1>3, <3>1, <3>3, <4>2, <4>3, <4>4 DEF BalloonInv
      <4>5. CASE bal.op = 2  BY <1>1, <1>2, <1>3, <3>1, <3>3, <4>2, <4>3, <4>5 DEF BalloonInv
      <4>6. CASE bal.op = 3  BY <1>1, <1>2, <1>3, <3>1, <3>3, <4>2, <4>3, <4>6 DEF BalloonInv
      <4>7. QED  BY <4>1, <4>4, <4>5, <4>6
    <3>4. QED  BY <2>4, <3>2, <3>3 DEF BalloonActual
  <2>5. BalloonPost /\ UNCHANGED bal => verdict' # "PASS"
    BY <1>2 DEF BalloonPost, Fail, Say, Goto
  <2>6. BalloonActual => bal.op < 4 \/ (bal.op = 4 /\ UNCHANGED bal)
    BY <1>2 DEF BalloonActual
  <2>7. QED  BY <2>1, <2>2, <2>3, <2>4, <2>5, <2>6
<1>5. QED
  BY <1>1, <1>4 DEF GuestPart, BlkInv, FsInv, PassMeans, BlkPassMeans, RngPassMeans,
     BalloonPassMeans, FsPassMeans

\* fsvalidate: the token.
LEMMA FsStepInv ==
  ASSUME GuestInv, FsWrite \/ FsFsync \/ FsReadBack
  PROVE  GuestPart'
<1> USE DEF GuestInv, GuestPart
<1>1. /\ job = "fs" /\ pc \in {"write token", "fsync", "readback"}
      /\ UNCHANGED <<job, blk, rng, bal>>
      /\ pc' \in {"fsync", "readback", "halted"} /\ verdict' \in {verdict, "PASS", "FAIL"}
      /\ verdict' = "PASS" => pc' = "halted"
  BY DEF FsWrite, FsFsync, FsReadBack, At, Fail, Say, Goto, guestVars
<1>2. /\ srv \in [hello : {"want", "sameSize", "otherSize", "absent"},
                   cache : {"none", "token", "part"}, stable : {"none", "token", "part"}]
      /\ srv.hello = "want" /\ verdict # "PASS"
  BY <1>1 DEF FsInv
<1>3. /\ srv' \in [hello : {"want", "sameSize", "otherSize", "absent"},
                    cache : {"none", "token", "part"}, stable : {"none", "token", "part"}]
      /\ srv'.hello = "want"
      /\ verdict' = "PASS" => srv'.cache = "token"
  <2>1. CASE FsWrite  BY <1>2, <2>1 DEF FsWrite, Fail, Say, Goto
  <2>2. CASE FsFsync  BY <1>2, <2>2 DEF FsFsync, Goto
  <2>3. CASE FsReadBack  BY <1>2, <2>3 DEF FsReadBack, Fail, Say, guestVars
  <2>4. QED  BY <2>1, <2>2, <2>3
<1>4. BlkInv' /\ BalloonInv'  BY <1>1 DEF BlkInv, BalloonInv
<1>5. FsInv'  BY <1>1, <1>3 DEF FsInv
<1>6. PassMeans'
  BY <1>1, <1>3 DEF PassMeans, BlkPassMeans, RngPassMeans, BalloonPassMeans, FsPassMeans
<1>7. QED  BY <1>1, <1>2, <1>4, <1>5, <1>6 DEF GuestPart

-----------------------------------------------------------------------------
(* blkvalidate.                                                            *)

\* The cases of blkvalidate.
LEMMA CaseFacts ==
  /\ Cases[1].start = 0 /\ Cases[1].count = 1 /\ Cases[2].start = 1234 /\ Cases[2].count = 1
  /\ Cases[3].start = 8000 /\ Cases[3].count = 5 /\ Len(Cases) = 3
  /\ \A j \in 1 .. 3 : Cases[j].start \in Nat /\ Cases[j].count \in 1 .. 5
  BY DEF Cases

\* The sectors that WriteBlocks and ReadBlocks can reach.
LEMMA SectorFacts ==
  /\ \A t \in BlkTargets : t \in Nat
  /\ \A t \in BlkTargets : t .. t + 4 \subseteq Sectors
<1>1. \A t \in BlkTargets : t \in Nat  BY ChecksAssumption DEF ChecksAssumption
<1>2. \A t \in BlkTargets : t .. t + 4 \subseteq Sectors  BY DEF Sectors
<1>3. QED  BY <1>1, <1>2

\* The first bytes that blkvalidate writes to the seven sectors of its cases
\* differ: pattern(lba) tells every one of them from the others.
LEMMA StampsDiffer ==
  /\ \A j \in 1 .. 3, i \in Int : i \in 0 .. Cases[j].count - 1 => Stamp(Cases[j].start + i) \in Nat
  /\ \A j, k \in 1 .. 3, i, l \in Int :
       /\ i \in 0 .. Cases[j].count - 1 /\ l \in 0 .. Cases[k].count - 1
       /\ Stamp(Cases[j].start + i) = Stamp(Cases[k].start + l)
       => j = k /\ i = l
<1>1. /\ Stamp(0) = 165 /\ Stamp(1234) = 19 /\ Stamp(8000) = 101 /\ Stamp(8001) = 132
      /\ Stamp(8002) = 163 /\ Stamp(8003) = 194 /\ Stamp(8004) = 225
  BY DEF Stamp
<1>2. \A j \in 1 .. 3, i \in Int : i \in 0 .. Cases[j].count - 1 =>
        \/ j = 1 /\ i = 0 /\ Stamp(Cases[j].start + i) = 165
        \/ j = 2 /\ i = 0 /\ Stamp(Cases[j].start + i) = 19
        \/ j = 3 /\ i = 0 /\ Stamp(Cases[j].start + i) = 101
        \/ j = 3 /\ i = 1 /\ Stamp(Cases[j].start + i) = 132
        \/ j = 3 /\ i = 2 /\ Stamp(Cases[j].start + i) = 163
        \/ j = 3 /\ i = 3 /\ Stamp(Cases[j].start + i) = 194
        \/ j = 3 /\ i = 4 /\ Stamp(Cases[j].start + i) = 225
  <2> SUFFICES ASSUME NEW j \in 1 .. 3, NEW i \in Int, i \in 0 .. Cases[j].count - 1
               PROVE  \/ j = 1 /\ i = 0 /\ Stamp(Cases[j].start + i) = 165
                      \/ j = 2 /\ i = 0 /\ Stamp(Cases[j].start + i) = 19
                      \/ j = 3 /\ i = 0 /\ Stamp(Cases[j].start + i) = 101
                      \/ j = 3 /\ i = 1 /\ Stamp(Cases[j].start + i) = 132
                      \/ j = 3 /\ i = 2 /\ Stamp(Cases[j].start + i) = 163
                      \/ j = 3 /\ i = 3 /\ Stamp(Cases[j].start + i) = 194
                      \/ j = 3 /\ i = 4 /\ Stamp(Cases[j].start + i) = 225
    OBVIOUS
  <2>1. CASE j = 1  BY <2>1, <1>1, CaseFacts
  <2>2. CASE j = 2  BY <2>2, <1>1, CaseFacts
  <2>3. CASE j = 3
    <3>1. i \in 0 .. 4 /\ Cases[j].start = 8000  BY <2>3, CaseFacts
    <3>2. 8000 + 0 = 8000 /\ 8000 + 1 = 8001 /\ 8000 + 2 = 8002 /\ 8000 + 3 = 8003 /\ 8000 + 4 = 8004
      OBVIOUS
    <3>3. QED  BY <2>3, <3>1, <3>2, <1>1
  <2>4. QED  BY <2>1, <2>2, <2>3
<1>3. QED  BY <1>2

\* A request that found the pattern of sector i of case k in a sector hit what
\* the write of case k put there.
LEMMA FoundWhatWasWritten ==
  ASSUME BlkInv, job = "blk", NEW k \in 1 .. Len(blk.wt), NEW i \in Int, NEW s \in Sectors
  PROVE  i \in 0 .. Cases[k].count - 1 /\ s \in Nat /\ blk.disk[s] = Stamp(Cases[k].start + i) =>
           /\ s - blk.wt[k] = i /\ i < blk.kept[k]
           /\ \A j \in 1 .. Len(blk.wt) : WrittenBy(s, j) => j = k
<1>0. SUFFICES ASSUME i \in 0 .. Cases[k].count - 1, s \in Nat, blk.disk[s] = Stamp(Cases[k].start + i)
               PROVE  /\ s - blk.wt[k] = i /\ i < blk.kept[k]
                      /\ \A j \in 1 .. Len(blk.wt) : WrittenBy(s, j) => j = k
  OBVIOUS
<1>1. /\ blk.wt \in Seq(BlkTargets) /\ blk.kept \in Seq(Nat) /\ Len(blk.kept) = Len(blk.wt)
      /\ Len(blk.wt) <= 3 /\ DiskFromWrites
      /\ \A j \in 1 .. Len(blk.wt) : blk.kept[j] <= Cases[j].count
  BY DEF BlkInv
<1>2. \A j \in 1 .. Len(blk.wt) : j \in 1 .. 3 /\ blk.wt[j] \in Nat /\ blk.kept[j] \in Nat
  <2> SUFFICES ASSUME NEW j \in 1 .. Len(blk.wt)
               PROVE  j \in 1 .. 3 /\ blk.wt[j] \in Nat /\ blk.kept[j] \in Nat
    OBVIOUS
  <2>1. j \in 1 .. 3  BY <1>1
  <2>2. blk.wt[j] \in BlkTargets /\ blk.kept[j] \in Nat  BY <1>1
  <2>3. QED  BY <2>1, <2>2, SectorFacts
<1>3. k \in 1 .. 3  BY <1>2
<1>4. ASSUME NEW j \in 1 .. Len(blk.wt), WrittenBy(s, j)
      PROVE  j = k /\ s - blk.wt[j] = i /\ i < blk.kept[j]
  <2> DEFINE l == s - blk.wt[j]
  <2>1. l \in Int /\ l \in 0 .. blk.kept[j] - 1
    BY <1>0, <1>2, <1>4 DEF WrittenBy
  <2>2. Stamp(Cases[j].start + l) = Stamp(Cases[k].start + i)  BY <1>0, <1>4 DEF WrittenBy
  <2>3. blk.kept[j] <= Cases[j].count /\ blk.kept[j] \in Nat /\ Cases[j].count \in Nat
    <3>1. j \in 1 .. 3 /\ blk.kept[j] \in Nat  BY <1>2
    <3>2. Cases[j].count \in Nat  BY <3>1, CaseFacts
    <3>3. blk.kept[j] <= Cases[j].count  BY <1>1
    <3>4. QED  BY <3>1, <3>2, <3>3
  <2> HIDE DEF l
  <2>4. l \in 0 .. Cases[j].count - 1  BY <2>1, <2>3
  <2>5. j = k /\ l = i  BY <1>0, <1>2, <1>3, <2>1, <2>2, <2>4, StampsDiffer
  <2>6. i < blk.kept[j]  BY <2>1, <2>3, <2>5
  <2>7. QED  BY <2>5, <2>6 DEF l
<1>5. blk.disk[s] # -1  BY <1>0, <1>3, StampsDiffer
<1>6. PICK j \in 1 .. Len(blk.wt) : WrittenBy(s, j)  BY <1>1, <1>5 DEF DiskFromWrites
<1>7. QED  BY <1>4, <1>6

\* What Append does to the record of the requests.
LEMMA OneMore ==
  ASSUME NEW S, NEW s \in Seq(S), NEW e \in S
  PROVE  /\ Append(s, e) \in Seq(S) /\ Len(Append(s, e)) = Len(s) + 1
         /\ Append(s, e)[Len(s) + 1] = e
         /\ \A j \in 1 .. Len(s) : Append(s, e)[j] = s[j]
  OBVIOUS

\* WriteBlocks, whatever sectors it stores and wherever it puts them.
LEMMA BlkWriteInv ==
  ASSUME GuestInv, BlkWrite
  PROVE  GuestPart'
<1>1. /\ job = "blk" /\ pc = "write" /\ UNCHANGED <<job, rng, bal, srv>>
      /\ verdict' \in {verdict, "FAIL"} /\ BlkInv /\ verdict # "PASS"
  BY DEF BlkWrite, At, Fail, Say, Goto, GuestInv, GuestPart
<1>2. CASE UNCHANGED blk /\ pc' = "halted"
  <2>1. pc # "halted" /\ UNCHANGED <<job, guestVars>>  BY <1>1, <1>2 DEF guestVars
  <2>2. QED  BY <1>1, <1>2, <2>1, MoveInv
<1>3. blk.k \in 1 .. 3  BY <1>1 DEF BlkInv
<1>4. PICK k \in 1 .. 3 : k = blk.k  BY <1>3
<1> DEFINE c == Cases[k]
           Stored(t, n) == [s \in Sectors |-> IF s \in t .. t + n - 1 THEN Stamp(c.start + s - t)
                                              ELSE blk.disk[s]]
<1>5. ASSUME NEW t \in BlkTargets, NEW n \in 0 .. c.count, pc' = "flush",
             blk' = [blk EXCEPT !.disk = Stored(t, n), !.wt = Append(@, t), !.kept = Append(@, n)]
      PROVE  BlkInv'
  <2>1. /\ blk \in [k : 1 .. 4, disk : [Sectors -> Int], wt : Seq(BlkTargets), kept : Seq(Nat),
                    rt : Seq(BlkTargets)]
        /\ Len(blk.kept) = Len(blk.wt)
        /\ \A j \in 1 .. Len(blk.wt) : blk.kept[j] <= Cases[j].count
        /\ Len(blk.rt) = k - 1 /\ Len(blk.wt) = k - 1
        /\ \A j \in 1 .. k - 1 : blk.rt[j] = blk.wt[j] /\ blk.kept[j] = Cases[j].count
        /\ DiskFromWrites /\ LastWriteHolds
    BY <1>1, <1>4 DEF BlkInv
  <2>2. k \in 1 .. 3 /\ t \in Nat /\ c.count \in 1 .. 5 /\ c.start \in Nat /\ n \in Nat /\ n <= c.count
    <3>1. c.count \in 1 .. 5 /\ c.start \in Nat  BY CaseFacts
    <3>2. t \in Nat  BY SectorFacts
    <3> HIDE DEF c
    <3>3. QED  BY <3>1, <3>2
  <2>3. /\ blk'.k = k /\ blk'.disk = Stored(t, n) /\ blk'.rt = blk.rt
        /\ blk'.wt = Append(blk.wt, t) /\ blk'.kept = Append(blk.kept, n)
        /\ blk' = [k |-> blk'.k, disk |-> blk'.disk, wt |-> blk'.wt, kept |-> blk'.kept,
                   rt |-> blk'.rt]
    <3> HIDE DEF Stored
    <3>1. QED  BY <1>4, <1>5, <2>1
  <2>4. /\ blk'.wt \in Seq(BlkTargets) /\ Len(blk'.wt) = k /\ blk'.wt[k] = t
        /\ \A j \in 1 .. k - 1 : blk'.wt[j] = blk.wt[j]
    <3>1. blk.wt \in Seq(BlkTargets) /\ Len(blk.wt) = k - 1 /\ (k - 1) + 1 = k  BY <2>1
    <3>2. QED  BY <2>3, <3>1, OneMore
  <2>5. /\ blk'.kept \in Seq(Nat) /\ Len(blk'.kept) = k /\ blk'.kept[k] = n
        /\ \A j \in 1 .. k - 1 : blk'.kept[j] = blk.kept[j]
    <3>1. blk.kept \in Seq(Nat) /\ Len(blk.kept) = k - 1 /\ (k - 1) + 1 = k /\ n \in Nat
      BY <2>1, <2>2
    <3>2. QED  BY <2>3, <3>1, OneMore
  <2>6. blk'.disk \in [Sectors -> Int]
    <3>1. \A s \in t .. t + n - 1 : Stamp(c.start + s - t) \in Int  BY <2>2 DEF Stamp
    <3>2. QED  BY <2>1, <2>3, <3>1
  <2>7. blk' \in [k : 1 .. 4, disk : [Sectors -> Int], wt : Seq(BlkTargets), kept : Seq(Nat),
                  rt : Seq(BlkTargets)]
    <3>1. blk'.k \in 1 .. 4 /\ blk'.rt \in Seq(BlkTargets)  BY <2>1, <2>3
    <3> HIDE DEF Stored
    <3>2. QED  BY <2>3, <2>4, <2>5, <2>6, <3>1
  <2>8. /\ \A j \in 1 .. k : blk'.kept[j] <= Cases[j].count
        /\ \A j \in 1 .. k - 1 : blk'.rt[j] = blk'.wt[j] /\ blk'.kept[j] = Cases[j].count
    <3>1. \A j \in 1 .. k : j = k \/ j \in 1 .. k - 1  BY <2>2
    <3>2. Cases[k].count \in Nat /\ \A j \in 1 .. k - 1 : Cases[j].count \in Nat  BY <2>2, CaseFacts
    <3>3. QED  BY <2>1, <2>2, <2>3, <2>4, <2>5, <3>1, <3>2
  <2>9. t .. t + n - 1 \subseteq Sectors
    <3>1. t .. t + n - 1 \subseteq t .. t + 4  BY <2>2
    <3>2. QED  BY <3>1, SectorFacts
  <2>10. \A s \in t .. t + n - 1 : WrittenBy(s, k)'
    <3> SUFFICES ASSUME NEW s \in t .. t + n - 1 PROVE WrittenBy(s, k)'  OBVIOUS
    <3>1. s \in Sectors /\ s \in Int  BY <2>2, <2>9
    <3>2. blk'.disk[s] = Stamp(c.start + s - t)  BY <2>3, <3>1
    <3>3. c.start + s - t = c.start + (s - t)  BY <2>2, <3>1
    <3>4. QED  BY <2>4, <2>5, <3>2, <3>3 DEF WrittenBy
  <2>11. ASSUME NEW s \in Sectors, s \notin t .. t + n - 1, NEW j \in 1 .. k - 1, WrittenBy(s, j)
         PROVE  WrittenBy(s, j)'
    <3>1. blk'.disk[s] = blk.disk[s]  BY <2>3, <2>11
    <3>2. blk'.wt[j] = blk.wt[j] /\ blk'.kept[j] = blk.kept[j]  BY <2>4, <2>5
    <3>3. QED  BY <2>11, <3>1, <3>2 DEF WrittenBy
  <2>12. DiskFromWrites'
    <3>1. SUFFICES ASSUME NEW s \in Sectors, blk'.disk[s] # -1
                   PROVE  \E j \in 1 .. k : WrittenBy(s, j)'
      BY <2>4 DEF DiskFromWrites
    <3>2. k \in 1 .. k /\ 1 .. k - 1 \subseteq 1 .. k  BY <2>2
    <3>3. CASE s \in t .. t + n - 1  BY <2>10, <3>2, <3>3
    <3>4. CASE s \notin t .. t + n - 1
      <4>1. blk.disk[s] # -1  BY <2>3, <3>1, <3>4
      <4>2. PICK j \in 1 .. k - 1 : WrittenBy(s, j)  BY <2>1, <4>1 DEF DiskFromWrites
      <4>3. QED  BY <2>11, <3>2, <3>4, <4>2
    <3>5. QED  BY <3>3, <3>4
  <2>13. LastWriteHolds'
    <3>1. SUFFICES ASSUME NEW j \in 1 .. k, NEW s \in blk'.wt[j] .. blk'.wt[j] + blk'.kept[j] - 1
                   PROVE  \E l \in j .. k : WrittenBy(s, l)'
      BY <2>4 DEF LastWriteHolds
    <3>2. k \in j .. k /\ j .. k - 1 \subseteq j .. k  BY <2>2
    <3>3. CASE s \in t .. t + n - 1  BY <2>10, <3>2, <3>3
    <3>4. CASE s \notin t .. t + n - 1
      <4>1. j \in 1 .. k - 1 /\ s \in blk.wt[j] .. blk.wt[j] + blk.kept[j] - 1
        <5>1. j # k  BY <2>4, <2>5, <3>4
        <5>2. j \in 1 .. k - 1  BY <5>1, <2>2
        <5>3. QED  BY <5>2, <2>4, <2>5
      <4>2. PICK l \in j .. k - 1 : WrittenBy(s, l)  BY <2>1, <4>1 DEF LastWriteHolds
      <4>3. s \in Sectors
        <5>1. blk.wt[j] \in BlkTargets /\ blk.kept[j] \in Nat  BY <2>1, <4>1
        <5>2. blk.wt[j] \in Nat /\ blk.wt[j] .. blk.wt[j] + 4 \subseteq Sectors  BY <5>1, SectorFacts
        <5>3. j \in 1 .. 3  BY <2>2, <4>1
        <5>4. blk.kept[j] <= Cases[j].count  BY <2>1, <4>1
        <5>5. Cases[j].count \in 1 .. 5  BY <5>3, CaseFacts
        <5>6. s \in blk.wt[j] .. blk.wt[j] + 4  BY <4>1, <5>1, <5>2, <5>4, <5>5
        <5>7. QED  BY <5>2, <5>6
      <4>4. l \in 1 .. k - 1  BY <4>1, <2>2
      <4>5. WrittenBy(s, l)'  BY <2>11, <3>4, <4>2, <4>3, <4>4
      <4>6. QED  BY <3>2, <4>2, <4>5
    <3>5. QED  BY <3>3, <3>4
  <2>14. Len(blk'.wt) <= 3 /\ Len(blk'.rt) = blk'.k - 1 /\ blk'.k # 4  BY <2>1, <2>3, <2>4
  <2>15. QED
    <3> HIDE DEF Stored, c
    <3>1. Len(blk'.wt) = blk'.k /\ Len(blk'.kept) = Len(blk'.wt)  BY <2>3, <2>4, <2>5
    <3>2. /\ \A j \in 1 .. Len(blk'.wt) : blk'.kept[j] <= Cases[j].count
          /\ \A j \in 1 .. blk'.k - 1 : blk'.rt[j] = blk'.wt[j] /\ blk'.kept[j] = Cases[j].count
      BY <2>3, <2>4, <2>8
    <3>3. QED  BY <1>5, <2>7, <2>12, <2>13, <2>14, <3>1, <3>2 DEF BlkInv
<1>6. CASE BlkInv'
  <2>1. verdict' # "PASS"  BY <1>1
  <2>2. PassMeans'
    BY <2>1 DEF PassMeans, BlkPassMeans, RngPassMeans, BalloonPassMeans, FsPassMeans
  <2>3. BalloonInv' /\ FsInv' /\ pc' # "open"
    BY <1>1 DEF BalloonInv, FsInv, BlkWrite, Say, Goto, Fail
  <2>4. QED  BY <1>1, <1>6, <2>1, <2>2, <2>3 DEF GuestPart, GuestInv
<1>7. QED
  <2>1. \/ UNCHANGED blk /\ pc' = "halted"
        \/ \E t \in BlkTargets, n \in 0 .. c.count :
             /\ pc' = "flush"
             /\ blk' = [blk EXCEPT !.disk = Stored(t, n), !.wt = Append(@, t), !.kept = Append(@, n)]
    BY <1>4 DEF BlkWrite, Goto, Say, Fail
  <2> HIDE DEF Stored, c
  <2>2. QED  BY <1>2, <1>5, <1>6, <2>1

\* ReadBlocks: what is found is what the write of the same case put there.
LEMMA BlkReadInv ==
  ASSUME GuestInv, BlkRead
  PROVE  GuestPart'
<1>1. /\ job = "blk" /\ pc = "read" /\ UNCHANGED <<job, rng, bal, srv>>
      /\ verdict' \in {verdict, "FAIL"} /\ BlkInv /\ verdict # "PASS"
  BY DEF BlkRead, At, Fail, Say, Goto, GuestInv, GuestPart
<1>2. CASE UNCHANGED blk /\ pc' = "halted"
  <2>1. pc # "halted" /\ UNCHANGED <<job, guestVars>>  BY <1>1, <1>2 DEF guestVars
  <2>2. QED  BY <1>1, <1>2, <2>1, MoveInv
<1>3. ASSUME NEW t \in BlkTargets,
             blk' = [blk EXCEPT !.rt = Append(@, t), !.k = @ + 1],
             IF Holds(blk.disk, t, Cases[blk.k].start, Cases[blk.k].count)
             THEN pc' = IF blk.k = Len(Cases) THEN "reread" ELSE "write"
             ELSE pc' = "halted"
      PROVE  BlkInv'
  <2> DEFINE k == blk.k
  <2>1. /\ blk \in [k : 1 .. 4, disk : [Sectors -> Int], wt : Seq(BlkTargets), kept : Seq(Nat),
                    rt : Seq(BlkTargets)]
        /\ Len(blk.wt) <= 3 /\ Len(blk.kept) = Len(blk.wt)
        /\ \A j \in 1 .. Len(blk.wt) : blk.kept[j] <= Cases[j].count
        /\ Len(blk.rt) = k - 1 /\ Len(blk.wt) = k
        /\ \A j \in 1 .. k - 1 : blk.rt[j] = blk.wt[j] /\ blk.kept[j] = Cases[j].count
        /\ DiskFromWrites /\ LastWriteHolds
    BY <1>1 DEF BlkInv
  <2>2. k \in 1 .. 3 /\ k \in 1 .. Len(blk.wt) /\ blk.rt \in Seq(BlkTargets)
    BY <2>1
  <2>3. /\ blk'.k = k + 1 /\ blk'.disk = blk.disk /\ blk'.wt = blk.wt /\ blk'.kept = blk.kept
        /\ blk'.rt = Append(blk.rt, t)
        /\ blk' = [k |-> blk'.k, disk |-> blk'.disk, wt |-> blk'.wt, kept |-> blk'.kept,
                   rt |-> blk'.rt]
    BY <1>3, <2>1
  <2>4. DiskFromWrites' /\ LastWriteHolds'
    <3>1. \A z, j : WrittenBy(z, j)' <=> WrittenBy(z, j)  BY <2>3 DEF WrittenBy
    <3>2. DiskFromWrites'  BY <2>1, <2>3, <3>1 DEF DiskFromWrites
    <3>3. LastWriteHolds'  BY <2>1, <2>3, <3>1 DEF LastWriteHolds
    <3>4. QED  BY <3>2, <3>3
  <2> HIDE DEF k
  <2>5. /\ blk'.rt \in Seq(BlkTargets) /\ Len(blk'.rt) = k
        /\ blk'.rt[k] = t /\ \A j \in 1 .. k - 1 : blk'.rt[j] = blk.rt[j]
    BY <2>1, <2>2, <2>3
  <2>6. blk' \in [k : 1 .. 4, disk : [Sectors -> Int], wt : Seq(BlkTargets), kept : Seq(Nat),
                  rt : Seq(BlkTargets)]
    <3>1. /\ blk'.k \in 1 .. 4 /\ blk'.disk \in [Sectors -> Int] /\ blk'.wt \in Seq(BlkTargets)
          /\ blk'.kept \in Seq(Nat)
      BY <2>1, <2>2, <2>3
    <3>2. QED  BY <2>3, <2>5, <3>1
  <2>7. CASE pc' = "halted"
    BY <1>1, <2>1, <2>3, <2>4, <2>6, <2>7 DEF BlkInv
  <2>8. CASE Holds(blk.disk, t, Cases[k].start, Cases[k].count)
    <3>1. pc' = IF k = 3 THEN "reread" ELSE "write"  BY <1>3, <2>8, CaseFacts DEF k
    <3> DEFINE n == Cases[k].count
    <3>2. n \in 1 .. 5 /\ blk.wt[k] \in Nat /\ blk.kept[k] \in Nat /\ t \in Nat
          /\ blk.kept[k] <= n
      <4>1. blk.wt[k] \in BlkTargets /\ blk.kept[k] \in Nat  BY <2>1, <2>2
      <4>2. blk.wt[k] \in Nat /\ t \in Nat  BY <4>1, SectorFacts
      <4>3. n \in 1 .. 5  BY <2>2, CaseFacts
      <4>4. blk.kept[k] <= n  BY <2>1, <2>2
      <4>5. QED  BY <4>1, <4>2, <4>3, <4>4
    <3>3. \A i \in 0 .. n - 1 : blk.disk[t + i] = Stamp(Cases[k].start + i)
      BY <2>8 DEF Holds
    <3>4. \A i \in 0 .. n - 1 : t + i \in Sectors /\ t + i \in Nat
      <4>1. \A i \in 0 .. n - 1 : t + i \in t .. t + 4 /\ t + i \in Nat  BY <3>2
      <4>2. QED  BY <4>1, SectorFacts
    <3>5. \A i \in 0 .. n - 1 : (t + i) - blk.wt[k] = i /\ i < blk.kept[k]
      <4> SUFFICES ASSUME NEW i \in 0 .. n - 1
                   PROVE  (t + i) - blk.wt[k] = i /\ i < blk.kept[k]
        OBVIOUS
      <4>1. i \in Int /\ t + i \in Sectors /\ t + i \in Nat  BY <3>4
      <4>2. blk.disk[t + i] = Stamp(Cases[k].start + i)  BY <3>3
      <4>3. QED  BY <1>1, <2>2, <4>1, <4>2, FoundWhatWasWritten
    <3>6. t = blk.wt[k] /\ blk.kept[k] = n
      <4>1. 0 \in 0 .. n - 1 /\ n - 1 \in 0 .. n - 1  BY <3>2
      <4> HIDE DEF n
      <4>2. (t + 0) - blk.wt[k] = 0 /\ n - 1 < blk.kept[k]  BY <3>5, <4>1
      <4>3. QED  BY <3>2, <4>2
    <3>7. \A j \in 1 .. k : blk'.rt[j] = blk.wt[j] /\ blk.kept[j] = Cases[j].count
      BY <2>1, <2>2, <2>5, <3>6 DEF k
    <3>8. QED  BY <1>1, <2>1, <2>2, <2>3, <2>4, <2>5, <2>6, <3>1, <3>7 DEF BlkInv, k
  <2>9. QED  BY <1>3, <2>7, <2>8 DEF k
<1>4. CASE BlkInv'
  <2>1. verdict' # "PASS" /\ (verdict' = "PASS" => pc' = "halted")  BY <1>1
  <2>2. PassMeans'
    BY <2>1 DEF PassMeans, BlkPassMeans, RngPassMeans, BalloonPassMeans, FsPassMeans
  <2>3. BalloonInv' /\ FsInv' /\ pc' # "open"
    BY <1>1 DEF BalloonInv, FsInv, BlkRead, Say, Goto, Fail
  <2>4. QED  BY <1>1, <1>4, <2>1, <2>2, <2>3 DEF GuestPart, GuestInv
<1>5. QED  BY <1>2, <1>3, <1>4 DEF BlkRead, Goto, Say, Fail

\* Sector 0 once more: it is where it was, and no later write came near.
LEMMA BlkRereadInv ==
  ASSUME GuestInv, BlkReread
  PROVE  GuestPart'
<1>1. /\ job = "blk" /\ pc = "reread" /\ pc' = "halted" /\ UNCHANGED <<job, rng, bal, srv>>
      /\ verdict' \in {"PASS", "FAIL"} /\ BlkInv
  BY DEF BlkReread, At, Fail, Say, GuestInv, GuestPart
<1>2. CASE UNCHANGED blk /\ verdict' = "FAIL"
  <2>1. pc # "halted" /\ UNCHANGED <<job, guestVars>>  BY <1>1, <1>2 DEF guestVars
  <2>2. QED  BY <1>1, <1>2, <2>1, MoveInv
<1>3. ASSUME NEW t \in BlkTargets, blk' = [blk EXCEPT !.rt = Append(@, t)],
             verdict' = "PASS" => Holds(blk.disk, t, 0, 1)
      PROVE  BlkInv' /\ BlkPassMeans'
  <2>1. /\ blk \in [k : 1 .. 4, disk : [Sectors -> Int], wt : Seq(BlkTargets), kept : Seq(Nat),
                    rt : Seq(BlkTargets)]
        /\ Len(blk.wt) = 3 /\ Len(blk.kept) = 3 /\ Len(blk.rt) = 3
        /\ \A j \in 1 .. 3 : blk.rt[j] = blk.wt[j] /\ blk.kept[j] = Cases[j].count
        /\ DiskFromWrites /\ LastWriteHolds
    <3>1. blk.k = 4 /\ blk.k - 1 = 3  BY <1>1 DEF BlkInv
    <3>2. QED  BY <1>1, <3>1 DEF BlkInv
  <2>2. /\ blk'.k = blk.k /\ blk'.disk = blk.disk /\ blk'.wt = blk.wt /\ blk'.kept = blk.kept
        /\ blk'.rt = Append(blk.rt, t)
        /\ blk' = [k |-> blk'.k, disk |-> blk'.disk, wt |-> blk'.wt, kept |-> blk'.kept,
                   rt |-> blk'.rt]
    BY <1>3, <2>1
  <2>3. DiskFromWrites' /\ LastWriteHolds'
    <3>1. \A z, j : WrittenBy(z, j)' <=> WrittenBy(z, j)  BY <2>2 DEF WrittenBy
    <3>2. DiskFromWrites'  BY <2>1, <2>2, <3>1 DEF DiskFromWrites
    <3>3. LastWriteHolds'  BY <2>1, <2>2, <3>1 DEF LastWriteHolds
    <3>4. QED  BY <3>2, <3>3
  <2>4. /\ blk'.rt \in Seq(BlkTargets) /\ blk'.rt[4] = t /\ \A j \in 1 .. 3 : blk'.rt[j] = blk.rt[j]
    BY <2>1, <2>2
  <2>5. BlkInv'
    BY <1>1, <2>1, <2>2, <2>3, <2>4 DEF BlkInv
  <2>6. ASSUME verdict' = "PASS"
        PROVE  /\ t = blk.wt[1]
               /\ \A j \in 2 .. 3 : blk.wt[1] \notin blk.wt[j] .. blk.wt[j] + Cases[j].count - 1
    <3>1. blk.disk[t] = Stamp(0) /\ t \in Nat /\ t \in Sectors
      <4>1. t \in Nat /\ t \in t .. t + 4 /\ t .. t + 4 \subseteq Sectors  BY SectorFacts
      <4>2. blk.disk[t + 0] = Stamp(0 + 0)  BY <1>3, <2>6 DEF Holds
      <4>3. t + 0 = t  BY <4>1
      <4>4. QED  BY <4>1, <4>2, <4>3
    <3>2. 1 \in 1 .. Len(blk.wt) /\ 0 \in 0 .. Cases[1].count - 1 /\ Cases[1].start + 0 = 0
      BY <2>1, CaseFacts
    <3>3. /\ t - blk.wt[1] = 0
          /\ \A j \in 1 .. Len(blk.wt) : WrittenBy(t, j) => j = 1
      BY <1>1, <3>1, <3>2, FoundWhatWasWritten
    <3>4. t = blk.wt[1]
      <4>1. blk.wt[1] \in BlkTargets  BY <2>1
      <4>2. blk.wt[1] \in Nat  BY <4>1, SectorFacts
      <4>3. QED  BY <3>1, <3>3, <4>2
    <3>5. ASSUME NEW j \in 2 .. 3, blk.wt[1] \in blk.wt[j] .. blk.wt[j] + Cases[j].count - 1
          PROVE  FALSE
      <4>1. t \in blk.wt[j] .. blk.wt[j] + blk.kept[j] - 1  BY <2>1, <3>4, <3>5
      <4>2. PICK l \in j .. Len(blk.wt) : WrittenBy(t, l)  BY <2>1, <4>1 DEF LastWriteHolds
      <4>3. l \in 1 .. Len(blk.wt) /\ l # 1  BY <2>1
      <4>4. QED  BY <3>3, <4>2, <4>3
    <3>6. QED  BY <3>4, <3>5
  <2>7. BlkPassMeans'
    BY <1>1, <2>1, <2>2, <2>4, <2>6 DEF BlkPassMeans
  <2>8. QED  BY <2>5, <2>7
<1>4. CASE BlkInv' /\ BlkPassMeans'
  BY <1>1, <1>4 DEF GuestPart, GuestInv, BalloonInv, FsInv, PassMeans, RngPassMeans,
     BalloonPassMeans, FsPassMeans
<1>5. QED  BY <1>2, <1>3, <1>4 DEF BlkReread, Say, Fail

-----------------------------------------------------------------------------
(* The theorems.                                                           *)

\* Before anything has run.
LEMMA GuestStart == Init => GuestInv
<1> SUFFICES ASSUME Init PROVE GuestInv  OBVIOUS
<1>1. TransportInv  BY TransportStart
<1>2. /\ job \in Jobs /\ pc \in {"probe", "new"} /\ verdict = "none"
      /\ blk = [k |-> 1, disk |-> [s \in Sectors |-> -1], wt |-> << >>, kept |-> << >>, rt |-> << >>]
      /\ bal = [op |-> 1, left |-> 64, actual |-> 0, buffers |-> 0, given |-> 0, back |-> 0,
                miscount |-> FALSE]
      /\ job = "fs" => srv \in [hello : {"want", "sameSize", "otherSize", "absent"},
                                cache : {"none"}, stable : {"none"}]
  BY DEF Init, Rounds
<1>3. BlkInv
  <2>1. /\ blk.k = 1 /\ blk.disk = [s \in Sectors |-> -1] /\ blk.wt = << >> /\ blk.kept = << >>
        /\ blk.rt = << >>
    BY <1>2
  <2>2. Len(blk.wt) = 0 /\ Len(blk.kept) = 0 /\ Len(blk.rt) = 0  BY <2>1
  <2>3. DiskFromWrites  BY <2>1 DEF DiskFromWrites
  <2>4. LastWriteHolds  BY <2>2 DEF LastWriteHolds
  <2>5. blk \in [k : 1 .. 4, disk : [Sectors -> Int], wt : Seq(BlkTargets), kept : Seq(Nat),
                  rt : Seq(BlkTargets)]
    BY <1>2
  <2>6. QED  BY <1>2, <2>1, <2>2, <2>3, <2>4, <2>5 DEF BlkInv
<1>4. BalloonInv  BY <1>2 DEF BalloonInv, BalloonPlaces
<1>5. FsInv  BY <1>2 DEF FsInv
<1>6. QED
  BY <1>1, <1>2, <1>3, <1>4, <1>5
  DEF GuestInv, GuestPart, PassMeans, BlkPassMeans, RngPassMeans, BalloonPassMeans, FsPassMeans

\* One step of the guest, the transport or a device.
LEMMA GuestStep == GuestInv /\ [Next]_vars => GuestInv'
<1> SUFFICES ASSUME GuestInv, [Next]_vars PROVE GuestInv'  OBVIOUS
<1>1. TransportInv'  BY TransportStep DEF GuestInv
<1>2. GuestPart'
  BY PlainSteps, RngSampleInv, BalloonStepInv, FsStepInv, BlkWriteInv, BlkReadInv, BlkRereadInv
  DEF Next, Guest
<1>3. QED  BY <1>1, <1>2 DEF GuestInv

\* The inductive invariant of the guests and of their transport.
THEOREM GuestInvariant == Spec => []GuestInv
<1>1. QED  BY GuestStart, GuestStep, PTL DEF Spec

\* What accesses return, for bytes and words of any size: a byte read of
\* configuration space the byte at its offset, wider reads the aligned value that
\* the offset lies in; a register that only the driver writes holds what Write64
\* was given and Read64 returns it; and a Read64 of one that the device advances
\* returns what it held at the beginning, or a value less than WordBase beyond its
\* end if the low word carried in between (ReadConfig8, Read64, Write64).
THEOREM GuestAccessExact == Spec => []AccessExact
<1>1. GuestInv => AccessExact
  BY ConfigExact DEF GuestInv, TransportInv, AccessExact
<1>2. QED  BY <1>1, GuestInvariant, PTL

\* What a PASS of blkvalidate, rngvalidate, balloonvalidate and fsvalidate
\* means, for every disk that may start a request anywhere, every sample of
\* the entropy source of the modelled shape, every driver of the
\* balloon that posts or counts a page too few and every answer of virtiofsd.
THEOREM GuestPassMeans == Spec => []PassMeans
<1>1. GuestInv => PassMeans  BY DEF GuestInv, GuestPart
<1>2. QED  BY <1>1, GuestInvariant, PTL

=============================================================================
