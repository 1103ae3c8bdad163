---------------------------- MODULE GuestChecks -----------------------------
(***************************************************************************)
(* The guests that need no host peer - blkvalidate, rngvalidate,           *)
(* balloonvalidate and fsvalidate - on top of the PCI transport, and the   *)
(* transport by itself.  A behaviour is about one job.                     *)
(*                                                                         *)
(* Each validator is a straight program of driver calls; a call that fails *)
(* or a check that does not hold prints FAIL, and every verdict is         *)
(* followed by halt().  The drivers and the devices are external: a call   *)
(* may fail, and may do something else than it was asked, which sets the   *)
(* ghost fault.                                                            *)
(***************************************************************************)
EXTENDS PciTransport, Sequences

CONSTANTS
  Jobs,            \* what a behaviour may be about
  QueuePages,      \* number of pages a driver takes when it is opened
  BlkTargets,      \* sectors a faulty disk may start a request at
  RngValues,       \* numbers of byte values that stand out in a sample
  RngHits          \* and how often they occur

Validators == {"blk", "rng", "balloon", "fs"}

ASSUME ChecksAssumption ==
  /\ Jobs \subseteq Validators \cup {"config", "bar"}
  /\ QueuePages \in Nat
  /\ BlkTargets \subseteq Nat /\ {0, 1234, 8000} \subseteq BlkTargets
  /\ RngValues \subseteq 1 .. 255 /\ RngHits \subseteq 0 .. 8192

VARIABLES
  job,             \* what this behaviour is about
  pc,              \* where the guest is
  verdict,         \* its last line: "none", "PASS" or "FAIL"
  fault,           \* ghost: did a driver or a device not do its job?
  blk,             \* the disk, and what the requests did to it
  rng,             \* the sample: hist[i] = <<number of values, their hits>>
  bal,             \* the balloon: the driver's count Actual, and what the device took
  srv              \* the shared directory of virtiofsd

guestVars == <<blk, rng, bal, srv>>
vars == <<transportVars, job, pc, verdict, fault, guestVars>>

\* balloonvalidate: inflate, deflate, and the same again with more than fits into
\* one buffer.
Rounds == <<[pages |-> 64, sign |-> 1, want |-> 64], [pages |-> 64, sign |-> -1, want |-> 0],
            [pages |-> 300, sign |-> 1, want |-> 300], [pages |-> 300, sign |-> -1, want |-> 0]>>

Sectors == UNION {t .. t + 4 : t \in BlkTargets}

Init ==
  /\ TransportInit
  /\ job \in Jobs
  /\ cfg \in IF job = "config" THEN [Offsets -> 0 .. ByteBase - 1] ELSE {[o \in Offsets |-> 0]}
  /\ owner \in IF job = "bar" THEN {"latch", "counter"} ELSE {"latch"}
  /\ reg \in IF job = "bar" THEN 0 .. WordBase * WordBase - 1 ELSE {0}
  /\ pc = IF job \in Validators THEN "probe" ELSE "new"
  /\ verdict = "none" /\ fault = FALSE
  /\ blk = [k |-> 1, disk |-> [s \in Sectors |-> -1], wt |-> << >>, kept |-> << >>, rt |-> << >>]
  /\ rng = << >>
  /\ bal = [op |-> 1, left |-> Rounds[1].pages, actual |-> 0,
            buffers |-> 0, given |-> 0, back |-> 0, miscount |-> FALSE]
  /\ srv \in [hello : IF job = "fs" THEN {"want", "sameSize", "otherSize", "absent"} ELSE {"want"},
              cache : {"none"}, stable : {"none"}]

Say(line) == verdict' = line /\ pc' = "halted"
Goto(place) == pc' = place /\ UNCHANGED verdict

\* A driver call that does not succeed, or a check of its result that fails.
Fail == Say("FAIL") /\ fault' = TRUE

At(j, place) == job = j /\ pc = place

-----------------------------------------------------------------------------
(* What every validator begins with.                                       *)

Probe ==
  /\ pc = "probe"
  /\ (Goto("new") /\ UNCHANGED fault) \/ Fail
  /\ UNCHANGED <<transportVars, job, guestVars>>

NewTransport ==
  /\ pc = "new"
  /\ New
  /\ Goto(CASE job \in Validators -> "open" [] job = "config" -> "halted" [] OTHER -> job)
  /\ UNCHANGED <<job, fault, guestVars>>

\* OpenVirtio*: the driver takes pages for its queues.
First == CASE job = "blk" -> "geometry" [] job = "rng" -> "read1"
           [] job = "balloon" -> "queues" [] job = "fs" -> "init"

OpenDriver ==
  /\ pc = "open"
  /\ \/ AllocatePages(QueuePages) /\ Goto(First) /\ UNCHANGED fault
     \/ Fail /\ UNCHANGED transportVars
  /\ UNCHANGED <<job, guestVars>>

-----------------------------------------------------------------------------
(* blkvalidate.                                                            *)

Cases == <<[start |-> 0, count |-> 1], [start |-> 1234, count |-> 1], [start |-> 8000, count |-> 5]>>

\* pattern: the first byte of the sector, which determines the other 511.
Stamp(lba) == (lba * 31 + 165) % 256

Holds(disk, t, lba, n) == \A i \in 0 .. n - 1 : disk[t + i] = Stamp(lba + i)

\* Capacity and read-only flag.
BlkGeometry ==
  /\ At("blk", "geometry")
  /\ (Goto("write") /\ UNCHANGED fault) \/ Fail
  /\ UNCHANGED <<transportVars, job, guestVars>>

\* WriteBlocks stores the first n sectors of the pattern from sector t on.
BlkWrite ==
  /\ At("blk", "write")
  /\ LET c == Cases[blk.k]
     IN \/ Fail /\ UNCHANGED blk
        \/ \E t \in BlkTargets, n \in 0 .. c.count :
             /\ blk' = [blk EXCEPT
                  !.disk = [s \in Sectors |-> IF s \in t .. t + n - 1 THEN Stamp(c.start + s - t) ELSE @[s]],
                  !.wt = Append(@, t), !.kept = Append(@, n)]
             /\ fault' = (fault \/ t # c.start \/ n # c.count)
             /\ Goto("flush")
  /\ UNCHANGED <<transportVars, job, rng, bal, srv>>

BlkFlush ==
  /\ At("blk", "flush")
  /\ (Goto("read") /\ UNCHANGED fault) \/ Fail
  /\ UNCHANGED <<transportVars, job, guestVars>>

\* ReadBlocks, from sector t on; a shorter result fails like an error.
BlkRead ==
  /\ At("blk", "read")
  /\ LET c == Cases[blk.k]
     IN \/ Fail /\ UNCHANGED blk
        \/ \E t \in BlkTargets :
             /\ fault' = (fault \/ t # c.start)
             /\ blk' = [blk EXCEPT !.rt = Append(@, t), !.k = @ + 1]
             /\ IF Holds(blk.disk, t, c.start, c.count)
                THEN Goto(IF blk.k = Len(Cases) THEN "reread" ELSE "write")
                ELSE Say("FAIL")
  /\ UNCHANGED <<transportVars, job, rng, bal, srv>>

\* Sector 0 once more, after the later writes.
BlkReread ==
  /\ At("blk", "reread")
  /\ \/ Fail /\ UNCHANGED blk
     \/ \E t \in BlkTargets :
          /\ fault' = (fault \/ t # 0)
          /\ blk' = [blk EXCEPT !.rt = Append(@, t)]
          /\ Say(IF Holds(blk.disk, t, 0, 1) THEN "PASS" ELSE "FAIL")
  /\ UNCHANGED <<transportVars, job, rng, bal, srv>>

-----------------------------------------------------------------------------
(* rngvalidate.                                                            *)

\* The first read only has to be complete.
RngRead1 ==
  /\ At("rng", "read1")
  /\ (Goto("read2") /\ UNCHANGED fault) \/ Fail
  /\ UNCHANGED <<transportVars, job, guestVars>>

\* Mutant: a read that is short or not distinct is tried again.
RngRead2Retry ==
  /\ At("rng", "read2")
  /\ (Goto("sample") /\ UNCHANGED fault) \/ (Goto("read1") /\ UNCHANGED fault)
  /\ UNCHANGED <<transportVars, job, guestVars>>

\* The second has to differ from it as well: an error, a short read and equal
\* bytes all fail.
RngRead2 ==
  /\ At("rng", "read2")
  /\ (Goto("sample") /\ UNCHANGED fault) \/ Fail
  /\ UNCHANGED <<transportVars, job, guestVars>>

\* A sample of 8192 bytes in which m values occur h times each and the others
\* as evenly as possible.
Sample(m, h) ==
  LET n == 256 - m  rest == 8192 - m * h
  IN <<<<m, h>>, <<rest % n, (rest \div n) + 1>>, <<n - (rest % n), rest \div n>>>>

Sum3(f) == f[1] + f[2] + f[3]
Distinct(s) == Sum3([i \in 1 .. 3 |-> IF s[i][2] > 0 THEN s[i][1] ELSE 0])

\* (d * d * 100) / 32 for every value, in whole numbers; 100/32 is 25/8.
Off(d) == (d * d * 25) \div 8
Chi(s) == Sum3([i \in 1 .. 3 |-> s[i][1] * Off(s[i][2] - 32)]) \div 100

Within(s, d) == \A i \in 1 .. 3 : s[i][1] > 0 => s[i][2] - 32 \in -d .. d

RngSample ==
  /\ At("rng", "sample")
  /\ \/ Fail /\ UNCHANGED rng
     \/ \E m \in RngValues, h \in RngHits, zero \in BOOLEAN :
          /\ m * h <= 8192
          /\ rng' = Sample(m, h)
          /\ fault' = (fault \/ ~Within(rng', 7))
          /\ LET allZero == zero /\ m = 1 /\ h = 8192
             IN Say(IF allZero \/ Distinct(rng') < 200 \/ Chi(rng') > 400 THEN "FAIL" ELSE "PASS")
  /\ UNCHANGED <<transportVars, job, blk, bal, srv>>

-----------------------------------------------------------------------------
(* balloonvalidate.                                                        *)

MaxPFNsPerBuffer == 256

\* Both queues are set up.
BalloonQueues ==
  /\ At("balloon", "queues")
  /\ (Goto("post") /\ UNCHANGED fault) \/ Fail
  /\ UNCHANGED <<transportVars, job, guestVars>>

\* One buffer of an Inflate or Deflate: the device does not take it in time,
\* or takes it with the n pages in it.  The driver adds what it believes to have
\* posted to its own counter Actual: a driver that splits badly posts a page too
\* few, and may count it all the same.
BalloonPost ==
  /\ At("balloon", "post") /\ bal.left > 0
  /\ LET r == Rounds[bal.op]
         full == IF bal.left > MaxPFNsPerBuffer THEN MaxPFNsPerBuffer ELSE bal.left
     IN \/ Fail /\ UNCHANGED bal
        \/ \E n \in {full, full - 1} : \E counted \in {n, full} :
             /\ bal' = [bal EXCEPT !.left = @ - full, !.actual = @ + r.sign * counted,
                          !.buffers = @ + 1,
                          !.given = IF r.sign = 1 THEN @ + n ELSE @,
                          !.back = IF r.sign = 1 THEN @ ELSE @ + n,
                          !.miscount = @ \/ counted # n]
             /\ fault' = (fault \/ n # full)
             /\ Goto("post")
  /\ UNCHANGED <<transportVars, job, blk, rng, srv>>

\* Mutant: Actual is looked at in the last round only.
BalloonActualAtEnd ==
  /\ At("balloon", "post") /\ bal.left = 0
  /\ \/ /\ bal.op = 4
        /\ Say(IF bal.actual = 0 THEN "PASS" ELSE "FAIL")
        /\ UNCHANGED bal
     \/ /\ bal.op < 4
        /\ bal' = [bal EXCEPT !.op = @ + 1, !.left = Rounds[bal.op + 1].pages]
        /\ Goto("post")
  /\ UNCHANGED <<transportVars, job, fault, blk, rng, srv>>

\* After each round.
BalloonActual ==
  /\ At("balloon", "post") /\ bal.left = 0
  /\ \/ bal.actual # Rounds[bal.op].want /\ Say("FAIL") /\ UNCHANGED bal
     \/ bal.actual = Rounds[bal.op].want /\ bal.op = 4 /\ Say("PASS") /\ UNCHANGED bal
     \/ /\ bal.actual = Rounds[bal.op].want /\ bal.op < 4
        /\ bal' = [bal EXCEPT !.op = @ + 1, !.left = Rounds[bal.op + 1].pages]
        /\ Goto("post")
  /\ UNCHANGED <<transportVars, job, fault, blk, rng, srv>>

-----------------------------------------------------------------------------
(* fsvalidate.                                                             *)

\* A call that only has to succeed, on the way from one place to the next.
FsCall(from, to) ==
  /\ At("fs", from)
  /\ (Goto(to) /\ UNCHANGED fault) \/ Fail
  /\ UNCHANGED <<transportVars, job, guestVars>>

\* Lookup: the file exists and has the right size.
FsLookup ==
  /\ At("fs", "lookup")
  /\ IF srv.hello \in {"want", "sameSize"} THEN (Goto("open fh") /\ UNCHANGED fault) \/ Fail ELSE Fail
  /\ UNCHANGED <<transportVars, job, guestVars>>

\* Read returns what the file holds, or something else.  The error of the
\* Release after it is dropped.
FsRead ==
  /\ At("fs", "read hello")
  /\ IF srv.hello = "want" THEN (Goto("create") /\ UNCHANGED fault) \/ Fail ELSE Fail
  /\ UNCHANGED <<transportVars, job, guestVars>>

\* Write: an error or a short count fails; a full count need not be true.
FsWrite ==
  /\ At("fs", "write token")
  /\ \/ Fail /\ UNCHANGED srv
     \/ \E stored \in {"token", "part"} :
          /\ srv' = [srv EXCEPT !.cache = stored]
          /\ fault' = (fault \/ stored = "part")
          /\ Goto("fsync")
  /\ UNCHANGED <<transportVars, job, blk, rng, bal>>

\* The error of Fsync is dropped.
FsFsync ==
  /\ At("fs", "fsync")
  /\ srv' \in {srv, [srv EXCEPT !.stable = srv.cache]}
  /\ fault' = (fault \/ srv' = srv)
  /\ Goto("readback")
  /\ UNCHANGED <<transportVars, job, blk, rng, bal>>

\* The read-back is served from the server's cache.
FsReadBack ==
  /\ At("fs", "readback")
  /\ \/ Fail
     \/ Say(IF srv.cache = "token" THEN "PASS" ELSE "FAIL") /\ UNCHANGED fault
  /\ UNCHANGED <<transportVars, job, guestVars>>

-----------------------------------------------------------------------------
(* The transport by itself: any caller, any order.                         *)

BarStep ==
  /\ At("bar", "bar")
  /\ \E bar \in {0, 5, 6} :
       \/ BadBar(bar)
       \/ \E w \in Words : ReadNarrow(bar, w) \/ \E x \in 0 .. WordBase - 1 : WriteNarrow(bar, w, x)
       \/ Read64Begin(bar)
       \/ \E v \in 0 .. WordBase * WordBase - 1 : Write64Begin(bar, v)
  /\ UNCHANGED <<job, pc, verdict, fault, guestVars>>

BarEnd ==
  /\ At("bar", "bar")
  /\ Read64End \/ Write64End
  /\ UNCHANGED <<job, pc, verdict, fault, guestVars>>

Device ==
  /\ job = "bar" /\ DeviceCounts
  /\ UNCHANGED <<job, pc, verdict, fault, guestVars>>

Guest ==
  \/ Probe \/ NewTransport \/ OpenDriver
  \/ BlkGeometry \/ BlkWrite \/ BlkFlush \/ BlkRead \/ BlkReread
  \/ RngRead1 \/ RngRead2 \/ RngSample
  \/ BalloonQueues \/ BalloonPost \/ BalloonActual
  \/ FsCall("init", "lookup") \/ FsLookup \/ FsCall("open fh", "read hello") \/ FsRead
  \/ FsCall("create", "write token") \/ FsWrite \/ FsFsync \/ FsReadBack

Halted == pc = "halted" /\ UNCHANGED vars

Next == Guest \/ BarStep \/ BarEnd \/ Device \/ Halted

\* A driver call returns: the drivers poll a bounded number of times.
Spec == Init /\ [][Next]_vars /\ WF_vars(Guest)

-----------------------------------------------------------------------------
(* Properties.                                                             *)

\* blkvalidate passes only if each request read from where the write of its
\* case put all its sectors, sector 0 was found again at the end, and no later
\* write touched the place that holds it: the stamps of the sectors differ
\* (blkvalidate/main.go:89-101, 148-164).
BlkPassMeans ==
  job = "blk" /\ verdict = "PASS" =>
    /\ \A k \in 1 .. 3 : blk.rt[k] = blk.wt[k] /\ blk.kept[k] = Cases[k].count
    /\ blk.rt[4] = blk.wt[1]
    /\ \A k \in 2 .. 3 : blk.wt[1] \notin blk.wt[k] .. blk.wt[k] + Cases[k].count - 1

\* A sample that rngvalidate accepts has at least 245 of the 256 values, none
\* of them more than 112 hits off the expected 32: the floor of 200 values
\* never decides, and the rounding of the chi-square sum lets no more through
\* (rngvalidate/main.go:137-162).
RngPassMeans ==
  job = "rng" /\ verdict = "PASS" => Within(rng, 112) /\ Distinct(rng) >= 245

\* balloonvalidate passes only if the device consumed all six buffers, those of
\* the split rounds included.  That they held all the pages, 364 for either queue,
\* follows only if the driver counted what it posted, since the validator looks at
\* the driver's own counter (balloonvalidate/main.go:84-129).
BalloonPassMeans ==
  job = "balloon" /\ verdict = "PASS" =>
    /\ bal.buffers = 6
    /\ ~bal.miscount => bal.given = 364 /\ bal.back = 364

\* fsvalidate passes only if the host's file was what it had to be and the
\* server holds the whole token, even if the count returned by Write was not
\* true and the errors of Fsync and Release are dropped
\* (fsvalidate/main.go:129-154).
FsPassMeans ==
  job = "fs" /\ verdict = "PASS" => srv.hello = "want" /\ srv.cache = "token"

\* What a PASS of each validator proves.
PassMeans == BlkPassMeans /\ RngPassMeans /\ BalloonPassMeans /\ FsPassMeans

\* If drivers and devices do what they are asked and calls return, every
\* validator reports PASS: no check is wrong about a device that works, and
\* no program order leaves it without a verdict.  For the entropy source this
\* means at most 7 hits off the expected 32 for every value.
HealthyPasses ==
  job \in Validators /\ []~fault /\ [](srv.hello = "want") => <>(verdict = "PASS")

-----------------------------------------------------------------------------
(* What the repository says of a validator and the code does not do.       *)

\* blkvalidate/main.go:34-36: the test LBAs are there "so a single round-trip
\* can catch off-by-one sector addressing".
OffByOneCaught ==
  job = "blk" /\ verdict = "PASS" => \A k \in 1 .. 3 : blk.wt[k] = Cases[k].start
=============================================================================
