# A verification project for go-virtio/validate

The repository validates virtio device drivers end to end. It has two halves.

* `vtest/` is a client of virglrenderer's vtest protocol. It speaks the wire
  protocol over a Unix socket, brings up the Venus (Vulkan) context, shares a
  command ring with the host renderer through mapped memory, walks through the
  Vulkan calls that clear an image, and compares what it reads back with an
  analytic reference renderer.
* `guest/` and the `run-*.sh` scripts boot small bare-metal guests under QEMU,
  one per device, and judge them by the verdict lines they print.

Both halves are modelled. They share no code: the first is a client of a
renderer, the second a set of small programs judged from outside.

## Inventory

| component | state | operations | what is hard | what makes it correct |
|---|---|---|---|---|
| command ring (`vtest/venusring_linux.go`) | mapped buffer, head, tail and status words, producer cursor | writeCmd, Submit, WaitHead | two processes share the memory; no free-space check; 32-bit cursors; a deadline | nothing unread is overwritten; a reached head means the batch was read; FIFO |
| clear driver (`vtest/venusclear_linux.go`) | reply blob, ring | submitWithReply, submitNoReply | one reply window for all commands; errors that only show later | a believed reply is fresh and proves all earlier commands executed |
| clear walk (VenusClearImage, `cmd/venusclear`) | host objects, chosen memory type | twenty commands, readback, verdict | order; asynchronous device; infinite fence wait | PASS means the clear was executed on the memory that was read; nothing after the enumeration names an object that is not there |
| session (`client.go`, `venus.go`, RawConn, the three `cmd/` programs) | socket, descriptors, mappings, deferred calls | handshake, parameters, capsets, blobs, uploads, cleanup | no message boundaries; a descriptor rides on one byte; requests without replies; server death | both ends stay in step; nothing the server must refuse; no leak on any path |
| encoders (`venuscs.go`, `protocol.go`) | none | one function per message | byte layout | covered by the repository's golden-byte tests |
| reference renderer (`vtest/refrender`) | none | rasterise, DrawReference, TexReference, sample | winding, boundaries, rounding | covers what a triangle covers |
| comparison (`refrender/compare.go`) | counters | compare, boundaryBand | tolerance bands | the verdict is the per-pixel definition |
| guest transport (`guest/transport`, the DMA region of `guest/board`) | BAR bases, reserved pages | config and MMIO accesses, page allocation | bytes at odd offsets; 64-bit accesses in two words | reads return what is there, torn only when a carry falls between the words |
| validators without a peer (`blkvalidate`, `rngvalidate`, `balloonvalidate`, `fsvalidate`) | none beyond the device's | a straight program of driver calls and checks | checks that faults can cancel or slip through; dropped errors | what a PASS proves; a device that works passes |
| validators with a peer or a screen (`netvalidate`, `consolevalidate`, `vsockvalidate`, `gpuvalidate`, `venusclear-guest.sh`) | what was received | send, receive, compare, report | lost, split, damaged or late data; replies nobody meant | one verdict, and an earned one |
| run scripts and peers (`run*.sh`) | processes, logs, exit code | start, boot, poll, talk to QEMU's monitor, kill, wait, judge | a poll that races the guest; peers that are late or expire; early exits; a picture that is still being written; waits without a deadline | the exit code is earned and has a cause, nothing keeps running |
| `cmd/mkseed`, rest of `guest/board` | none | one file; hardware set-up | | not modelled |

How they interact: a `cmd/` program opens one session; the session's blobs give
the ring and the reply window their memory; the clear driver sends each command
of the walk through the ring and reads the answer in the reply window; the walk
ends with one more blob of the session, the image's memory. `cmd/validator`
stays on the socket and hands the pixels to the comparison. There is one client
thread; concurrency comes from the host: its ring thread, its device queue and
the server process.

A run script starts a peer and QEMU as background processes; the guest in QEMU
reaches its device through the transport and the peer through the device; guest
and script meet only in the serial log. Here everybody runs at once: the script
polls, the guest prints, the peer times out, and QEMU may be gone at any moment.

## Modules

| module | models | state and actions |
|---|---|---|
| `CommandQueue` | (abstract) what a ring promises | `stream`, `taken`, `acked`; submit, take, acknowledge |
| `MappedRing` | `MappedRing` as clearDriver uses it | the mapping's words (`mem`, `head`, `tail`, `status`), the client (`pc`, `cur`, `todo`), the host's private cursor. `CopyFirst`/`CopyRest`/`StoreTail` are writeCmd's two copies and the store of the tail, `WaitReached`/`WaitTimeout` are WaitHead |
| `MappedRingProofs` | | the theorems about `MappedRing` |
| `ArithmeticLemmas` | | facts about quotients, remainders and products for the proofs |
| `ClearDriver` | submitWithReply, submitNoReply | the ring's variables (through `INSTANCE MappedRing`) plus the reply window and the renderer |
| `ClearDriverProofs` | | the theorems about `ClearDriver` |
| `ClearWalk` | VenusClearImage's commands and verdict | the walk's position, the command in flight, the host's objects, command buffer, queue and fence; `RequestBlob`, `ServeBlob` and `MapMemory` are the readback's round trip over the socket |
| `ClearWalkProofs` | | the theorems about `ClearWalk` |
| `VtestSession` | the socket side of the three programs | a program is a script of steps; `ClientSend`, `ClientRecv`, `ClientEOF`, `Mmap`, ..., `RunDeferred`, and the server |
| `VtestSessionProofs` | | the theorems about `VtestSession` |
| `RefRender` | rasterise, DrawReference, TexReference, sample, boundaryBand | operators on a half-pixel lattice |
| `RefCompare` | compare, assertClearExact, assertDrawExact, assertTexExact | one `ScanPixel` (or `ClearPixel`) per iteration, then `Verdict` |
| `RefCompareProofs` | | the theorems about `RefCompare` and `RefRender` |
| `PciTransport` | `guest/transport` | `cfg`, `cmd`, `barBase`, one 64-bit register and the access in progress, the reserved blocks; `Read64Begin`/`Read64End` and `Write64Begin`/`Write64End` are the two words of an access |
| `GuestChecks` | the four validators without a peer, on `PciTransport` | `job` selects a validator, or any sequence of register accesses, or reads of the configuration space; one action per driver call with the check that follows it |
| `GuestChecksProofs` | | the theorems about `PciTransport` and `GuestChecks` |
| `HostScript` | the run scripts | `sh` is where the script is, `qemu`, `peer` and `sock` are its processes and the echo peer's socket, `serial` and `observed` the logs, `ppm` the screendump; the three tests of a poll are three actions, a `kill` (`Signal`) and the end of the process (`Terminates`) two, and so are a question to QEMU's monitor and the answer (`MonitorReplies`, `MonitorGone`) |
| `GuestPeers` | the guests with a peer or a screen, and the peers, composed with `HostScript` | one action per driver call, per datagram and per chunk |
| `GuestPeersProofs` | | the theorems about `HostScript` and `GuestPeers` |
| `MC*` | | constants for TLC |

`ClearDriver` composes the ring with the renderer: its steps on the ring are
actions of an instance of `MappedRing`, which is shown to implement
`CommandQueue`. `ClearWalk` uses what
`ClearDriver` establishes: a believed reply belongs to its command, and a
stream error is silent. `VtestSession` treats the walk as one step.

`GuestPeers` extends `HostScript`: script, guest, peer and QEMU interleave
freely. `GuestChecks` extends `PciTransport`; its validators appear in
`GuestPeers` as guests that reach a verdict.

Outside the repository, and modelled from how the code uses them: the host's
ring thread, the renderer's dispatch of commands, its device queue,
`virgl_test_server`, the virtio drivers under test and their devices, QEMU and
its monitor, `dma.Reserve`, and the host kernel's answers to a vsock request. They are free
to fail, stall, reject, misdirect or die wherever the constants allow it.

Abstractions: commands are dwords with a position (lengths matter, contents do
not); requests are opcodes; replies are the elements a read may take; Vulkan
objects are names. In `ClearWalk` a failing command is one outcome whatever its
VkResult, but for the two enumerations: the code drops their VkResult
(`venusclear_linux.go:454`, `:477`) and looks at a count and a list of ids, so
theirs may fail unnoticed. What `cmd/venusclear` tests after VenusClearImage
returned without an error (exit code 2) VenusClearImage has tested before, so
that branch is never taken. Coverage is exact: on the half-pixel lattice float64 makes no error.
Texture coordinates are exact fractions, where the code divides in float64: if
the area is not a power of two, "nearest" may differ on the border between two
texels and "linear" by the rounding of a tie, which the validator's tolerance
of 4 absorbs. A sector of `blkvalidate` is its first byte, which determines
the others; a random sample is a histogram in which some values stand out. The
console's token is any sequence without zeros and with unequal neighbours, as
the real one is. Elapsed time is nondeterminism: a
deadline may pass whenever the thing awaited has not happened. The picture of
`run.sh` is what its check tells apart: too few colours, one colour on 98% of
it, or neither, and a dump passes through such stages as it is written. A frame
is intact, damaged where the peer of `run-net.sh` looks, or damaged elsewhere.
The build and all printing but the verdict lines are left out.
An operator whose comment starts with "Mutant" is a wrong version of the
definition after it; a property that still holds with it would be worthless.

## Runs

| run | checks | bounds |
|---|---|---|
| `ring` | `UnreadIntact`, `ReachedMeansRead`, `RingInv`, `ImplementsQueue`; `BatchEnds`, `Delivered` | 4-dword buffer, 11 dwords of stream, commands of 1 to 3 dwords: batches fill the ring exactly and wrap at every offset, with the host idle or stopped at any point |
| `driver` | `FreshReply`, `AcceptedMeansExecuted`, `RefusalHasCause`, `WindowQuiet`, `DriverInv`; `OperationEnds` | three operations, two command types (one is 0, as vkCreateInstance's), ring of 3 dwords. Three operations are needed: a rejected void command between two replies of the same type |
| `walk` | `PassMeansCleared`, `ReadWhenQuiet`, `AllocatedTypeFits`, `FaultlessPasses`, `WalkInv`; `WalkEnds` | the whole walk, on hosts that may fail and on one that does not; two memory types, each suitable or not and allowed or not |
| `session` | `InSync`, `NeverRefused`, `HonestRoundTrip`, `NoLeak`, `SessionInv`; `SessionEnds` | whole sessions of all three programs (`gl0`, `gl1`, `gl2`: cmd/validator with none, one or both of its uploads), server versions 1 to 4, empty and two-dword capsets |
| `compare_scan` | `PassIsAgreement`, `CountersAddUp` | every readback of 4x2 pixels in four colours (background, exact, within and outside the tolerance), for the clear, the flat and the textured verdict; the texture's blends lie on both sides of the tolerance |
| `compare_geometry` | `WindingIrrelevant`, `BlendStaysInRange`, `NoCrack`, `BandHugsEdge` | 9375 triangles on a 5x5 grid (first vertex in the left half), 6x4 pixels, edges through pixel centres and degenerate triangles included, with two textures and both filters |
| `harness` | `HarnessInv`, `PassIsEarned`, `VerdictHasCause`, `LogFrozen`; `ScriptEnds` | all seven kinds of script, three polls (a line can fall before, between and after them), two looks for the socket, a token of four bytes, one of them twice, in every chunking, each chunk possibly cut, shifted or swapped |
| `guest` | `AccessExact`, `PassMeans`; `HealthyPasses` | bytes and words of three values (every content of eight config bytes, every 64-bit value and every interleaving of an access with the device's counting), a region of five pages, the real sectors and thresholds of the validators with targets next to every test sector and histograms on both sides of every threshold |

Several of these are conjunctions of named parts, each stated and commented
where it is defined: `FaultlessPasses` (with `OnlyDeviceDangles`), `HonestRoundTrip` (with
`ClearedBeforeUse`),
`VerdictHasCause` (with `LateLineCounts`), `AccessExact` (type, `ConfigReads`,
`LatchExact`, `TornOnlyOnCarry`) and `PassMeans` (one part per validator).
`RingInv`, `DriverInv`, `WalkInv`, `SessionInv` and `HarnessInv` are the
inductive invariants of the proofs; each contains the type invariant, `HarnessInv` also `OneVerdict`
and `NoStrays`.

What the `walk` run shows of a failed enumeration: if the reply still carries a
count or ids, the next command names a physical device the host may not have,
is rejected, and the walk ends with a missing reply. That is the only object
named in vain, and no PASS comes of it.

What the last two runs show. Exit code 0 of a script shows what the script
compares, and no more. `run-net.sh`: the device sent a frame with the ethertype
and the payload it was given; damaged addresses or padding pass, since the peer
does not look at them (`run-net.sh:56-60`). `run-console.sh`: no single direction
damaged the token; damage in both directions can cancel (a swap and a swap
back). `run.sh`: the scanout had at least four colours, not that it was the cube
(`run.sh:110`). Nothing waits for QEMU to have written the picture, and it may be
killed on the way. The share of the commonest colour is taken of the size in
the header, so a picture cut short may pass though the whole one would not, and
one of a good scanout may fail; a file without a pixel makes the check itself
fail (exit code 1). Every other exit code has a cause of its own kind, among
them a peer that expired, was killed with a datagram unread, or was not
listening yet when QEMU connected. When a script exits, QEMU is dead and the
peer too, except the echo peer after the early exit of `run-console.sh:68`, which
has its signal but is not waited for. For the validators: sector stamps modulo 256 do tell the test's sectors apart; the floor
of 200 distinct values in `rngvalidate` never decides, the chi-square bound is
stricter; the six buffers of `balloonvalidate` were all consumed, and held all
the pages if the driver counted what it posted: `Actual`, which is what the
validator looks at, is the driver's own counter; `fsvalidate` proves what the
server holds, not that it is durable, since the error of `Fsync` is dropped and the read-back may come from a
cache (the comment at `fsvalidate/main.go:141` says durable).

Deadlock is not checked in the first six: every one of these programs ends, and
a client that has given up is a final state. `GuestPeers` and `GuestChecks` have
an explicit final step and are checked for deadlock.

Of the transport, a byte of the configuration space is read at any offset, and a
wider value at the aligned offset below the one asked for, as the code does. A
64-bit read of a register that the device advances is not atomic: if a carry
falls between the two words, the value may be one the register never held.
`TornOnlyOnCarry` says that this is the only such case, and how far off it is.

Four runs state what a comment says and the code does not do; TLC finds each
violated.

| run | the repository says | the code |
|---|---|---|
| `compare_blank` | the draw check proves coverage within one pixel and the interior colour (`cmd/validator/main.go:264`) | on the validator's own 16x16 triangle every covered pixel lies in the forgiven band, so a blank readback passes |
| `walk_repick` | another allowed memory type is picked (`venusclear_linux.go:606`) | an error is returned |
| `vsock_reset` | the host listener replies and the guest asserts it (`run-vsock.sh:14`) | any packet addressed to the guest passes, and nobody waits for the listener: a reset will do |
| `blk_offset` | the test sectors catch off-by-one addressing (`blkvalidate/main.go:34`) | a shift common to writes and reads cancels out |

More comments were found stale while modelling and need no run: the package
comment of `refrender.go` (lines 21-25) describes a Y-flip that `rasterise`
does not make (its own comment at line 92 says so); `compare.go:26` calls
the colour delta one over strict-interior pixels, where the loop takes every
pixel covered on both sides; `cmd/validator/main.go:213` speaks of one pixel of
slack where the band, which holds both sides of the edge and is then dilated,
gives two; `compare.go:132` counts the border of the image as a boundary of the
coverage, where the loop below it skips neighbours outside the image, so nothing
is forgiven at the border (`BandHugsEdge` states what the code does, and the
comment's version is its mutant); and `fsvalidate` describes the check of a host
script that the repository does not have.

Fairness. The client's goroutine keeps running and its clock advances, so a
wait with a deadline ends: weak fairness of the client's actions, with the
deadline as one of the alternatives. That is all `BatchEnds` and `OperationEnds`
rest on; the specifications of the ring and the driver also have weak fairness
of a running host, for `Delivered`: its thread polls until it goes idle, which is
what the idle timeout of one second is for. `HealthyPasses` needs weak fairness of
the guest: its driver calls poll a bounded number of times and return.

Three liveness properties hold only under an assumption on somebody else, since
the code waits there without a deadline; without it the program hangs, and
the hazards at those lines are not covered.

* `SessionEnds`: the server serves what it is sent, or closes, because reads
  from the raw socket have no timeout (`venusring_linux.go:67`).
* `WalkEnds`: nothing is assumed of the ring's consumer and the device, but the
  server must answer the one request of the readback or close (`ServeBlob`).
* `ScriptEnds`: QEMU's monitor answers while QEMU lives (`run-balloon.sh:65-69`,
  `run.sh:55`, `:59`), SIGTERM ends a process (the `wait` after a `kill`), and a guest
  that reaches `poweroff` is switched off (`run-venus.sh:135`). Of the validators
  and the peers nothing is assumed: they may hang.

## Proofs

Every safety property that a run checks is proved for all values of the
constants. The assumptions on the constants are named in the modules that
declare them.

| module | theorems | assumed of the constants |
|---|---|---|
| `MappedRingProofs` | `RingInvariant`, `RingNeverOverwrites`, `RingReachedMeansRead`, `RingImplementsQueue` | `RingAssumption`: the buffer is not empty, a batch has one or two nonempty commands and fits in an empty ring, and the stream stays below the cursor's range (2^32 in the code; a comment at `venusring_linux.go:211` relies on the same) |
| `ClearDriverProofs` | `DriverInvariant`, `DriverFreshReply`, `DriverAcceptedMeansExecuted`, `DriverRefusalHasCause`, `DriverWindowQuiet` | `DriverAssumption`: no command has the sentinel's type, a set-reply command and any other one fit in the ring together, and the ring's bound on the stream |
| `ClearWalkProofs` | `WalkInvariant`, `WalkPassMeansCleared`, `WalkReadWhenQuiet`, `WalkAllocatedTypeFits`, `WalkFaultlessPasses` | `WalkAssumption`: finitely many memory types, which are numbers |
| `VtestSessionProofs` | `SessionInvariant`, `SessionInSync`, `SessionNeverRefused`, `SessionHonestRoundTrip`, `SessionNoLeak` | `SessionAssumption`: the programs are those that exist, versions are positive, a capset's length is a number; the server may be allowed to die or not |
| `GuestChecksProofs` | `GuestInvariant`, `GuestAccessExact`, `GuestPassMeans` | `TransportAssumption`, `ChecksAssumption`: bytes and words have values, the DMA region does not start at 0, the block device may hit any set of sectors that holds the right ones, a sample's values and hits are in range |
| `RefCompareProofs` | `ScanInvariant`, `ScanCountersAddUp`, `ScanPassIsAgreement`, `RenderWindingIrrelevant`, `RenderBlendStaysInRange`, `RenderNoCrack`, `RenderBandHugsEdge` | `TargetAssumption`, `CompareAssumption`: even sizes (the lattice), tolerances are numbers, the fill is not the background, vertices are integers, textures are well-formed |
| `GuestPeersProofs` | `HarnessInvariant`, `HarnessPassIsEarned`, `HarnessVerdictHasCause`, `HarnessLogFrozen` | `ScriptAssumption`, `TokenAssumption`: at least one poll, a token of two bytes or more, no byte zero, unequal neighbours |

`ArithmeticLemmas` holds what several of them need about `%` and `\div`.

**The ring.** `UnreadIntact` says that the buffer still holds every dword
between the host's cursor and the tail. It is not inductive: a copy may
overwrite them unless the client knows how far the host has come, and that is
known only because the previous batch was waited for. `RingInv` adds the order
of the cursors (`Cursors`: head, the host's cursor, tail, the producer's cursor,
and the distance from the acknowledged seqno to the end of the batch at most
`BufSize`), what is left of the batch at each control point (`Phases`), how
much of the current command is in the buffer (`Copied`), and that what the host
has read is a prefix of what was submitted (`ReadAsSubmitted`). The arithmetic
of the wrap: two positions less than a buffer apart never share a slot. The
refinement of `CommandQueue` is a case split on the actions: `StoreTail` is the
queue's submit, `HostTake` its take, `WaitReached` its acknowledgement, all else
stutters.

**The driver.** The ring's theorems are instantiated with the driver's batches,
after a proof that these satisfy `RingAssumption`. `DriverInv` says on top of
`RingInv` which part of the current operation's batch is in the stream
(`BatchSent`), at which boundary between commands the renderer stands
(`Dispatching`), that the operations were executed in order and without a gap
unless one was rejected (`Executing`), and that the reply window holds the
sentinel until the current operation's own reply replaces it (`Window`). A reply
that is not the sentinel can then only be the current one, which is
`FreshReply`; it was written by a renderer that had met no error, which is
`AcceptedMeansExecuted`.

**The walk.** `WalkInv` relates the position in the script of twenty commands to
what the host has made, recorded, queued and executed (`Built`). Two facts make it
inductive: after a command-stream error the walk gets no further than the next
command with a reply (`FatalStops`: the two void commands are the only ones the
error can hide in), and the memory type in use is the one chosen at command 4
and found allowed at command 9 (`Chosen`). `Built` makes an exception for the
physical device while a failure of the enumeration may still be unnoticed
(`Missing`): up to command 4, which names it and has a reply, so that the walk
ends there if it is absent.

**The session.** A program is a script of steps; lemmas settle once what each
step of each script is and what follows it, and the rest of the proof goes by
kind of step. `InSync` compares what is in the stream with what is read next. It
is not inductive: when the server answers, the stream must be empty, and the
client must be waiting for that very answer. So `SessionInv` says that what is
on its way to a reading client is the rest of one reply, all of it if the server
lives (`Reply`), and that at most one request with a reply is on its way, the
last (`Requests`). `NeverRefused` needs that every request already on its way
will be allowed when its turn comes (`Permitted`): the version is at least 3
once the client has tested it, because the value it read is the one in force;
the context exists or its request is the first in the stream. `RingLife` orders
zeroing, registering, sampling and writing the ring: the head is 0 from the
zeroing to the sample, so a head that differs from the sample was moved by the
host. `Owned` says that the stack of deferred calls is what the client holds,
except a descriptor received and not yet mapped; a descriptor that arrives is
always one that the client expects, which follows from the synchrony above, for
nobody would close one that came with another reply.

**Transport and validators.** `GuestInv` (in the proof module) adds the state of
a 64-bit access between its two words: the low word of a read belongs to the
value at its beginning, the low word of a write is already in the register. For
`blkvalidate` it says that each sector of the disk holds what the last write that
covered it put there, and the proof rests on the stamps of the test's sectors
being different; for `balloonvalidate` how many buffers have been consumed at each
point of the four operations, and that the pages given and taken so far are
those of the finished ones as long as the driver has not miscounted; for `fsvalidate` what the server holds at each
step. For `rngvalidate` the proof shows, for any number of values that occur any
number of times, that a sample that passes the chi-square bound meets the floor
on distinct values too.

**Comparison and rasteriser.** `ScanInv` relates the counters to the pixels seen
so far. TLC checks it as well, but too slowly for a run: it ranges over the
per-pixel definition in every state of the scan. The geometry is elementary: a
bilinear sample is a convex combination (`BlendStaysInRange`), the edge functions
of the two halves of a triangle add up to those of the whole (`NoCrack`), rotating or
mirroring the vertices permutes or negates the edge functions
(`WindingIrrelevant`), and a pixel at distance d from one of the other kind has a
neighbour closer to it, so that the nearest one lies on the edge
(`BandHugsEdge`, by a smallest distance).

**The harness.** `HarnessInv` says which processes there are at each place of a
script, what a guest has printed, what each line, each dead QEMU and each end of
a loop is due to, and what became of the frame, the packet, the picture and its
dump (`Picture`: a dump that differs from the scanout when QEMU is dead was cut
short by its death or by the signal). Its
core is `TokenFate`: as long as nothing was damaged, the bytes read, those on the
way back and those on the way out are together the token; damage in one
direction either leaves too few bytes for the guest ever to compare, or a byte
in the wrong place that nothing later can change: a cut shortens the stream, a
shift puts in a zero, a swap exchanges neighbours, which differ. `LogFrozen`
follows because every writer is dead when the exit code is chosen.

**Only model-checked.** All liveness (`BatchEnds`, `Delivered`, `OperationEnds`,
`WalkEnds`, `SessionEnds`, `ScriptEnds`, `HealthyPasses`): liveness under
fairness is outside the prover's reach. The four runs that expect a violation
are, of course, not theorems. No module has a recursive operator.

## Not modelled

The encoders' byte layouts (`venuscs.go`, the vtest headers: no control flow, and
fixed by golden-byte tests); printing and the list of differences; cursor wrap
at 2^32 (excluded by assumption); malformed headers from the server;
what run-balloon.sh asks QEMU's monitor (the waits for the answers are modelled;
these are printed and play no part in its verdict); the zeroing of allocated
pages, which are handed out by tamago's `dma.Reserve`; the board's start-up and `cmd/mkseed`
(hardware set-up, pure I/O); the drivers under test, which are other
repositories.

## Plan

1. Done: every component with a protocol or an algorithm of its own, as listed
   above; proofs of all safety properties of the ring, the driver, the walk, the
   session, the transport and the validators, the comparison and the rasteriser,
   and the harness, and of the ring's refinement of the abstract queue.
2. What could follow needs a wider model first: a server that sends malformed
   headers (a length of 0 wraps to a huge allocation at `venus.go:187`), and streams
   longer than the cursor's 2^32 dwords.
