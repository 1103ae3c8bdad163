----------------------------- MODULE MappedRing -----------------------------
(***************************************************************************)
(* The shared-memory command ring of vtest/venusring_linux.go: MappedRing  *)
(* (writeCmd, Submit, WaitHead) driven the way clearDriver drives it, and  *)
(* the host renderer's consumer thread, which is outside the repository    *)
(* and is modelled from what the client code and its comments rely on.     *)
(*                                                                         *)
(* The unit is the dword: the code counts bytes, but every command is      *)
(* padded to a multiple of four (padDword) and bufferSize is a power of    *)
(* two, so "cur & mask" on bytes is "% BufSize" on dwords.                 *)
(*                                                                         *)
(* The client never looks at the free space of the ring.  What keeps it    *)
(* from overwriting dwords the host has not read is a discipline of its    *)
(* callers: a batch (the set-reply command and the command proper, or one  *)
(* void command) is followed by a wait for the host's head to reach the    *)
(* batch's last seqno, and a wait that times out ends the walk.            *)
(***************************************************************************)
EXTENDS Naturals, Sequences

CONSTANTS
  Dword,           \* the dwords commands are made of
  Zero,            \* the dword the mapping is cleared with before use
  Batch,           \* the batches callers submit: sequences of commands
  BufSize,         \* bufferSize, in dwords
  CursorMod,       \* 2^32 in the code: cursors are uint32
  MaxStream,       \* bound: total dwords submitted in one connection
  HostMayStall     \* may the consumer go idle or stop?

Command == UNION {{b[i] : i \in DOMAIN b} : b \in Batch}

\* The dwords a batch of one or two commands occupies.
BatchLen(b) == IF b = << >> THEN 0
               ELSE IF Len(b) = 1 THEN Len(b[1])
               ELSE Len(b[1]) + Len(b[2])

\* bufferSize is positive; a batch fits in an empty ring (the code sizes the
\* buffer for this, "we size the buffer large"); and the total never reaches
\* the cursor's wrap-around ("Our command sizes keep the monotonic cursor well
\* below 2^31", venusring_linux.go:211).
ASSUME RingAssumption ==
  /\ BufSize \in Nat \ {0}
  /\ MaxStream \in Nat
  /\ CursorMod \in Nat /\ MaxStream < CursorMod
  /\ HostMayStall \in BOOLEAN
  /\ \A b \in Batch : /\ b \in Seq(Seq(Dword) \ {<< >>})
                      /\ Len(b) \in 1 .. 2
                      /\ BatchLen(b) <= BufSize

VARIABLES
  mem,             \* the buffer region of the mapping
  head,            \* head word of the mapping, written by the host
  tail,            \* tail word of the mapping, written by the client
  status,          \* the consumer: running, or idle (status word) / stopped
  pc,              \* where the client is in Submit ... WaitHead
  cur,             \* MappedRing.cur, the producer's monotonic cursor
  todo,            \* commands of the batch that are not submitted yet
  hcur,            \* the host consumer's private read cursor
  stream,          \* history: every dword submitted, in order
  taken,           \* history: every dword the host has read, in order
  acked            \* history: the last seqno WaitHead saw reached

ringMem == <<mem, head, tail, status>>
clientVars == <<pc, cur, todo>>
history == <<stream, taken, acked>>
ringVars == <<ringMem, clientVars, hcur, history>>

Slots == 0 .. BufSize - 1

\* copy(m.mem[base+at:], s): overwrite the slots from "at" on with s.
CopyInto(m, at, s) ==
  [i \in Slots |-> IF i >= at /\ i < at + Len(s) THEN s[i - at + 1] ELSE m[i]]

RingInit ==
  /\ mem = [i \in Slots |-> Zero]
  /\ head = 0 /\ tail = 0 /\ hcur = 0 /\ cur = 0
  /\ status = "running"
  /\ pc = "ready"
  /\ todo = << >>
  /\ stream = << >> /\ taken = << >> /\ acked = 0

-----------------------------------------------------------------------------
(* The client.  writeCmd is three steps: the copy up to the end of the     *)
(* buffer, the copy of the wrapped remainder, and the store of the tail.   *)

\* A caller starts a batch.  Named bound: MaxStream.
BeginBatch(b) ==
  /\ pc = "ready"
  /\ Len(stream) + BatchLen(b) <= MaxStream
  /\ todo' = b
  /\ pc' = "copy"
  /\ UNCHANGED <<ringMem, cur, hcur, history>>

\* Mutant: writeCmd without the branch for the wrapped remainder.
CopyFirstDropsRest ==
  LET c == todo[1]
      start == cur % BufSize
  IN /\ pc = "copy"
     /\ mem' = CopyInto(mem, start, c)
     /\ pc' = "tail"
     /\ UNCHANGED <<head, tail, status, cur, todo, hcur, history>>

\* start+n <= bufSize: one copy; otherwise the first bufSize-start dwords.
CopyFirst ==
  LET c == todo[1]
      start == cur % BufSize
      first == BufSize - start
  IN /\ pc = "copy"
     /\ IF start + Len(c) <= BufSize
        THEN /\ mem' = CopyInto(mem, start, c)
             /\ pc' = "tail"
        ELSE /\ mem' = CopyInto(mem, start, SubSeq(c, 1, first))
             /\ pc' = "wrap"
     /\ UNCHANGED <<head, tail, status, cur, todo, hcur, history>>

\* Mutant: the remainder starts one dword late.
CopyRestOffByOne ==
  LET c == todo[1]
      first == BufSize - (cur % BufSize)
  IN /\ pc = "wrap"
     /\ mem' = CopyInto(mem, 0, SubSeq(c, first + 2, Len(c)))
     /\ pc' = "tail"
     /\ UNCHANGED <<head, tail, status, cur, todo, hcur, history>>

\* The wrapped remainder, at the start of the buffer.
CopyRest ==
  LET c == todo[1]
      first == BufSize - (cur % BufSize)
  IN /\ pc = "wrap"
     /\ mem' = CopyInto(mem, 0, SubSeq(c, first + 1, Len(c)))
     /\ pc' = "tail"
     /\ UNCHANGED <<head, tail, status, cur, todo, hcur, history>>

\* Mutant: the tail word gets the cursor from before the command.
StoreTailBehind ==
  LET c == todo[1]
  IN /\ pc = "tail"
     /\ tail' = cur
     /\ cur' = (cur + Len(c)) % CursorMod
     /\ todo' = Tail(todo)
     /\ stream' = stream \o c
     /\ pc' = IF todo' = << >> THEN "wait" ELSE "copy"
     /\ UNCHANGED <<mem, head, status, hcur, taken, acked>>

\* newCur is stored into the tail word and, by Submit, into m.cur.
StoreTail ==
  LET c == todo[1]
      newCur == (cur + Len(c)) % CursorMod
  IN /\ pc = "tail"
     /\ tail' = newCur
     /\ cur' = newCur
     /\ todo' = Tail(todo)
     /\ stream' = stream \o c
     /\ pc' = IF todo' = << >> THEN "wait" ELSE "copy"
     /\ UNCHANGED <<mem, head, status, hcur, taken, acked>>

\* Mutant: any advance of the head counts as reached.
WaitReachedOnAdvance ==
  /\ pc = "wait"
  /\ head > acked
  /\ acked' = cur
  /\ pc' = "ready"
  /\ UNCHANGED <<ringMem, cur, todo, hcur, stream, taken>>

\* Mutant: the caller does not look at the result of WaitHead.
WaitReachedUnchecked ==
  /\ pc = "wait"
  /\ acked' = head
  /\ pc' = "ready"
  /\ UNCHANGED <<ringMem, cur, todo, hcur, stream, taken>>

\* WaitHead reads a head that is at least the seqno of the batch.
WaitReached ==
  /\ pc = "wait"
  /\ head >= cur
  /\ acked' = cur
  /\ pc' = "ready"
  /\ UNCHANGED <<ringMem, cur, todo, hcur, stream, taken>>

\* Mutant: the deadline is computed anew in every iteration, so it never ends.
WaitTimeoutNever ==
  /\ pc = "wait"
  /\ head < cur
  /\ UNCHANGED ringVars

\* WaitHead reads a smaller head and the deadline is over: the caller returns
\* an error and nothing is submitted on this ring again.
WaitTimeout ==
  /\ pc = "wait"
  /\ head < cur
  /\ pc' = "failed"
  /\ UNCHANGED <<ringMem, cur, todo, hcur, history>>

-----------------------------------------------------------------------------
(* The host consumer (external).                                           *)

\* It polls the tail and reads the next dword of the buffer.
HostTake ==
  /\ status = "running"
  /\ hcur # tail
  /\ taken' = Append(taken, mem[hcur % BufSize])
  /\ hcur' = (hcur + 1) % CursorMod
  /\ UNCHANGED <<ringMem, clientVars, stream, acked>>

\* It publishes its progress once what it read has been dispatched.
HostStoreHead ==
  /\ status = "running"
  /\ head # hcur
  /\ head' = hcur
  /\ UNCHANGED <<mem, tail, status, clientVars, hcur, history>>

\* idleTimeout passes with nothing to read; the client never sends the
\* vkNotifyRingMESA that would wake the consumer, so idle is final.
HostIdle ==
  /\ HostMayStall
  /\ status = "running"
  /\ hcur = tail /\ head = hcur
  /\ status' = "idle"
  /\ UNCHANGED <<mem, head, tail, clientVars, hcur, history>>

\* The consumer thread ends (the renderer aborts the ring, the server dies).
HostStop ==
  /\ HostMayStall
  /\ status = "running"
  /\ status' = "stopped"
  /\ UNCHANGED <<mem, head, tail, clientVars, hcur, history>>

-----------------------------------------------------------------------------

ClientStep == CopyFirst \/ CopyRest \/ StoreTail \/ WaitReached \/ WaitTimeout

RingNext ==
  \/ \E b \in Batch : BeginBatch(b)
  \/ ClientStep
  \/ HostTake \/ HostStoreHead \/ HostIdle \/ HostStop

RingSpec == RingInit /\ [][RingNext]_ringVars

\* The client thread runs on and its clock advances; a running consumer polls.
RingFairness ==
  /\ WF_ringVars(CopyFirst) /\ WF_ringVars(CopyRest) /\ WF_ringVars(StoreTail)
  /\ WF_ringVars(WaitReached \/ WaitTimeout)
  /\ WF_ringVars(HostTake) /\ WF_ringVars(HostStoreHead)

FairRingSpec == RingSpec /\ RingFairness

-----------------------------------------------------------------------------
(* Properties.                                                             *)

\* The cursors, the buffer and the histories have their types.
RingTypeOK ==
  /\ mem \in [Slots -> Dword \cup {Zero}]
  /\ head \in Nat /\ tail \in Nat /\ hcur \in Nat /\ cur \in Nat /\ acked \in Nat
  /\ status \in {"running", "idle", "stopped"}
  /\ pc \in {"ready", "copy", "wrap", "tail", "wait", "failed"}
  /\ todo \in Seq(Command)
  /\ stream \in Seq(Dword)
  /\ taken \in Seq(Dword)

\* Although writeCmd (venusring_linux.go:178) never checks for free space, no
\* dword that was published and not read yet is ever overwritten, however
\* often the buffer wraps: it is still in its slot.
UnreadIntact ==
  \A p \in hcur .. tail - 1 : mem[p % BufSize] = stream[p + 1]

\* WaitHead's promise (venusring_linux.go:207): when it reports a seqno as
\* reached, every dword up to that seqno has been read by the host, and a
\* caller that may submit has nothing outstanding.
ReachedMeansRead ==
  /\ acked <= Len(taken)
  /\ pc = "ready" => acked = Len(stream)

\* The cursors are ordered and count what the histories hold; the batch in
\* hand still fits, both below the bound and in the free part of the buffer.
Cursors ==
  /\ tail = cur /\ cur = Len(stream) /\ hcur = Len(taken)
  /\ acked <= head /\ head <= hcur /\ hcur <= tail
  /\ cur + BatchLen(todo) <= MaxStream
  /\ cur + BatchLen(todo) <= acked + BufSize

\* Where the client is determines what is left of the batch.
Phases ==
  /\ Len(todo) <= 2
  /\ todo = << >> <=> pc \in {"ready", "wait", "failed"}
  /\ pc = "ready" => acked = cur
  /\ pc = "wrap" => (cur % BufSize) + Len(todo[1]) > BufSize

\* What the copies of writeCmd have put into the slots past the tail so far.
CopiedLen == IF pc = "wrap" THEN BufSize - (cur % BufSize)
             ELSE IF pc = "tail" THEN Len(todo[1]) ELSE 0
Copied == \A k \in 0 .. CopiedLen - 1 : mem[(cur + k) % BufSize] = todo[1][k + 1]

\* What the host has read is what was submitted, dword by dword, in order.
ReadAsSubmitted == \A i \in 1 .. Len(taken) : taken[i] = stream[i]

\* The inductive invariant: how writeCmd's copies, the two cursors in shared
\* memory and the callers' waits (venusring_linux.go:178-226) fit together.
RingInv == RingTypeOK /\ Cursors /\ Phases /\ Copied /\ UnreadIntact /\ ReadAsSubmitted

\* The ring is a FIFO of whole commands with honest acknowledgements.
Queue == INSTANCE CommandQueue
ImplementsQueue == Queue!Spec

\* WaitHead always returns (it has a deadline), whatever the host does: every
\* batch that is started ends in success or in an error.
BatchEnds == (pc = "copy") ~> (pc \in {"ready", "failed"})

\* Every dword the producer's cursor has passed reaches the host, unless the
\* consumer goes idle or stops, even when the client has given up waiting.
Delivered ==
  \A n \in 1 .. MaxStream :
    (cur >= n) ~> (head >= n \/ status # "running")
=============================================================================
