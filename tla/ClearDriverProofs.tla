-------------------------- MODULE ClearDriverProofs -------------------------
(***************************************************************************)
(* Proofs about ClearDriver, for every set of command types, every command *)
(* lengths that fit in the ring and every bound on the operations.         *)
(*                                                                         *)
(* The theorems about the ring are taken from MappedRingProofs, which is   *)
(* instantiated with the driver's dwords and batches: its assumption is    *)
(* proved here (RingAssumptionHolds).  On top of the ring's invariant,     *)
(* DriverInv says which part of the current batch is in the stream, at     *)
(* which command the renderer is, and what the reply window holds then.    *)
(***************************************************************************)
EXTENDS ClearDriver, Integers, SequenceTheorems, TLAPS

RingProofs == INSTANCE MappedRingProofs
                WITH Dword <- DriverDword, Zero <- ZeroDword, Batch <- DriverBatch

-----------------------------------------------------------------------------
(* The driver's batches satisfy what the ring assumes.                     *)

\* A command is a nonempty sequence of dwords that all describe it.
LEMMA CmdIsDwords ==
  ASSUME NEW o \in 0 .. MaxOps, NEW k \in Kind, NEW t \in CmdType \cup {SentinelType},
         NEW n \in Nat \ {0}
  PROVE  /\ Cmd(o, k, t, n) \in Seq(DriverDword) \ {<< >>}
         /\ Len(Cmd(o, k, t, n)) = n
         /\ \A i \in 1 .. n : Cmd(o, k, t, n)[i] =
              [op |-> o, kind |-> k, type |-> t, off |-> i, len |-> n]
<1>1. \A i \in 1 .. n : [op |-> o, kind |-> k, type |-> t, off |-> i, len |-> n] \in DriverDword
  BY DEF DriverDword
<1>2. Cmd(o, k, t, n) \in [1 .. n -> DriverDword]
  BY <1>1 DEF Cmd
<1>3. Cmd(o, k, t, n) \in Seq(DriverDword) /\ Len(Cmd(o, k, t, n)) = n
  BY <1>2
<1>4. QED  BY <1>3 DEF Cmd

\* So is vkSetReplyCommandStreamMESA.
LEMMA SetReplyIsDwords ==
  ASSUME NEW o \in 0 .. MaxOps
  PROVE  /\ SetReply(o) \in Seq(DriverDword) \ {<< >>}
         /\ Len(SetReply(o)) = SetReplyLen
         /\ \A i \in 1 .. SetReplyLen : SetReply(o)[i] =
              [op |-> o, kind |-> "set", type |-> SentinelType, off |-> i, len |-> SetReplyLen]
<1>1. "set" \in Kind /\ SentinelType \in CmdType \cup {SentinelType} /\ SetReplyLen \in Nat \ {0}
  BY DriverAssumption DEF Kind
<1>2. \A t \in CmdType \cup {SentinelType} :
        /\ Cmd(o, "set", t, SetReplyLen) \in Seq(DriverDword) \ {<< >>}
        /\ Len(Cmd(o, "set", t, SetReplyLen)) = SetReplyLen
        /\ \A i \in 1 .. SetReplyLen : Cmd(o, "set", t, SetReplyLen)[i] =
             [op |-> o, kind |-> "set", type |-> t, off |-> i, len |-> SetReplyLen]
  BY <1>1, CmdIsDwords
<1>3. QED  BY <1>1, <1>2 DEF SetReply

\* What MappedRing assumes of its batches is true of the driver's.
LEMMA RingAssumptionHolds == RingProofs!RingAssumption
<1>1. ASSUME NEW b \in DriverBatch
      PROVE  /\ b \in Seq(Seq(DriverDword) \ {<< >>})
             /\ Len(b) \in 1 .. 2
             /\ RingProofs!BatchLen(b) <= BufSize
  <2>1. CASE \E o \in 1 .. MaxOps, t \in CmdType, n \in CmdLens :
               b = <<SetReply(o), Cmd(o, "reply", t, n)>>
    <3>1. PICK o \in 1 .. MaxOps, t \in CmdType, n \in CmdLens :
            b = <<SetReply(o), Cmd(o, "reply", t, n)>>
      BY <2>1
    <3>2. n \in Nat \ {0} /\ SetReplyLen \in Nat \ {0} /\ SetReplyLen + n <= BufSize
          /\ o \in 0 .. MaxOps
      BY DriverAssumption
    <3>3. SetReply(o) \in Seq(DriverDword) \ {<< >>} /\ Len(SetReply(o)) = SetReplyLen
      BY <3>2, SetReplyIsDwords
    <3>4. Cmd(o, "reply", t, n) \in Seq(DriverDword) \ {<< >>} /\ Len(Cmd(o, "reply", t, n)) = n
      BY <3>2, CmdIsDwords DEF Kind
    <3>5. QED  BY <3>1, <3>2, <3>3, <3>4 DEF RingProofs!BatchLen
  <2>2. CASE \E o \in 1 .. MaxOps, n \in CmdLens : b = <<Cmd(o, "void", SentinelType, n)>>
    <3>1. PICK o \in 1 .. MaxOps, n \in CmdLens : b = <<Cmd(o, "void", SentinelType, n)>>
      BY <2>2
    <3>2. n \in Nat \ {0} /\ n <= BufSize /\ o \in 0 .. MaxOps
      BY DriverAssumption
    <3>3. Cmd(o, "void", SentinelType, n) \in Seq(DriverDword) \ {<< >>}
          /\ Len(Cmd(o, "void", SentinelType, n)) = n
      BY <3>2, CmdIsDwords DEF Kind
    <3>4. QED  BY <3>1, <3>2, <3>3 DEF RingProofs!BatchLen
  <2>3. QED  BY <2>1, <2>2 DEF DriverBatch
<1>2. QED  BY <1>1, DriverAssumption DEF RingProofs!RingAssumption

-----------------------------------------------------------------------------
(* The ring of the driver is the ring of the theorems.                     *)

\* Both instances of the ring have the same invariant, ...
LEMMA SameInv == Ring!RingInv <=> RingProofs!RingInv
  BY DEF Ring!RingInv, RingProofs!RingInv, Ring!RingTypeOK, RingProofs!RingTypeOK,
     Ring!Cursors, RingProofs!Cursors, Ring!Phases, RingProofs!Phases,
     Ring!Copied, RingProofs!Copied, Ring!CopiedLen, RingProofs!CopiedLen,
     Ring!UnreadIntact, RingProofs!UnreadIntact,
     Ring!ReadAsSubmitted, RingProofs!ReadAsSubmitted,
     Ring!Command, RingProofs!Command, Ring!BatchLen, RingProofs!BatchLen,
     Ring!Slots, RingProofs!Slots

\* ... the same initial states, ...
LEMMA SameInit == Ring!RingInit <=> RingProofs!RingInit
  BY DEF Ring!RingInit, RingProofs!RingInit, Ring!Slots, RingProofs!Slots

\* ... the same reads by the host ...
LEMMA SameTake == Ring!HostTake <=> RingProofs!HostTake
  BY DEF Ring!HostTake, RingProofs!HostTake, Ring!ringMem, RingProofs!ringMem,
     Ring!clientVars, RingProofs!clientVars

\* ... and the same steps.
LEMMA SameNext == [Ring!RingNext]_(Ring!ringVars) <=> [RingProofs!RingNext]_(RingProofs!ringVars)
<1> USE DEF Ring!ringVars, RingProofs!ringVars, Ring!ringMem, RingProofs!ringMem,
     Ring!clientVars, RingProofs!clientVars, Ring!history, RingProofs!history
<1>1. \A b \in DriverBatch : Ring!BeginBatch(b) <=> RingProofs!BeginBatch(b)
  BY DEF Ring!BeginBatch, RingProofs!BeginBatch, Ring!BatchLen, RingProofs!BatchLen
<1>2. Ring!CopyFirst <=> RingProofs!CopyFirst
  BY DEF Ring!CopyFirst, RingProofs!CopyFirst, Ring!CopyInto, RingProofs!CopyInto,
     Ring!Slots, RingProofs!Slots
<1>3. Ring!CopyRest <=> RingProofs!CopyRest
  BY DEF Ring!CopyRest, RingProofs!CopyRest, Ring!CopyInto, RingProofs!CopyInto,
     Ring!Slots, RingProofs!Slots
<1>4. Ring!StoreTail <=> RingProofs!StoreTail
  BY DEF Ring!StoreTail, RingProofs!StoreTail
<1>5. (Ring!WaitReached <=> RingProofs!WaitReached) /\ (Ring!WaitTimeout <=> RingProofs!WaitTimeout)
  BY DEF Ring!WaitReached, RingProofs!WaitReached, Ring!WaitTimeout, RingProofs!WaitTimeout
<1>6. /\ Ring!HostStoreHead <=> RingProofs!HostStoreHead
      /\ Ring!HostIdle <=> RingProofs!HostIdle
      /\ Ring!HostStop <=> RingProofs!HostStop
  BY DEF Ring!HostStoreHead, RingProofs!HostStoreHead, Ring!HostIdle, RingProofs!HostIdle,
     Ring!HostStop, RingProofs!HostStop
<1>7. QED
  BY <1>1, <1>2, <1>3, <1>4, <1>5, <1>6, SameTake
  DEF Ring!RingNext, RingProofs!RingNext, Ring!ClientStep, RingProofs!ClientStep

\* The ring's invariant is preserved by the steps of the ring.
LEMMA RingInvStep ==
  ASSUME Ring!RingInv, [Ring!RingNext]_(Ring!ringVars)
  PROVE  Ring!RingInv'
<1>1. RingProofs!RingInv /\ [RingProofs!RingNext]_(RingProofs!ringVars)
  BY SameInv, SameNext
<1>2. RingProofs!RingInv'  BY <1>1, RingAssumptionHolds, RingProofs!RingStepInv
<1>3. QED  BY <1>2, SameInv, PTL

\* What the proofs below use of the ring's invariant.
LEMMA RingFacts ==
  ASSUME Ring!RingInv
  PROVE  /\ acked \in Nat /\ head \in Nat /\ cur \in Nat /\ hcur \in Nat
         /\ stream \in Seq(DriverDword) /\ taken \in Seq(DriverDword)
         /\ Len(stream) \in Nat /\ Len(taken) \in Nat
         /\ cur = Len(stream) /\ hcur = Len(taken)
         /\ acked <= head /\ head <= Len(taken) /\ Len(taken) <= Len(stream)
         /\ pc \in {"ready", "copy", "wrap", "tail", "wait", "failed"}
         /\ todo = << >> <=> pc \in {"ready", "wait", "failed"}
         /\ pc = "ready" => acked = Len(stream)
         /\ \A i \in 1 .. Len(taken) : taken[i] = stream[i]
<1>1. stream \in Seq(DriverDword) /\ taken \in Seq(DriverDword)
  BY DEF Ring!RingInv, Ring!RingTypeOK
<1>2. Len(stream) \in Nat /\ Len(taken) \in Nat  BY <1>1
<1>3. QED
  BY <1>1, <1>2 DEF Ring!RingInv, Ring!RingTypeOK, Ring!Cursors, Ring!Phases, Ring!ReadAsSubmitted

\* Every step of the driver and the renderer is a step of the ring or leaves
\* the ring alone.
LEMMA StepIsRingStep ==
  ASSUME TypeOK, [Next]_vars
  PROVE  [Ring!RingNext]_(Ring!ringVars)
<1> USE DEF Ring!RingNext, Ring!ClientStep
<1>1. ASSUME NEW n \in CmdLens, SubmitNoReply(n) PROVE [Ring!RingNext]_(Ring!ringVars)
  <2>1. op + 1 \in 1 .. MaxOps
    BY <1>1, DriverAssumption DEF SubmitNoReply, TypeOK
  <2>2. <<Cmd(op + 1, "void", SentinelType, n)>> \in DriverBatch  BY <2>1 DEF DriverBatch
  <2>3. QED  BY <1>1, <2>2 DEF SubmitNoReply
<1>2. ASSUME NEW n \in CmdLens, NEW t \in CmdType, SubmitWithReply(t, n)
      PROVE  [Ring!RingNext]_(Ring!ringVars)
  <2>1. op + 1 \in 1 .. MaxOps
    BY <1>2, DriverAssumption DEF SubmitWithReply, TypeOK
  <2>2. <<SetReply(op + 1), Cmd(op + 1, "reply", t, n)>> \in DriverBatch
    BY <2>1 DEF DriverBatch
  <2>3. QED  BY <1>2, <2>2 DEF SubmitWithReply
<1>3. CASE DriverWrite  BY <1>3 DEF DriverWrite
<1>4. CASE DriverReached \/ DriverTimeout  BY <1>4 DEF DriverReached, DriverTimeout
<1>5. CASE HostFetch \/ HostPublish \/ HostStall
  BY <1>5 DEF HostFetch, HostPublish, HostStall
<1>6. CASE CheckEcho \/ HostDispatch \/ UNCHANGED vars
  <2>1. UNCHANGED ringState
    BY <1>6 DEF CheckEcho, HostDispatch, ExecSetReply, ExecReply, ExecVoid, Reject, Skip,
       Dispatch, vars
  <2>2. QED
    BY <2>1 DEF ringState, Ring!ringVars, Ring!ringMem, Ring!clientVars, Ring!history
<1>7. QED  BY <1>1, <1>2, <1>3, <1>4, <1>5, <1>6 DEF Next

-----------------------------------------------------------------------------
(* One lemma per action: the action preserves the invariant.  RingInv' is  *)
(* RingInvStep's business and a hypothesis here.                           *)

DriverPart == TypeOK /\ DriverPhases /\ BatchSent /\ Dispatching /\ Executing /\ Window

\* The window is filled and the batch of two begins.
LEMMA SubmitWithReplyInv ==
  ASSUME DriverInv, NEW t \in CmdType, NEW n \in CmdLens, SubmitWithReply(t, n), Ring!RingInv'
  PROVE  DriverPart'
<1> USE DEF DriverInv
<1>1. /\ pc = "ready" /\ dpc = "idle" /\ op < MaxOps
      /\ pc' = "copy" /\ dpc' = "busy" /\ op' = op + 1
      /\ todo' = <<SetReply(op + 1), Cmd(op + 1, "reply", t, n)>>
      /\ want' = [kind |-> "reply", type |-> t] /\ reply' = Sentinel
      /\ UNCHANGED <<head, stream, taken, acked, dispatched, replyStream, fatal, executed, accepted>>
  BY DEF SubmitWithReply, Ring!BeginBatch, Ring!ringMem, Ring!history, rendererVars
<1>2. todo = << >> /\ acked = Len(stream) /\ Len(stream) \in Nat  BY <1>1, RingFacts
<1>3. todo' # << >>  BY <1>1
<1>4. SetReplyLen \in Nat \ {0}  BY DriverAssumption
<1>5. TypeOK'
  BY <1>1, DriverAssumption DEF TypeOK, Sentinel
<1>6. DriverPhases'  BY <1>1 DEF DriverPhases, TypeOK
<1>7. BatchSent'
  <2>1. OpCommand(n)' = Cmd(op + 1, "reply", t, n)  BY <1>1 DEF OpCommand
  <2>2. SetReply(op)' = SetReply(op + 1)  BY <1>1
  <2>3. todo' = <<SetReply(op)', OpCommand(n)'>>  BY <1>1, <2>1, <2>2
  <2>4. QED  BY <1>1, <1>2, <2>3 DEF BatchSent
<1>8. Dispatching'
  BY <1>1, <1>2, <1>4 DEF Dispatching
<1>9. Executing'
  BY <1>1, <1>2, <1>3 DEF Executing, Dispatching, AllDispatched, TypeOK
<1>10. Window'  BY <1>1, <1>3 DEF Window, AllDispatched, Sentinel
<1>11. QED  BY <1>5, <1>6, <1>7, <1>8, <1>9, <1>10 DEF DriverPart

\* A batch of one begins.
LEMMA SubmitNoReplyInv ==
  ASSUME DriverInv, NEW n \in CmdLens, SubmitNoReply(n), Ring!RingInv'
  PROVE  DriverPart'
<1> USE DEF DriverInv
<1>1. /\ pc = "ready" /\ dpc = "idle" /\ op < MaxOps
      /\ pc' = "copy" /\ dpc' = "busy" /\ op' = op + 1
      /\ todo' = <<Cmd(op + 1, "void", SentinelType, n)>>
      /\ want' = [kind |-> "void", type |-> SentinelType]
      /\ UNCHANGED <<head, stream, taken, acked, dispatched, replyStream, fatal, executed,
                     reply, accepted>>
  BY DEF SubmitNoReply, Ring!BeginBatch, Ring!ringMem, Ring!history, rendererVars
<1>2. todo = << >> /\ acked = Len(stream) /\ Len(stream) \in Nat  BY <1>1, RingFacts
<1>3. todo' # << >>  BY <1>1
<1>5. TypeOK'  BY <1>1, DriverAssumption DEF TypeOK
<1>6. DriverPhases'  BY <1>1 DEF DriverPhases, TypeOK
<1>7. BatchSent'
  <2>1. OpCommand(n)' = Cmd(op + 1, "void", SentinelType, n)  BY <1>1 DEF OpCommand
  <2>2. todo' = <<OpCommand(n)'>>  BY <1>1, <2>1
  <2>3. QED  BY <1>1, <1>2, <2>2 DEF BatchSent
<1>8. Dispatching'  BY <1>1, <1>2 DEF Dispatching
<1>9. Executing'
  BY <1>1, <1>2, <1>3 DEF Executing, Dispatching, AllDispatched, TypeOK
<1>10. Window'  BY <1>1 DEF Window
<1>11. QED  BY <1>5, <1>6, <1>7, <1>8, <1>9, <1>10 DEF DriverPart

\* The command of the current operation is such a sequence.
LEMMA OpCommandIsDwords ==
  ASSUME TypeOK, NEW n \in CmdLens
  PROVE  /\ OpCommand(n) \in Seq(DriverDword) /\ Len(OpCommand(n)) = n
         /\ \A i \in 1 .. n : OpCommand(n)[i] =
              [op |-> op, kind |-> want.kind, type |-> want.type, off |-> i, len |-> n]
<1>1. op \in 0 .. MaxOps /\ n \in Nat \ {0}  BY DriverAssumption DEF TypeOK
<1>2. want.kind \in Kind /\ want.type \in CmdType \cup {SentinelType}
  BY DEF TypeOK, Kind
<1>3. \A k \in Kind, t \in CmdType \cup {SentinelType} :
        /\ Cmd(op, k, t, n) \in Seq(DriverDword) /\ Len(Cmd(op, k, t, n)) = n
        /\ \A i \in 1 .. n : Cmd(op, k, t, n)[i] =
             [op |-> op, kind |-> k, type |-> t, off |-> i, len |-> n]
  BY <1>1, CmdIsDwords
<1>4. QED  BY <1>2, <1>3 DEF OpCommand

\* The copies change nothing the driver's part speaks of.
LEMMA CopyInv ==
  ASSUME DriverInv, DriverWrite, Ring!CopyFirst \/ Ring!CopyRest
  PROVE  DriverPart'
<1> USE DEF DriverInv
<1>1. /\ pc \in {"copy", "wrap"} /\ pc' \in {"wrap", "tail"}
      /\ UNCHANGED <<head, todo, stream, taken, acked, op, want, dpc, dispatched, replyStream,
                     fatal, executed, reply, accepted>>
  BY DEF DriverWrite, Ring!CopyFirst, Ring!CopyRest, Ring!history, driverVars, rendererVars
<1>2. TypeOK' /\ Executing' /\ Window'
  BY <1>1 DEF TypeOK, Executing, Window, AllDispatched, Sentinel
<1>3. DriverPhases' /\ Dispatching'
  BY <1>1 DEF DriverPhases, Dispatching, AllDispatched
<1>4. BatchSent'
  BY <1>1 DEF BatchSent, OpCommand, Lead, Sent
<1>5. QED  BY <1>2, <1>3, <1>4 DEF DriverPart

\* A command of the batch reaches the stream.
LEMMA StoreTailInv ==
  ASSUME DriverInv, DriverWrite, Ring!StoreTail, Ring!RingInv'
  PROVE  DriverPart'
<1> USE DEF DriverInv
<1>1. /\ pc = "tail" /\ pc' = IF todo' = << >> THEN "wait" ELSE "copy"
      /\ todo' = Tail(todo) /\ stream' = stream \o todo[1]
      /\ UNCHANGED <<head, taken, acked, op, want, dpc, dispatched, replyStream,
                     fatal, executed, reply, accepted>>
  BY DEF DriverWrite, Ring!StoreTail, driverVars, rendererVars
<1>2. /\ todo # << >> /\ Len(stream) \in Nat /\ Len(taken) <= Len(stream)
      /\ stream \in Seq(DriverDword) /\ acked \in Nat /\ Len(taken) \in Nat
  BY <1>1, RingFacts
<1>3. op \in 0 .. MaxOps  BY DEF TypeOK
<1>4. PICK n \in CmdLens :
        \/ /\ todo = IF want.kind = "reply" THEN <<SetReply(op), OpCommand(n)>> ELSE <<OpCommand(n)>>
           /\ Len(stream) = acked
        \/ /\ want.kind = "reply" /\ todo = <<OpCommand(n)>>
           /\ Len(stream) = acked + SetReplyLen /\ Sent(acked, SetReply(op))
  BY <1>1, <1>2 DEF BatchSent
<1>5. n \in Nat \ {0} /\ SetReplyLen \in Nat \ {0}  BY DriverAssumption
<1>6. OpCommand(n) \in Seq(DriverDword) /\ Len(OpCommand(n)) = n
  BY OpCommandIsDwords
<1>7. SetReply(op) \in Seq(DriverDword) /\ Len(SetReply(op)) = SetReplyLen
  BY <1>3, SetReplyIsDwords
<1>8. \A c \in Seq(DriverDword) :
        /\ Len(stream \o c) = Len(stream) + Len(c)
        /\ \A i \in 1 .. Len(stream) : (stream \o c)[i] = stream[i]
        /\ \A i \in 1 .. Len(c) : (stream \o c)[Len(stream) + i] = c[i]
  BY <1>2, ConcatProperties
<1>9. UNCHANGED <<OpCommand(n), SetReply(op), Lead>>  BY <1>1 DEF OpCommand, Lead
<1>10. BatchSent' /\ Len(stream') > Len(stream)
  <2>1. CASE want.kind = "reply" /\ todo = <<SetReply(op), OpCommand(n)>> /\ Len(stream) = acked
    <3>1. todo[1] = SetReply(op) /\ Tail(todo) = <<OpCommand(n)>>  BY <2>1
    <3>2. stream' = stream \o SetReply(op) /\ todo' = <<OpCommand(n)'>>
      BY <1>1, <1>9, <3>1
    <3>3. Len(stream') = acked + SetReplyLen
      BY <3>2, <1>7, <1>8, <2>1
    <3>4. \A i \in 1 .. SetReplyLen : stream'[acked + i] = SetReply(op)[i]
      BY <3>2, <1>7, <1>8, <2>1
    <3>5. Sent(acked, SetReply(op))'
      BY <3>4, <1>1, <1>7 DEF Sent
    <3>6. QED  BY <1>1, <1>2, <1>5, <2>1, <3>2, <3>3, <3>5 DEF BatchSent
  <2>2. CASE want.kind = "reply" /\ todo = <<OpCommand(n)>>
             /\ Len(stream) = acked + SetReplyLen /\ Sent(acked, SetReply(op))
    <3>1. todo[1] = OpCommand(n) /\ Tail(todo) = << >>  BY <2>2
    <3>2. stream' = stream \o OpCommand(n) /\ todo' = << >>
      BY <1>1, <3>1
    <3>3. Len(stream') = acked + Lead' + n /\ Lead' = SetReplyLen /\ want'.kind = "reply"
      BY <3>2, <1>1, <1>2, <1>5, <1>6, <1>8, <2>2 DEF Lead
    <3>4. \A i \in 1 .. n : stream'[acked + SetReplyLen + i] = OpCommand(n)[i]
      BY <3>2, <1>6, <1>8, <2>2
    <3>5. Sent(acked + Lead, OpCommand(n))'
      BY <3>3, <3>4, <1>1, <1>6, <1>9 DEF Sent
    <3>6. \A i \in 1 .. SetReplyLen : stream'[acked + i] = SetReply(op)[i]
      <4>1. SUFFICES ASSUME NEW i \in 1 .. SetReplyLen PROVE stream'[acked + i] = SetReply(op)[i]
        OBVIOUS
      <4>2. acked + i \in 1 .. Len(stream)  BY <1>2, <1>5, <2>2
      <4>3. stream[acked + i] = SetReply(op)[i]  BY <2>2, <1>7 DEF Sent
      <4>4. QED  BY <4>2, <4>3, <3>2, <1>6, <1>8
    <3>7. Sent(acked, SetReply(op))'  BY <3>6, <1>1, <1>7, <1>9 DEF Sent
    <3>8. QED  BY <1>1, <1>2, <1>5, <2>2, <3>2, <3>3, <3>5, <3>7 DEF BatchSent
  <2>3. CASE want.kind # "reply" /\ todo = <<OpCommand(n)>> /\ Len(stream) = acked
    <3>1. todo[1] = OpCommand(n) /\ Tail(todo) = << >>  BY <2>3
    <3>2. stream' = stream \o OpCommand(n) /\ todo' = << >>
      BY <1>1, <3>1
    <3>3. Len(stream') = acked + Lead' + n /\ Lead' = 0 /\ want'.kind # "reply"
      BY <3>2, <1>1, <1>2, <1>5, <1>6, <1>8, <2>3 DEF Lead
    <3>4. \A i \in 1 .. n : stream'[acked + 0 + i] = OpCommand(n)[i]
      BY <3>2, <1>6, <1>8, <1>2, <2>3
    <3>5. Sent(acked + Lead, OpCommand(n))'
      BY <3>3, <3>4, <1>1, <1>6, <1>9 DEF Sent
    <3>6. QED  BY <1>1, <1>2, <1>5, <2>3, <3>2, <3>3, <3>5 DEF BatchSent
  <2>4. QED  BY <1>4, <2>1, <2>2, <2>3
<1>11. ~AllDispatched /\ ~AllDispatched'
  BY <1>1, <1>2, <1>10 DEF AllDispatched, Dispatching, TypeOK
<1>12. TypeOK' /\ DriverPhases'
  BY <1>1 DEF TypeOK, DriverPhases
<1>13. Executing' /\ Window'
  BY <1>1, <1>11 DEF Executing, Window, Sentinel
<1>14. Dispatching'
  BY <1>1, <1>2, <1>11 DEF Dispatching
<1>15. QED  BY <1>10, <1>12, <1>13, <1>14 DEF DriverPart

\* WaitHead reports the seqno: the renderer has dispatched the whole stream.
LEMMA DriverReachedInv ==
  ASSUME DriverInv, DriverReached, Ring!RingInv'
  PROVE  DriverPart'
<1> USE DEF DriverInv
<1>1. /\ pc = "wait" /\ head >= cur /\ acked' = cur /\ pc' = "ready"
      /\ dpc' = IF want.kind = "reply" THEN "check" ELSE "idle"
      /\ UNCHANGED <<head, todo, stream, taken, op, want, dispatched, replyStream,
                     fatal, executed, reply, accepted>>
  BY DEF DriverReached, Ring!WaitReached, Ring!ringMem, rendererVars
<1>2. /\ todo = << >> /\ cur = Len(stream) /\ head <= Len(taken) /\ Len(taken) <= Len(stream)
      /\ head \in Nat /\ Len(taken) \in Nat /\ Len(stream) \in Nat
  BY <1>1, RingFacts
<1>3. AllDispatched /\ AllDispatched'
  BY <1>1, <1>2 DEF AllDispatched, Dispatching, TypeOK
<1>4. TypeOK' /\ DriverPhases'  BY <1>1 DEF TypeOK, DriverPhases
<1>5. BatchSent' /\ Dispatching'
  BY <1>1, <1>3 DEF BatchSent, Dispatching, AllDispatched
<1>6. Executing' /\ Window'
  <2>1. dpc # "idle"  BY <1>1 DEF DriverPhases
  <2>2. QED  BY <2>1, <1>1, <1>3 DEF Executing, Window, Sentinel
<1>7. QED  BY <1>4, <1>5, <1>6 DEF DriverPart

\* WaitHead gives up: the batch stays where it is.
LEMMA DriverTimeoutInv ==
  ASSUME DriverInv, DriverTimeout
  PROVE  DriverPart'
<1> USE DEF DriverInv
<1>1. /\ pc = "wait" /\ pc' = "failed" /\ dpc' = "error"
      /\ UNCHANGED <<head, todo, stream, taken, acked, op, want, dispatched, replyStream,
                     fatal, executed, reply, accepted>>
  BY DEF DriverTimeout, Ring!WaitTimeout, Ring!ringMem, Ring!history, rendererVars
<1>2. dpc = "busy"  BY <1>1 DEF DriverPhases
<1>3. TypeOK' /\ DriverPhases'  BY <1>1 DEF TypeOK, DriverPhases
<1>4. BatchSent'  BY <1>1 DEF BatchSent, OpCommand, Lead, Sent
<1>5. Dispatching'  BY <1>1 DEF Dispatching, AllDispatched
<1>6. Executing' /\ Window'
  BY <1>1, <1>2 DEF Executing, Window, AllDispatched, Sentinel
<1>7. QED  BY <1>3, <1>4, <1>5, <1>6 DEF DriverPart

\* The echo is the type of the command exactly when this command was executed.
LEMMA CheckEchoInv ==
  ASSUME DriverInv, CheckEcho
  PROVE  DriverPart'
<1> USE DEF DriverInv
<1>1. /\ dpc = "check" /\ dpc' \in {"idle", "error"}
      /\ UNCHANGED <<pc, head, todo, stream, taken, acked, op, want, dispatched, replyStream,
                     fatal, executed, reply>>
  BY DEF CheckEcho, ringState, rendererVars
<1>2. want.kind = "reply" /\ want.type \in CmdType /\ want.type # SentinelType /\ pc = "ready"
  BY <1>1, RingFacts, DriverAssumption DEF DriverPhases
<1>3. reply = IF ~fatal /\ AllDispatched THEN [type |-> want.type, by |-> op] ELSE Sentinel
  BY <1>1, <1>2 DEF Window
<1>4. AllDispatched /\ op \in 1 .. MaxOps
  BY <1>1, <1>2, RingFacts DEF AllDispatched, Dispatching, TypeOK, DriverPhases
<1>5. UNCHANGED AllDispatched  BY <1>1 DEF AllDispatched
<1>6. \/ accepted' = accepted
      \/ accepted' = accepted \cup {[op |-> op, by |-> op]} /\ ~fatal /\ Len(executed) = op
  <2>1. CASE reply.type = want.type
    <3>1. ~fatal  BY <2>1, <1>2, <1>3 DEF Sentinel
    <3>2. reply.by = op /\ Len(executed) = op  BY <3>1, <1>3, <1>4 DEF Executing
    <3>3. QED  BY <2>1, <3>1, <3>2 DEF CheckEcho
  <2>2. CASE reply.type # want.type  BY <2>2 DEF CheckEcho
  <2>3. QED  BY <2>1, <2>2
<1>7. TypeOK'
  BY <1>1, <1>4, <1>6 DEF TypeOK
<1>8. dpc' = "error" => fatal
  BY <1>3, <1>4 DEF CheckEcho
<1>12. DriverPhases' /\ BatchSent' /\ Dispatching'
  BY <1>1, <1>2, <1>5, <1>8 DEF DriverPhases, BatchSent, Dispatching
<1>9. Executing'
  BY <1>1, <1>4, <1>5, <1>6 DEF Executing
<1>10. Window'
  BY <1>1, <1>5 DEF Window, Sentinel
<1>11. QED  BY <1>7, <1>9, <1>10, <1>12 DEF DriverPart

-----------------------------------------------------------------------------
(* The renderer.                                                           *)

\* Reading a dword moves nothing but the end of what may be dispatched.
LEMMA HostFetchInv ==
  ASSUME DriverInv, HostFetch
  PROVE  DriverPart'
<1> USE DEF DriverInv
<1>1. UNCHANGED <<head, pc, todo, stream, acked, op, want, dpc, dispatched, replyStream,
                  fatal, executed, reply, accepted>>
  BY DEF HostFetch, Ring!HostTake, Ring!ringMem, Ring!clientVars, driverVars, rendererVars
<1>2. Len(taken') = Len(taken) + 1 /\ Len(taken) \in Nat
  <2>1. taken' = Append(taken, mem[hcur % BufSize])  BY DEF HostFetch, Ring!HostTake
  <2>2. taken \in Seq(DriverDword)  BY RingFacts
  <2>3. QED  BY <2>1, <2>2
<1>3. TypeOK' /\ DriverPhases'  BY <1>1 DEF TypeOK, DriverPhases
<1>4. BatchSent'  BY <1>1 DEF BatchSent, OpCommand, Lead, Sent
<1>5. Dispatching'
  BY <1>1, <1>2 DEF Dispatching, AllDispatched, TypeOK
<1>6. Executing' /\ Window'
  BY <1>1 DEF Executing, Window, AllDispatched, Sentinel
<1>7. QED  BY <1>3, <1>4, <1>5, <1>6 DEF DriverPart

\* What the renderer dispatches is the next command of the current batch.
LEMMA NextCommand ==
  ASSUME DriverInv, Dispatchable
  PROVE  /\ pc # "ready" /\ ~AllDispatched /\ Current.op = op
         /\ \/ /\ want.kind = "reply" /\ dispatched = acked
               /\ Current.kind = "set" /\ Current.len = SetReplyLen
            \/ /\ want.kind = "reply" /\ dispatched = acked + SetReplyLen
               /\ Current.kind = "reply" /\ Current.type = want.type
               /\ todo = << >> /\ dispatched + Current.len = Len(stream)
            \/ /\ want.kind = "void" /\ dispatched = acked
               /\ Current.kind = "void"
               /\ todo = << >> /\ dispatched + Current.len = Len(stream)
<1> USE DEF DriverInv
<1>1. /\ acked \in Nat /\ Len(stream) \in Nat /\ Len(taken) \in Nat /\ Len(taken) <= Len(stream)
      /\ \A i \in 1 .. Len(taken) : taken[i] = stream[i]
      /\ dispatched \in Nat /\ dispatched < Len(taken)
  BY RingFacts DEF Dispatchable, TypeOK
<1>2. Current = stream[dispatched + 1]  BY <1>1 DEF Current
<1>3. pc # "ready" /\ ~AllDispatched  BY <1>1 DEF Dispatching, AllDispatched
<1>4. want.kind \in {"reply", "void"} /\ op \in 0 .. MaxOps  BY DEF TypeOK
<1>5. dispatched = acked \/ (want.kind = "reply" /\ dispatched = acked + SetReplyLen)
  BY <1>3 DEF Dispatching
<1>6. PICK n \in CmdLens :
        \/ Len(stream) = acked
        \/ /\ want.kind = "reply"
           /\ Len(stream) = acked + SetReplyLen /\ Sent(acked, SetReply(op))
        \/ /\ todo = << >>
           /\ Len(stream) = acked + Lead + n /\ Sent(acked + Lead, OpCommand(n))
           /\ want.kind = "reply" => Sent(acked, SetReply(op))
  BY <1>3 DEF BatchSent
<1>7. n \in Nat \ {0} /\ SetReplyLen \in Nat \ {0}  BY DriverAssumption
<1>8. CASE want.kind = "reply" /\ dispatched = acked
  <2>1. Sent(acked, SetReply(op))  BY <1>1, <1>6, <1>8
  <2>2. stream[acked + 1] = SetReply(op)[1]
    BY <2>1, <1>4, <1>7, SetReplyIsDwords DEF Sent
  <2>3. SetReply(op)[1] =
          [op |-> op, kind |-> "set", type |-> SentinelType, off |-> 1, len |-> SetReplyLen]
    BY <1>4, <1>7, SetReplyIsDwords
  <2>4. QED  BY <1>2, <1>3, <1>8, <2>2, <2>3
<1>9. CASE dispatched = acked + Lead /\ ~(want.kind = "reply" /\ dispatched = acked)
  <2>1. Lead \in Nat /\ (want.kind = "reply" => Lead = SetReplyLen) /\ (want.kind = "void" => Lead = 0)
    BY <1>4, <1>7 DEF Lead
  <2>2. /\ todo = << >> /\ Len(stream) = acked + Lead + n
        /\ Sent(acked + Lead, OpCommand(n))
    BY <1>1, <1>4, <1>6, <1>9, <2>1
  <2>3. Len(OpCommand(n)) = n /\ OpCommand(n)[1] =
          [op |-> op, kind |-> want.kind, type |-> want.type, off |-> 1, len |-> n]
    BY <1>7, OpCommandIsDwords
  <2>4. stream[acked + Lead + 1] = OpCommand(n)[1]
    BY <2>2, <2>3, <1>7 DEF Sent
  <2>5. Current = [op |-> op, kind |-> want.kind, type |-> want.type, off |-> 1, len |-> n]
    BY <1>2, <1>9, <2>3, <2>4
  <2>6. QED  BY <1>1, <1>3, <1>4, <1>9, <2>1, <2>2, <2>5
<1>10. \/ want.kind = "reply" /\ dispatched = acked
       \/ dispatched = acked + Lead /\ ~(want.kind = "reply" /\ dispatched = acked)
  BY <1>1, <1>4, <1>5, <1>7 DEF Lead
<1>11. QED  BY <1>8, <1>9, <1>10

\* One dispatch: the renderer moves past the command, nothing else moves.
LEMMA DispatchFrame ==
  ASSUME DriverInv, Dispatch
  PROVE  /\ dispatched' = dispatched + Current.len
         /\ head <= dispatched' /\ dispatched' <= Len(taken)
         /\ dispatched' \in Nat
         /\ UNCHANGED <<head, pc, todo, stream, taken, acked, op, want, dpc, accepted>>
         /\ BatchSent'
<1> USE DEF DriverInv
<1>1. /\ Dispatchable /\ dispatched' = dispatched + Current.len
      /\ UNCHANGED <<head, pc, todo, stream, taken, acked, op, want, dpc, accepted>>
  BY DEF Dispatch, ringState, driverVars
<1>2. BatchSent'  BY <1>1 DEF BatchSent, OpCommand, Lead, Sent
<1>3. taken \in Seq(DriverDword) /\ Len(taken) \in Nat /\ dispatched \in Nat /\ head \in Nat
  BY RingFacts DEF TypeOK
<1>4. Current \in DriverDword
  BY <1>1, <1>3 DEF Current, Dispatchable
<1>5. Current.len \in Nat  BY <1>4 DEF DriverDword
<1>6. QED  BY <1>1, <1>2, <1>3, <1>5 DEF Dispatchable, Dispatching

\* The set-reply command leaves the reply stream at the window's start.
LEMMA ExecSetReplyInv ==
  ASSUME DriverInv, ExecSetReply
  PROVE  DriverPart'
<1> USE DEF DriverInv
<1>1. /\ ~fatal /\ Dispatch /\ Current.kind = "set" /\ replyStream' = "start"
      /\ UNCHANGED <<fatal, executed, reply>>
  BY DEF ExecSetReply
<1>2. /\ dispatched' = dispatched + Current.len
      /\ head <= dispatched' /\ dispatched' <= Len(taken) /\ dispatched' \in Nat
      /\ UNCHANGED <<head, pc, todo, stream, taken, acked, op, want, dpc, accepted>>
      /\ BatchSent'
  BY <1>1, DispatchFrame
<1>3. /\ pc # "ready" /\ ~AllDispatched /\ want.kind = "reply" /\ dispatched = acked
      /\ dispatched' = acked + SetReplyLen
  BY <1>1, <1>2, NextCommand DEF Dispatch
<1>4. TypeOK' /\ DriverPhases'
  BY <1>1, <1>2 DEF TypeOK, DriverPhases
<1>5. ~AllDispatched'
  <2>1. SUFFICES ASSUME todo = << >> PROVE Len(stream) # acked + SetReplyLen
    BY <1>2, <1>3 DEF AllDispatched
  <2>2. PICK n \in CmdLens :
          \/ todo = <<SetReply(op), OpCommand(n)>>
          \/ todo = <<OpCommand(n)>>
          \/ Len(stream) = acked + SetReplyLen + n
    BY <1>3 DEF BatchSent, Lead
  <2>3. Len(stream) = acked + SetReplyLen + n  BY <2>1, <2>2
  <2>4. n \in Nat \ {0} /\ SetReplyLen \in Nat /\ acked \in Nat
    BY DriverAssumption, RingFacts
  <2>5. QED  BY <2>3, <2>4
<1>6. Dispatching'  BY <1>1, <1>2, <1>3 DEF Dispatching
<1>7. Executing' /\ Window'
  BY <1>1, <1>2, <1>3, <1>5 DEF Executing, Window, Sentinel
<1>8. QED  BY <1>2, <1>4, <1>6, <1>7 DEF DriverPart

\* The reply of the current operation replaces the sentinel.
LEMMA ExecReplyInv ==
  ASSUME DriverInv, ExecReply
  PROVE  DriverPart'
<1> USE DEF DriverInv
<1>1. /\ ~fatal /\ Dispatch /\ Current.kind = "reply" /\ UNCHANGED fatal
      /\ executed' = Append(executed, Current.op)
      /\ IF replyStream = "start"
         THEN reply' = [type |-> Current.type, by |-> Current.op] /\ replyStream' = "past"
         ELSE UNCHANGED <<reply, replyStream>>
  BY DEF ExecReply
<1>2. /\ dispatched' = dispatched + Current.len
      /\ head <= dispatched' /\ dispatched' <= Len(taken) /\ dispatched' \in Nat
      /\ UNCHANGED <<head, pc, todo, stream, taken, acked, op, want, dpc, accepted>>
      /\ BatchSent'
  BY <1>1, DispatchFrame
<1>3. /\ pc # "ready" /\ ~AllDispatched /\ want.kind = "reply"
      /\ dispatched = acked + SetReplyLen /\ todo = << >> /\ dispatched' = Len(stream)
      /\ Current.op = op /\ Current.type = want.type
  BY <1>1, <1>2, NextCommand DEF Dispatch
<1>4. reply' = [type |-> want.type, by |-> op] /\ replyStream' = "past"
  BY <1>1, <1>3 DEF Dispatching
<1>5. AllDispatched'  BY <1>2, <1>3 DEF AllDispatched
<1>6. op \in 1 .. MaxOps /\ Len(executed) + 1 = op /\ executed \in Seq(1 .. MaxOps)
  <2>1. op \in 0 .. MaxOps /\ executed \in Seq(1 .. MaxOps) /\ Len(executed) \in Nat
    BY DEF TypeOK
  <2>2. QED  BY <2>1, <1>1, <1>3, DriverAssumption DEF Executing
<1>7. /\ executed' \in Seq(1 .. MaxOps) /\ Len(executed') = op
      /\ \A i \in 1 .. op : executed'[i] = i
  BY <1>1, <1>3, <1>6 DEF Executing
<1>8. TypeOK' /\ DriverPhases'
  BY <1>1, <1>2, <1>4, <1>6, <1>7 DEF TypeOK, DriverPhases
<1>9. Dispatching'
  <2>1. SetReplyLen \in Nat \ {0} /\ acked \in Nat /\ dispatched < Len(taken) /\ Len(taken) \in Nat
    /\ Len(taken) <= Len(stream) /\ Len(stream) \in Nat
    BY <1>1, DriverAssumption, RingFacts DEF Dispatch, Dispatchable
  <2>2. dispatched' # acked + SetReplyLen  BY <1>3, <2>1
  <2>3. QED  BY <1>1, <1>2, <1>3, <1>5, <2>2 DEF Dispatching
<1>10. Executing'
  <2>1. \A a \in accepted' : a.by = a.op /\ a.op <= Len(executed')
    BY <1>2, <1>6, <1>7 DEF Executing, TypeOK
  <2>2. QED  BY <1>2, <1>5, <1>6, <1>7, <2>1 DEF Executing
<1>11. Window'  BY <1>1, <1>2, <1>4, <1>5 DEF Window
<1>12. QED  BY <1>2, <1>8, <1>9, <1>10, <1>11 DEF DriverPart

\* A void command is executed and the window is left alone.
LEMMA ExecVoidInv ==
  ASSUME DriverInv, ExecVoid
  PROVE  DriverPart'
<1> USE DEF DriverInv
<1>1. /\ ~fatal /\ Dispatch /\ Current.kind = "void" /\ UNCHANGED <<replyStream, fatal, reply>>
      /\ executed' = Append(executed, Current.op)
  BY DEF ExecVoid
<1>2. /\ dispatched' = dispatched + Current.len
      /\ head <= dispatched' /\ dispatched' <= Len(taken) /\ dispatched' \in Nat
      /\ UNCHANGED <<head, pc, todo, stream, taken, acked, op, want, dpc, accepted>>
      /\ BatchSent'
  BY <1>1, DispatchFrame
<1>3. /\ pc # "ready" /\ ~AllDispatched /\ want.kind = "void"
      /\ todo = << >> /\ dispatched' = Len(stream) /\ Current.op = op
  BY <1>1, <1>2, NextCommand DEF Dispatch
<1>5. AllDispatched'  BY <1>2, <1>3 DEF AllDispatched
<1>6. op \in 1 .. MaxOps /\ Len(executed) + 1 = op /\ executed \in Seq(1 .. MaxOps)
  <2>1. op \in 0 .. MaxOps /\ executed \in Seq(1 .. MaxOps) /\ Len(executed) \in Nat
    BY DEF TypeOK
  <2>2. QED  BY <2>1, <1>1, <1>3, DriverAssumption DEF Executing
<1>7. /\ executed' \in Seq(1 .. MaxOps) /\ Len(executed') = op
      /\ \A i \in 1 .. op : executed'[i] = i
  BY <1>1, <1>3, <1>6 DEF Executing
<1>8. TypeOK' /\ DriverPhases'
  BY <1>1, <1>2, <1>6, <1>7 DEF TypeOK, DriverPhases
<1>9. Dispatching'  BY <1>1, <1>2, <1>3, <1>5 DEF Dispatching
<1>10. Executing'
  <2>1. \A a \in accepted' : a.by = a.op /\ a.op <= Len(executed')
    BY <1>2, <1>6, <1>7 DEF Executing, TypeOK
  <2>2. QED  BY <1>2, <1>5, <1>6, <1>7, <2>1 DEF Executing
<1>11. Window'  BY <1>2, <1>3 DEF Window
<1>12. QED  BY <1>2, <1>8, <1>9, <1>10, <1>11 DEF DriverPart

\* A command of a fatal context is passed over: nothing is written any more.
LEMMA RejectOrSkipInv ==
  ASSUME DriverInv, Reject \/ Skip
  PROVE  DriverPart'
<1> USE DEF DriverInv
<1>1. /\ Dispatch /\ fatal' = TRUE /\ UNCHANGED <<replyStream, executed, reply>>
  BY DEF Reject, Skip, TypeOK
<1>2. /\ dispatched' = dispatched + Current.len
      /\ head <= dispatched' /\ dispatched' <= Len(taken) /\ dispatched' \in Nat
      /\ UNCHANGED <<head, pc, todo, stream, taken, acked, op, want, dpc, accepted>>
      /\ BatchSent'
  BY <1>1, DispatchFrame
<1>3. /\ pc # "ready" /\ ~AllDispatched
      /\ \/ want.kind = "reply" /\ dispatched' = acked + SetReplyLen
         \/ todo = << >> /\ dispatched' = Len(stream)
  BY <1>1, <1>2, NextCommand DEF Dispatch
<1>4. TypeOK' /\ DriverPhases'
  BY <1>1, <1>2 DEF TypeOK, DriverPhases
<1>5. Dispatching'
  BY <1>1, <1>2, <1>3 DEF Dispatching, AllDispatched
<1>6. Executing' /\ Window'
  BY <1>1, <1>2, <1>3 DEF Executing, Window, Sentinel
<1>7. QED  BY <1>2, <1>4, <1>5, <1>6 DEF DriverPart

\* The published head is what has been dispatched.
LEMMA HostPublishInv ==
  ASSUME DriverInv, HostPublish
  PROVE  DriverPart'
<1> USE DEF DriverInv
<1>1. /\ dispatched = Len(taken) /\ head' = hcur
      /\ UNCHANGED <<pc, todo, stream, taken, acked, op, want, dpc, dispatched, replyStream,
                     fatal, executed, reply, accepted>>
  BY DEF HostPublish, Ring!HostStoreHead, Ring!clientVars, Ring!history, driverVars, rendererVars
<1>2. hcur = Len(taken) /\ Len(taken) \in Nat  BY RingFacts
<1>3. TypeOK' /\ DriverPhases'  BY <1>1 DEF TypeOK, DriverPhases
<1>4. BatchSent'  BY <1>1 DEF BatchSent, OpCommand, Lead, Sent
<1>5. Dispatching'  BY <1>1, <1>2 DEF Dispatching, AllDispatched
<1>6. Executing' /\ Window'
  BY <1>1 DEF Executing, Window, AllDispatched, Sentinel
<1>7. QED  BY <1>3, <1>4, <1>5, <1>6 DEF DriverPart

\* A consumer that idles or stops, and a step that leaves the driver alone.
LEMMA QuietInv ==
  ASSUME DriverInv, HostStall \/ UNCHANGED vars
  PROVE  DriverPart'
<1> USE DEF DriverInv
<1>1. UNCHANGED <<head, pc, todo, stream, taken, acked, op, want, dpc, dispatched, replyStream,
                  fatal, executed, reply, accepted>>
  BY DEF HostStall, Ring!HostIdle, Ring!HostStop, Ring!ringMem, Ring!clientVars, Ring!history,
     driverVars, rendererVars, vars, ringState
<1>3. TypeOK' /\ DriverPhases'  BY <1>1 DEF TypeOK, DriverPhases
<1>4. BatchSent'  BY <1>1 DEF BatchSent, OpCommand, Lead, Sent
<1>5. Dispatching'  BY <1>1 DEF Dispatching, AllDispatched
<1>6. Executing' /\ Window'
  BY <1>1 DEF Executing, Window, AllDispatched, Sentinel
<1>7. QED  BY <1>3, <1>4, <1>5, <1>6 DEF DriverPart

-----------------------------------------------------------------------------
(* The theorems.                                                           *)

\* Before the first command everything is empty and the driver idle.
LEMMA InitInv == Init => DriverInv
<1> SUFFICES ASSUME Init PROVE DriverInv  OBVIOUS
<1>1. Ring!RingInv
  BY SameInit, SameInv, RingAssumptionHolds, RingProofs!RingInitInv DEF Init
<1>2. /\ head = 0 /\ todo = << >> /\ stream = << >> /\ taken = << >> /\ acked = 0 /\ pc = "ready"
  BY DEF Init, Ring!RingInit
<1>3. TypeOK
  <2>1. want \in [kind : {"reply", "void"}, type : CmdType \cup {SentinelType}]  BY DEF Init
  <2>2. reply \in [type : CmdType \cup {SentinelType}, by : 0 .. MaxOps]
    BY DriverAssumption DEF Init
  <2>3. executed \in Seq(1 .. MaxOps) /\ dispatched \in Nat /\ op \in 0 .. MaxOps
    BY DriverAssumption DEF Init
  <2>4. QED  BY <2>1, <2>2, <2>3 DEF Init, TypeOK
<1>4. DriverPhases /\ BatchSent  BY <1>2 DEF Init, DriverPhases, BatchSent
<1>5. Dispatching  BY <1>2 DEF Init, Dispatching
<1>6. Executing  BY <1>2 DEF Init, Executing, AllDispatched
<1>7. Window  BY DEF Init, Window
<1>8. QED  BY <1>1, <1>3, <1>4, <1>5, <1>6, <1>7 DEF DriverInv

\* Every step preserves the invariant.
LEMMA StepInv == DriverInv /\ [Next]_vars => DriverInv'
<1> SUFFICES ASSUME DriverInv, [Next]_vars PROVE DriverInv'  OBVIOUS
<1>1. Ring!RingInv'
  BY StepIsRingStep, RingInvStep DEF DriverInv
<1>2. DriverPart'
  <2>1. ASSUME NEW n \in CmdLens, SubmitNoReply(n) PROVE DriverPart'
    BY <2>1, <1>1, SubmitNoReplyInv
  <2>2. ASSUME NEW n \in CmdLens, NEW t \in CmdType, SubmitWithReply(t, n) PROVE DriverPart'
    BY <2>2, <1>1, SubmitWithReplyInv
  <2>3. CASE DriverWrite
    BY <2>3, <1>1, CopyInv, StoreTailInv DEF DriverWrite
  <2>4. CASE DriverReached  BY <2>4, <1>1, DriverReachedInv
  <2>5. CASE DriverTimeout  BY <2>5, DriverTimeoutInv
  <2>6. CASE CheckEcho  BY <2>6, CheckEchoInv
  <2>7. CASE HostFetch  BY <2>7, HostFetchInv
  <2>8. CASE HostDispatch
    BY <2>8, ExecSetReplyInv, ExecReplyInv, ExecVoidInv, RejectOrSkipInv DEF HostDispatch
  <2>9. CASE HostPublish  BY <2>9, HostPublishInv
  <2>10. CASE HostStall \/ UNCHANGED vars  BY <2>10, QuietInv
  <2>11. QED
    BY <2>1, <2>2, <2>3, <2>4, <2>5, <2>6, <2>7, <2>8, <2>9, <2>10 DEF Next
<1>3. QED  BY <1>1, <1>2 DEF DriverInv, DriverPart

\* The driver, the ring and the renderer fit together at every step of
\* submitWithReply and submitNoReply (venusclear_linux.go:177-224).
THEOREM DriverInvariant == Spec => []DriverInv
  BY InitInv, StepInv, PTL DEF Spec

\* A reply submitWithReply returns was written for the very command it was
\* called for (venusclear_linux.go:178-206), whatever the renderer rejects.
THEOREM DriverFreshReply == Spec => []FreshReply
<1>1. DriverInv => FreshReply  BY DEF DriverInv, Executing, FreshReply
<1>2. QED  BY <1>1, DriverInvariant, PTL

\* A believed reply means that every operation up to it was executed once and
\* in order, the void ones included (venusclear_linux.go:213).
THEOREM DriverAcceptedMeansExecuted == Spec => []AcceptedMeansExecuted
<1>1. DriverInv => AcceptedMeansExecuted
  <2> SUFFICES ASSUME DriverInv, NEW a \in accepted, NEW i \in 1 .. a.op
               PROVE  i <= Len(executed) /\ executed[i] = i
    BY DEF AcceptedMeansExecuted
  <2>1. a.op \in Nat /\ a.op <= Len(executed) /\ Len(executed) \in Nat
    BY DEF DriverInv, TypeOK, Executing
  <2>2. QED  BY <2>1 DEF DriverInv, Executing
<1>2. QED  BY <1>1, DriverInvariant, PTL

\* submitWithReply and submitNoReply fail only after a timeout or a rejected
\* command (venusclear_linux.go:195-206).
THEOREM DriverRefusalHasCause == Spec => []RefusalHasCause
<1>1. DriverInv => RefusalHasCause  BY DEF DriverInv, DriverPhases, RefusalHasCause
<1>2. QED  BY <1>1, DriverInvariant, PTL

\* While the driver reads or refills the window, no dispatched command can
\* still write into it (venusclear_linux.go:178-206).
THEOREM DriverWindowQuiet == Spec => []WindowQuiet
<1>1. DriverInv => WindowQuiet
  <2> SUFFICES ASSUME DriverInv, dpc \in {"idle", "check"} PROVE dispatched = Len(stream)
    BY DEF WindowQuiet
  <2>1. pc = "ready"  BY RingFacts DEF DriverInv, DriverPhases
  <2>2. QED  BY <2>1 DEF DriverInv, Dispatching
<1>2. QED  BY <1>1, DriverInvariant, PTL
=============================================================================
