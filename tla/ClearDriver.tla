---------------------------- MODULE ClearDriver -----------------------------
(***************************************************************************)
(* clearDriver of vtest/venusclear_linux.go: submitWithReply and           *)
(* submitNoReply over the command ring, with the reply blob the host       *)
(* writes into.                                                            *)
(*                                                                         *)
(* One operation is a command sent by the walk.  A reply-bearing one first *)
(* fills the reply window with a sentinel, submits vkSetReplyCommandStream *)
(* and the command, waits for the host's head, and only then believes the  *)
(* window if its first dword echoes the command type.  The echo does not   *)
(* say WHICH command of that type answered (vkEnumeratePhysicalDevices is  *)
(* sent twice in a row), and a head that moved does not say the command    *)
(* was accepted: after a command-stream error the context is fatal and the *)
(* consumer may go on draining the ring without executing anything.        *)
(*                                                                         *)
(* The ring is MappedRing; its steps are conjoined with what the driver    *)
(* and the renderer do with the dwords.  The renderer is external.         *)
(***************************************************************************)
EXTENDS Naturals, Sequences

CONSTANTS
  CmdType,         \* the command types (VkCommandTypeEXT) of the walk
  SentinelType,    \* what the filled window reads as: int32 of 0xCCCCCCCC
  CmdLens,         \* lengths of commands, in dwords
  SetReplyLen,     \* length of vkSetReplyCommandStreamMESA
  MaxOps,          \* bound: operations of one walk
  BufSize, CursorMod, MaxStream, HostMayStall,   \* see MappedRing
  HostMayReject    \* may a command be a command-stream error?

VARIABLES
  mem, head, tail, status, pc, cur, todo, hcur, stream, taken, acked,
  op,              \* number of the operation begun last
  want,            \* what it is: kind and command type
  dpc,             \* the driver: idle, busy, check (head reached) or error
  reply,           \* first dword of the reply window, and (ghost) who wrote it
  dispatched,      \* how many of the taken dwords the renderer has dispatched
  replyStream,     \* the renderer's reply stream: unset, at offset 0, or past it
  fatal,           \* vkr_context_set_fatal has been called
  executed,        \* history: operations executed without error, in order
  accepted         \* history: replies the driver believed: operation and writer

\* A dword of operation o.  Only its place in the command and what the header
\* says matter; "op" is a ghost that tells equal commands apart.
Cmd(o, kind, type, n) ==
  [i \in 1 .. n |-> [op |-> o, kind |-> kind, type |-> type, off |-> i, len |-> n]]

SetReply(o) == Cmd(o, "set", SentinelType, SetReplyLen)

DriverBatch ==
  {<<SetReply(o), Cmd(o, "reply", t, n)>> : o \in 1 .. MaxOps, t \in CmdType, n \in CmdLens}
  \cup {<<Cmd(o, "void", SentinelType, n)>> : o \in 1 .. MaxOps, n \in CmdLens}

Kind == {"set", "reply", "void", "zero"}
DriverDword ==
  [op : 0 .. MaxOps, kind : Kind, type : CmdType \cup {SentinelType},
   off : Nat, len : Nat]
ZeroDword == [op |-> 0, kind |-> "zero", type |-> SentinelType, off |-> 1, len |-> 1]

Ring == INSTANCE MappedRing
          WITH Dword <- DriverDword, Zero <- ZeroDword, Batch <- DriverBatch

\* The sentinel is no command type; lengths are positive and a batch fits.
ASSUME DriverAssumption ==
  /\ SentinelType \notin CmdType
  /\ MaxOps \in Nat
  /\ SetReplyLen \in Nat \ {0}
  /\ CmdLens \subseteq Nat \ {0}
  /\ \A n \in CmdLens : SetReplyLen + n <= BufSize
  /\ BufSize \in Nat \ {0}
  /\ MaxStream \in Nat /\ CursorMod \in Nat /\ MaxStream < CursorMod
  /\ HostMayStall \in BOOLEAN /\ HostMayReject \in BOOLEAN

ringState == <<mem, head, tail, status, pc, cur, todo, hcur, stream, taken, acked>>
driverVars == <<op, want, dpc>>
rendererVars == <<dispatched, replyStream, fatal, executed>>
vars == <<ringState, driverVars, rendererVars, reply, accepted>>

Sentinel == [type |-> SentinelType, by |-> 0]

\* Before the first operation the window is whatever the fresh blob holds.
Init ==
  /\ Ring!RingInit
  /\ op = 0
  /\ want = [kind |-> "void", type |-> SentinelType]
  /\ dpc = "idle"
  /\ reply \in [type : CmdType \cup {SentinelType}, by : {0}]
  /\ dispatched = 0
  /\ replyStream = "unset"
  /\ fatal = FALSE
  /\ executed = << >>
  /\ accepted = {}

-----------------------------------------------------------------------------
(* The driver.                                                             *)

\* Mutant: no sentinel fill, the window keeps the previous reply.
SubmitWithReplyNoFill(t, n) ==
  /\ dpc = "idle"
  /\ op < MaxOps
  /\ op' = op + 1
  /\ want' = [kind |-> "reply", type |-> t]
  /\ Ring!BeginBatch(<<SetReply(op + 1), Cmd(op + 1, "reply", t, n)>>)
  /\ dpc' = "busy"
  /\ UNCHANGED <<rendererVars, reply, accepted>>

\* Mutant: the reply stream is set for the first reply only.
SubmitWithReplySetOnce(t, n) ==
  /\ dpc = "idle"
  /\ op < MaxOps
  /\ op' = op + 1
  /\ want' = [kind |-> "reply", type |-> t]
  /\ reply' = Sentinel
  /\ Ring!BeginBatch(IF replyStream = "unset"
                     THEN <<SetReply(op + 1), Cmd(op + 1, "reply", t, n)>>
                     ELSE <<Cmd(op + 1, "reply", t, n)>>)
  /\ dpc' = "busy"
  /\ UNCHANGED <<rendererVars, accepted>>

\* The head of submitWithReply: sentinel fill, then the two commands.
SubmitWithReply(t, n) ==
  /\ dpc = "idle"
  /\ op < MaxOps
  /\ op' = op + 1
  /\ want' = [kind |-> "reply", type |-> t]
  /\ reply' = Sentinel
  /\ Ring!BeginBatch(<<SetReply(op + 1), Cmd(op + 1, "reply", t, n)>>)
  /\ dpc' = "busy"
  /\ UNCHANGED <<rendererVars, accepted>>

\* The head of submitNoReply.
SubmitNoReply(n) ==
  /\ dpc = "idle"
  /\ op < MaxOps
  /\ op' = op + 1
  /\ want' = [kind |-> "void", type |-> SentinelType]
  /\ Ring!BeginBatch(<<Cmd(op + 1, "void", SentinelType, n)>>)
  /\ dpc' = "busy"
  /\ UNCHANGED <<rendererVars, reply, accepted>>

\* writeCmd's copies and tail stores.
DriverWrite ==
  /\ Ring!CopyFirst \/ Ring!CopyRest \/ Ring!StoreTail
  /\ UNCHANGED <<driverVars, rendererVars, reply, accepted>>

\* Mutant: the wait is satisfied by the set-reply command's seqno.
DriverReachedEarly ==
  /\ pc = "wait"
  /\ head > acked
  /\ acked' = cur
  /\ pc' = "ready"
  /\ dpc' = IF want.kind = "reply" THEN "check" ELSE "idle"
  /\ UNCHANGED <<mem, head, tail, status, cur, todo, hcur, stream, taken>>
  /\ UNCHANGED <<op, want, rendererVars, reply, accepted>>

\* WaitHead returns true: a void command is done, a reply is looked at next.
DriverReached ==
  /\ Ring!WaitReached
  /\ dpc' = IF want.kind = "reply" THEN "check" ELSE "idle"
  /\ UNCHANGED <<op, want, rendererVars, reply, accepted>>

\* Mutant: no deadline.
DriverTimeoutNever ==
  /\ Ring!WaitTimeout
  /\ UNCHANGED vars

\* WaitHead returns false: both functions return an error.
DriverTimeout ==
  /\ Ring!WaitTimeout
  /\ dpc' = "error"
  /\ UNCHANGED <<op, want, rendererVars, reply, accepted>>

\* Mutant: the advance of the head is taken for acceptance.
CheckEchoTrustsHead ==
  /\ dpc = "check"
  /\ dpc' = "idle"
  /\ accepted' = accepted \cup {[op |-> op, by |-> op]}
  /\ UNCHANGED <<ringState, op, want, rendererVars, reply>>

\* The echoed command type decides; the reply is copied out of the window.
CheckEcho ==
  /\ dpc = "check"
  /\ IF reply.type = want.type
     THEN /\ dpc' = "idle"
          /\ accepted' = accepted \cup {[op |-> op, by |-> reply.by]}
     ELSE /\ dpc' = "error"
          /\ UNCHANGED accepted
  /\ UNCHANGED <<ringState, op, want, rendererVars, reply>>

-----------------------------------------------------------------------------
(* The renderer (external).                                                *)

HostFetch ==
  /\ Ring!HostTake
  /\ UNCHANGED <<driverVars, rendererVars, reply, accepted>>

\* The next command, once all its dwords have been read.
Current == taken[dispatched + 1]
Dispatchable ==
  /\ status = "running"
  /\ dispatched < Len(taken)
  /\ dispatched + Current.len <= Len(taken)

Dispatch ==
  /\ Dispatchable
  /\ dispatched' = dispatched + Current.len
  /\ UNCHANGED <<ringState, driverVars, accepted>>

\* vkSetReplyCommandStreamMESA rewinds the reply stream to the window's start.
ExecSetReply ==
  /\ ~fatal /\ Dispatch /\ Current.kind = "set"
  /\ replyStream' = "start"
  /\ UNCHANGED <<fatal, executed, reply>>

\* A reply goes where the reply stream is; only the one at the start of the
\* window is where the driver looks.
ExecReply ==
  /\ ~fatal /\ Dispatch /\ Current.kind = "reply"
  /\ executed' = Append(executed, Current.op)
  /\ IF replyStream = "start"
     THEN /\ reply' = [type |-> Current.type, by |-> Current.op]
          /\ replyStream' = "past"
     ELSE UNCHANGED <<reply, replyStream>>
  /\ UNCHANGED fatal

ExecVoid ==
  /\ ~fatal /\ Dispatch /\ Current.kind = "void"
  /\ executed' = Append(executed, Current.op)
  /\ UNCHANGED <<replyStream, fatal, reply>>

\* A command-stream error: nothing is written, the context becomes fatal.
Reject ==
  /\ HostMayReject
  /\ ~fatal /\ Dispatch
  /\ fatal' = TRUE
  /\ UNCHANGED <<replyStream, executed, reply>>

\* A fatal context skips what it reads (or its thread stops: HostStop).
Skip ==
  /\ fatal /\ Dispatch
  /\ UNCHANGED <<replyStream, fatal, executed, reply>>

HostDispatch == ExecSetReply \/ ExecReply \/ ExecVoid \/ Reject \/ Skip

\* The head is published when everything read has been dispatched.
HostPublish ==
  /\ dispatched = Len(taken)
  /\ Ring!HostStoreHead
  /\ UNCHANGED <<driverVars, rendererVars, reply, accepted>>

HostStall ==
  /\ Ring!HostIdle \/ Ring!HostStop
  /\ UNCHANGED <<driverVars, rendererVars, reply, accepted>>

-----------------------------------------------------------------------------

Next ==
  \/ \E n \in CmdLens : SubmitNoReply(n) \/ \E t \in CmdType : SubmitWithReply(t, n)
  \/ DriverWrite \/ DriverReached \/ DriverTimeout \/ CheckEcho
  \/ HostFetch \/ HostDispatch \/ HostPublish \/ HostStall

Spec == Init /\ [][Next]_vars

\* The client's goroutine runs on; a host that has not stalled makes progress.
Fairness ==
  /\ WF_vars(DriverWrite) /\ WF_vars(DriverReached \/ DriverTimeout)
  /\ WF_vars(CheckEcho)
  /\ WF_vars(HostFetch) /\ WF_vars(HostDispatch) /\ WF_vars(HostPublish)

FairSpec == Spec /\ Fairness

-----------------------------------------------------------------------------
(* Properties.                                                             *)

\* The driver's and the renderer's state have their types.
TypeOK ==
  /\ op \in 0 .. MaxOps
  /\ want \in [kind : {"reply", "void"}, type : CmdType \cup {SentinelType}]
  /\ dpc \in {"idle", "busy", "check", "error"}
  /\ reply \in [type : CmdType \cup {SentinelType}, by : 0 .. MaxOps]
  /\ dispatched \in Nat
  /\ replyStream \in {"unset", "start", "past"}
  /\ fatal \in BOOLEAN
  /\ executed \in Seq(1 .. MaxOps)
  /\ accepted \subseteq [op : 1 .. MaxOps, by : 0 .. MaxOps]

\* A reply submitWithReply returns was written for this very command, never
\* for an earlier one of the same type: what the sentinel is for
\* (venusclear_linux.go:178-182).
FreshReply == \A a \in accepted : a.by = a.op

\* Once a reply has been believed, the renderer has executed every operation
\* up to and including that one, each once and in order.  So a void command
\* whose error submitNoReply cannot see (venusclear_linux.go:213) is found out
\* by the next reply.
AcceptedMeansExecuted ==
  \A a \in accepted : \A i \in 1 .. a.op : i <= Len(executed) /\ executed[i] = i

\* The error "wrote NO valid reply" (venusclear_linux.go:203) is never raised
\* against a renderer that accepted everything: only a timeout or a rejected
\* command ends the walk.
RefusalHasCause == dpc = "error" => (pc = "failed" \/ fatal)

\* While the driver reads or refills the reply window, the renderer has
\* nothing left that could still write into it.
WindowQuiet == dpc \in {"idle", "check"} => dispatched = Len(stream)

\* Every operation ends, in a reply, in consumption or in an error.
OperationEnds == (dpc = "busy") ~> (dpc \in {"idle", "error"})

-----------------------------------------------------------------------------
(* The inductive invariant.                                                *)

\* The command of the current operation, and what precedes it in its batch.
OpCommand(n) == Cmd(op, want.kind, want.type, n)
Lead == IF want.kind = "reply" THEN SetReplyLen ELSE 0
Sent(at, c) == \A i \in 1 .. Len(c) : stream[at + i] = c[i]
AllDispatched == todo = << >> /\ dispatched = Len(stream)

\* Where the driver is, and where Submit and WaitHead are.
DriverPhases ==
  /\ dpc = "busy" <=> pc \in {"copy", "wrap", "tail", "wait"}
  /\ pc = "failed" => dpc = "error"
  /\ dpc = "check" => want.kind = "reply"
  /\ dpc # "idle" => op > 0
  /\ dpc = "error" => pc = "failed" \/ fatal
  /\ want.kind = "reply" => want.type \in CmdType

\* What was submitted since the last acknowledgement and what is still to be
\* submitted are the batch of the current operation.
BatchSent ==
  pc # "ready" =>
    \E n \in CmdLens :
      \/ /\ todo = IF want.kind = "reply" THEN <<SetReply(op), OpCommand(n)>> ELSE <<OpCommand(n)>>
         /\ Len(stream) = acked
      \/ /\ want.kind = "reply" /\ todo = <<OpCommand(n)>>
         /\ Len(stream) = acked + SetReplyLen /\ Sent(acked, SetReply(op))
      \/ /\ todo = << >>
         /\ Len(stream) = acked + Lead + n /\ Sent(acked + Lead, OpCommand(n))
         /\ want.kind = "reply" => Sent(acked, SetReply(op))

\* The renderer is at the boundary of a command, no earlier than the head says.
Dispatching ==
  /\ head <= dispatched /\ dispatched <= Len(taken)
  /\ pc = "ready" => dispatched = Len(stream)
  /\ pc # "ready" => \/ dispatched = acked
                     \/ want.kind = "reply" /\ dispatched = acked + SetReplyLen
                     \/ AllDispatched
  /\ pc # "ready" /\ want.kind = "reply" /\ dispatched = acked + SetReplyLen /\ ~fatal =>
       replyStream = "start"

\* Operations are executed in order, all of them if none was rejected, and
\* the driver believes only what was executed.
Executing ==
  /\ \A i \in 1 .. Len(executed) : executed[i] = i
  /\ Len(executed) <= op
  /\ ~fatal => IF AllDispatched THEN Len(executed) = op ELSE Len(executed) + 1 = op
  /\ \A a \in accepted : a.by = a.op /\ a.op <= Len(executed)

\* The window holds the sentinel until this operation's reply replaces it.
Window ==
  want.kind = "reply" /\ dpc # "idle" =>
    reply = IF ~fatal /\ AllDispatched THEN [type |-> want.type, by |-> op] ELSE Sentinel

\* How the driver, the ring and the renderer fit together at every step of
\* submitWithReply and submitNoReply (venusclear_linux.go:177-224).
DriverInv ==
  /\ TypeOK /\ Ring!RingInv
  /\ DriverPhases /\ BatchSent /\ Dispatching /\ Executing /\ Window
=============================================================================
