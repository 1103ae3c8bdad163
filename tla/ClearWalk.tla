----------------------------- MODULE ClearWalk ------------------------------
(***************************************************************************)
(* The walk of VenusClearImage (vtest/venusclear_linux.go): twenty         *)
(* Vulkan commands sent over the ring one by one, then the readback of the *)
(* image's memory over the socket, and the verdict of cmd/venusclear.      *)
(*                                                                         *)
(* Each command goes through submitWithReply or submitNoReply; ClearDriver *)
(* shows that a reply the driver believes was written for that command and *)
(* that a command-stream error is silent, so here a command is in flight   *)
(* until the host has consumed it, and then has an answer or none.         *)
(*                                                                         *)
(* The host's object table, its device queue (which runs asynchronously)   *)
(* and its failures are external.                                          *)
(***************************************************************************)
EXTENDS Naturals, Sequences, FiniteSets

CONSTANTS
  MemTypes,        \* indices of the host's memory types
  FaultyHosts      \* the hosts to check: TRUE, commands may fail or be rejected; FALSE, never

ASSUME WalkAssumption ==
  MemTypes \subseteq Nat /\ IsFiniteSet(MemTypes) /\ FaultyHosts \subseteq BOOLEAN

\* A reply-bearing command, and a void one, with the objects it names and the
\* one it creates.
Call(cmd, needs, makes) == [cmd |-> cmd, needs |-> needs, makes |-> makes, reply |-> TRUE]
Record(cmd, needs) == [cmd |-> cmd, needs |-> needs, makes |-> {}, reply |-> FALSE]

InstanceSteps ==
  <<Call("CreateInstance", {}, {"instance"}),
    Call("EnumeratePhysicalDevices(count)", {"instance"}, {}),
    Call("EnumeratePhysicalDevices(fetch)", {"instance"}, {"physdev"}),
    Call("GetPhysicalDeviceMemoryProperties", {"physdev"}, {}),
    Call("GetPhysicalDeviceQueueFamilyProperties", {"physdev"}, {}),
    Call("CreateDevice", {"physdev"}, {"device"})>>

ImageSteps ==
  <<Call("GetDeviceQueue2", {"device"}, {"queue"}),
    Call("CreateImage", {"device"}, {"image"}),
    Call("GetImageMemoryRequirements", {"device", "image"}, {}),
    Call("AllocateMemory", {"device"}, {"memory"}),
    Call("BindImageMemory", {"device", "image", "memory"}, {})>>

\* Mutant: the barrier that moves the image to GENERAL is recorded last.
RecordStepsBarrierLate ==
  <<Call("CreateCommandPool", {"device"}, {"pool"}),
    Call("AllocateCommandBuffers", {"device", "pool"}, {"cmdbuf"}),
    Call("BeginCommandBuffer", {"cmdbuf"}, {}),
    Record("CmdClearColorImage", {"cmdbuf", "image"}),
    Record("CmdPipelineBarrier", {"cmdbuf", "image"}),
    Call("EndCommandBuffer", {"cmdbuf"}, {})>>

RecordSteps ==
  <<Call("CreateCommandPool", {"device"}, {"pool"}),
    Call("AllocateCommandBuffers", {"device", "pool"}, {"cmdbuf"}),
    Call("BeginCommandBuffer", {"cmdbuf"}, {}),
    Record("CmdPipelineBarrier", {"cmdbuf", "image"}),
    Record("CmdClearColorImage", {"cmdbuf", "image"}),
    Call("EndCommandBuffer", {"cmdbuf"}, {})>>

\* Mutant: the fence is not waited for.
SubmitStepsNoWait ==
  <<Call("CreateFence", {"device"}, {"fence"}),
    Call("QueueSubmit", {"queue", "cmdbuf", "fence"}, {})>>

SubmitSteps ==
  <<Call("CreateFence", {"device"}, {"fence"}),
    Call("QueueSubmit", {"queue", "cmdbuf", "fence"}, {}),
    Call("WaitForFences", {"device", "fence"}, {})>>

Walk == InstanceSteps \o ImageSteps \o RecordSteps \o SubmitSteps

-----------------------------------------------------------------------------

VARIABLES
  step,            \* the walk's next or current command; Len(Walk)+1: readback
  pc,              \* client: ready, waiting; asked, mapped (the readback); done
  verdict,         \* none, pass, error
  cause,           \* why it ended in an error
  memType,         \* res.MemTypeIndex: the set of the type chosen, or {}
  flight,          \* the command in flight: none, sent, consumed
  answer,          \* its reply, or the server's answer for the blob: none, ok, failed, or
                   \* unnoticed: a failure that shows in nothing the client looks at
  objects,         \* the host's object table
  bound,           \* the image is bound to the memory
  cmdbuf,          \* the command buffer: [state, list]
  pending,         \* submissions the device has not executed
  fence,           \* signalled
  texels,          \* the memory the client will map: clear or other
  layout,          \* the image's layout: undefined or general
  fatal,           \* the context has met a command-stream error
  dangling,        \* history: a command named an object that does not exist
  faulty,          \* the host may fail or reject commands
  suitable,        \* memory types that are HOST_VISIBLE|COHERENT
  allowed          \* memory types the image allows (memoryTypeBits)

clientVars == <<step, pc, verdict, cause, memType>>
hostVars == <<objects, bound, cmdbuf, pending, fence, texels, layout, fatal, dangling>>
world == <<faulty, suitable, allowed>>
vars == <<clientVars, flight, answer, hostVars, world>>

\* The fresh memory may by chance hold the clear colour already.
Init ==
  /\ step = 1 /\ pc = "ready" /\ verdict = "none" /\ cause = "none" /\ memType = {}
  /\ flight = "none" /\ answer = "none"
  /\ objects = {} /\ bound = FALSE
  /\ cmdbuf = [state |-> "initial", list |-> << >>]
  /\ pending = << >> /\ fence = FALSE
  /\ texels \in {"clear", "other"} /\ layout = "undefined"
  /\ fatal = FALSE /\ dangling = FALSE
  /\ faulty \in FaultyHosts
  /\ suitable \in SUBSET MemTypes
  /\ allowed \in SUBSET MemTypes

-----------------------------------------------------------------------------
(* The client.                                                             *)

Current == Walk[step]

\* submitWithReply, submitNoReply up to their wait.
Submit ==
  /\ pc = "ready" /\ step <= Len(Walk)
  /\ pc' = "waiting"
  /\ flight' = "sent" /\ answer' = "none"
  /\ UNCHANGED <<step, verdict, cause, memType, hostVars, world>>

\* cmd/venusclear prints PASS only when VenusClearImage returns no error.  Its
\* further test (a zero handle, a VkResult, no readback: exit 2) repeats checks
\* that VenusClearImage has made before it returns without one.
MainVerdict(err) == IF err = "none" THEN "pass" ELSE "error"

Stop(why) == pc' = "done" /\ verdict' = MainVerdict(why) /\ cause' = why /\ UNCHANGED step

\* Mutant: no deadline.
TimeoutNever ==
  /\ pc = "waiting" /\ flight = "sent"
  /\ UNCHANGED vars

\* WaitHead's deadline passes first.
Timeout ==
  /\ pc = "waiting" /\ flight = "sent"
  /\ Stop("timeout")
  /\ UNCHANGED <<memType, flight, answer, hostVars, world>>

\* Mutant: the loop does not stop at the first match.
FirstSuitableNoBreak == suitable

\* The first type that is HOST_VISIBLE|COHERENT, if there is one.
FirstSuitable == {t \in suitable : \A u \in suitable : t <= u}

\* Mutant: the VkResult of vkWaitForFences is recorded and not examined.
CheckReplyIgnoresFence ==
  IF Current.reply /\ answer = "none" THEN "no reply"
  ELSE IF answer = "failed" /\ Current.cmd # "WaitForFences" THEN "failed"
  ELSE IF Current.cmd = "GetPhysicalDeviceMemoryProperties" /\ suitable = {} THEN "no memory type"
  ELSE IF Current.cmd = "GetImageMemoryRequirements" /\ ~(memType \subseteq allowed) THEN "memory type not allowed"
  ELSE "none"

\* Mutant: the image's memoryTypeBits are not looked at.
CheckReplyAnyType ==
  IF Current.reply /\ answer = "none" THEN "no reply"
  ELSE IF answer = "failed" THEN "failed"
  ELSE IF Current.cmd = "GetPhysicalDeviceMemoryProperties" /\ suitable = {} THEN "no memory type"
  ELSE "none"

\* What is wrong with the reply: no valid one; a VkResult, an absent handle or,
\* for the two enumerations, a count of zero or an empty list ("failed"); or the
\* checks on the memory types.
CheckReply ==
  IF Current.reply /\ answer = "none" THEN "no reply"
  ELSE IF answer = "failed" THEN "failed"
  ELSE IF Current.cmd = "GetPhysicalDeviceMemoryProperties" /\ suitable = {} THEN "no memory type"
  ELSE IF Current.cmd = "GetImageMemoryRequirements" /\ ~(memType \subseteq allowed) THEN "memory type not allowed"
  ELSE "none"

\* The head has reached the command: decode, check, go on.
Finish ==
  /\ pc = "waiting" /\ flight = "consumed"
  /\ IF CheckReply = "none"
     THEN pc' = "ready" /\ step' = step + 1 /\ UNCHANGED <<verdict, cause>>
     ELSE Stop(CheckReply)
  /\ memType' = IF Current.cmd = "GetPhysicalDeviceMemoryProperties" THEN FirstSuitable ELSE memType
  /\ flight' = "none"
  /\ UNCHANGED <<answer, hostVars, world>>

\* The blob with blob_id = idMemory is asked for over the socket: a round trip
\* without a deadline.
RequestBlob ==
  /\ pc = "ready" /\ step = Len(Walk) + 1
  /\ pc' = "asked" /\ answer' = "none"
  /\ UNCHANGED <<step, verdict, cause, memType, flight, hostVars, world>>

\* The blob's descriptor has come and is mapped; or the server could not back
\* the memory, closed the connection, or the mapping failed.
MapMemory ==
  /\ pc = "asked" /\ answer # "none"
  /\ IF answer = "ok"
     THEN pc' = "mapped" /\ UNCHANGED <<step, verdict, cause>>
     ELSE Stop("readback")
  /\ UNCHANGED <<memType, flight, answer, hostVars, world>>

\* The first row is compared with the clear colour.
ReadTexels ==
  /\ pc = "mapped"
  /\ IF texels = "clear"
     THEN pc' = "done" /\ verdict' = MainVerdict("none") /\ UNCHANGED <<step, cause>>
     ELSE Stop("texels")
  /\ UNCHANGED <<memType, flight, answer, hostVars, world>>

-----------------------------------------------------------------------------
(* The host (external).                                                    *)

\* Everything a command does besides its reply.
Effect(c) ==
  /\ objects' = objects \cup c.makes
  /\ bound' = (bound \/ c.cmd = "BindImageMemory")
  /\ cmdbuf' = CASE c.cmd = "BeginCommandBuffer" -> [state |-> "recording", list |-> << >>]
                 [] c.cmd \in {"CmdPipelineBarrier", "CmdClearColorImage"} ->
                      [cmdbuf EXCEPT !.list = Append(@, c.cmd)]
                 [] c.cmd = "EndCommandBuffer" -> [cmdbuf EXCEPT !.state = "executable"]
                 [] OTHER -> cmdbuf
  /\ pending' = IF c.cmd = "QueueSubmit" THEN Append(pending, cmdbuf.list) ELSE pending

\* The command is executed; vkWaitForFences holds the consumer until the fence
\* is signalled (its timeout is infinite).
HostExec ==
  /\ flight = "sent" /\ ~fatal /\ Current.needs \subseteq objects
  /\ Current.cmd = "WaitForFences" => fence
  /\ Effect(Current)
  /\ flight' = "consumed"
  /\ answer' = IF Current.reply THEN "ok" ELSE "none"
  /\ UNCHANGED <<clientVars, fence, texels, layout, fatal, dangling, world>>

\* The commands whose VkResult the client drops: their reply carries a count or
\* a list of ids even when they have failed.
Enumerations == {"EnumeratePhysicalDevices(count)", "EnumeratePhysicalDevices(fetch)"}

\* It is executed and fails: a VkResult, no handle, a count of zero; or, for an
\* enumeration, a VkResult alone.
HostFails ==
  /\ faulty
  /\ flight = "sent" /\ ~fatal /\ Current.needs \subseteq objects /\ Current.reply
  /\ flight' = "consumed"
  /\ answer' \in {"failed"} \cup (IF Current.cmd \in Enumerations THEN {"unnoticed"} ELSE {})
  /\ UNCHANGED <<clientVars, hostVars, world>>

\* A command-stream error: an unknown object, or anything else the renderer
\* rejects.  The head still moves.
HostRejects ==
  /\ flight = "sent" /\ ~fatal
  /\ faulty \/ ~(Current.needs \subseteq objects)
  /\ fatal' = TRUE
  /\ dangling' = (dangling \/ ~(Current.needs \subseteq objects))
  /\ flight' = "consumed"
  /\ UNCHANGED <<clientVars, answer, objects, bound, cmdbuf, pending, fence, texels, layout, world>>

HostSkips ==
  /\ flight = "sent" /\ fatal
  /\ flight' = "consumed"
  /\ UNCHANGED <<clientVars, answer, hostVars, world>>

\* The server answers the request for the blob.
ServeBlob ==
  /\ pc = "asked" /\ answer = "none"
  /\ \/ "memory" \in objects /\ answer' = "ok"
     \/ ("memory" \notin objects \/ faulty) /\ answer' = "failed"
  /\ UNCHANGED <<clientVars, flight, hostVars, world>>

\* The device executes a submission on its own time.  A clear writes the
\* memory only of a bound image in layout GENERAL.
DeviceExecutes ==
  LET list == pending[1]
      general == layout = "general" \/ (list # << >> /\ list[1] = "CmdPipelineBarrier")
      clears == "CmdClearColorImage" \in {list[i] : i \in DOMAIN list}
  IN /\ pending # << >>
     /\ pending' = Tail(pending)
     /\ texels' = IF bound /\ general /\ clears THEN "clear" ELSE texels
     /\ layout' = IF general THEN "general" ELSE layout
     /\ fence' = TRUE
     /\ UNCHANGED <<clientVars, flight, answer, objects, bound, cmdbuf, fatal, dangling, world>>

-----------------------------------------------------------------------------

Client == Submit \/ Finish \/ RequestBlob \/ MapMemory \/ ReadTexels
Host == HostExec \/ HostFails \/ HostRejects \/ HostSkips \/ ServeBlob

Next == Client \/ Timeout \/ Host \/ DeviceExecutes

Spec == Init /\ [][Next]_vars

\* The client's goroutine runs on and its clock advances.  Of the ring's host
\* and of the device nothing is assumed; but the reads of the blob's answer have
\* no deadline, so the server must answer on the socket or close it.
FairSpec == Spec /\ WF_vars(Client) /\ WF_vars(Finish \/ Timeout) /\ WF_vars(ServeBlob)

-----------------------------------------------------------------------------
(* Properties.                                                             *)

Executed == {cmdbuf.list[i] : i \in DOMAIN cmdbuf.list}

\* The walk's state has its type.
TypeOK ==
  /\ step \in 1 .. Len(Walk) + 1
  /\ pc \in {"ready", "waiting", "asked", "mapped", "done"}
  /\ verdict \in {"none", "pass", "error"}
  /\ cause \in {"none", "timeout", "no reply", "failed", "no memory type",
               "memory type not allowed", "readback", "texels"}
  /\ memType \in SUBSET MemTypes /\ Cardinality(memType) <= 1
  /\ flight \in {"none", "sent", "consumed"} 
  /\ answer \in {"none", "ok", "failed", "unnoticed"}
  /\ texels \in {"clear", "other"} /\ layout \in {"undefined", "general"}
  /\ cmdbuf \in [state : {"initial", "recording", "executable"},
                list : Seq({"CmdPipelineBarrier", "CmdClearColorImage"})]
  /\ suitable \subseteq MemTypes

\* PASS means what cmd/venusclear prints (main.go:116): the host recorded the
\* clear, executed it to fence completion on the bound memory, and the bytes
\* the client read are its result; even if the memory held red beforehand.
PassMeansCleared ==
  verdict = "pass" =>
    /\ fence /\ pending = << >> /\ bound /\ layout = "general"
    /\ "CmdClearColorImage" \in Executed
    /\ texels = "clear" /\ ~fatal

\* The only object that a command can name without the host having it is the
\* physical device, when the enumeration has failed and its VkResult was dropped
\* (venusclear_linux.go:454, :477): the next command names it, is rejected, and
\* the walk gets no further, although it sends ids it chose itself and void
\* commands report no errors.
OnlyDeviceDangles == dangling => faulty /\ fatal /\ step = 4

\* The client maps and reads the memory only when the device has no submission
\* left that could still write it: what vkWaitForFences is for
\* (venusclear_linux.go:781).
ReadWhenQuiet == pc = "mapped" => pending = << >>

\* A host that fails nothing and has an allowed first choice of memory type is
\* never reported as a failure, timeouts aside; and whatever the host, nothing
\* past the enumeration is sent that it must reject.
FaultlessPasses ==
  /\ OnlyDeviceDangles
  /\ verdict = "error" /\ ~faulty =>
       \/ cause = "timeout"
       \/ cause = "no memory type" /\ suitable = {}
       \/ cause = "memory type not allowed" /\ ~(FirstSuitable \subseteq allowed)

\* Memory is only ever allocated from a type that is HOST_VISIBLE|COHERENT and
\* that the image allows.
AllocatedTypeFits ==
  "memory" \in objects => memType # {} /\ memType \subseteq suitable \cap allowed

-----------------------------------------------------------------------------
(* The inductive invariant.                                                *)

\* What the client, the command in flight and the verdict have to do with
\* each other.
Phases ==
  /\ pc \in {"ready", "asked", "mapped"} => flight = "none"
  /\ pc = "waiting" => flight # "none"
  /\ flight # "none" => step <= Len(Walk)
  /\ flight = "sent" => answer = "none"
  /\ pc \in {"asked", "mapped"} => step = Len(Walk) + 1
  /\ verdict = "none" <=> pc # "done"

\* A reply is missing only after a command-stream error, and only a faulty
\* host makes one.
Answers ==
  /\ flight = "consumed" => /\ fatal => answer = "none"
                            /\ ~fatal /\ Current.reply => answer # "none"
  /\ answer \in {"failed", "unnoticed"} \/ fatal => faulty

\* After a command-stream error the walk gets no further than the next command
\* with a reply: the error may have hit one of the two void ones.
FatalStops == fatal /\ pc # "done" => flight = "consumed" \/ step \in {16, 17}

\* The memory type is chosen at command 4 and checked at command 9.
Chosen ==
  /\ step > 4 => memType = FirstSuitable /\ memType # {}
  /\ step > 9 => memType \subseteq allowed
  /\ "memory" \in objects => step > 9

\* The number of commands that the host has carried out.
Carried == IF flight = "consumed" /\ answer # "failed" THEN step ELSE step - 1

NotSubmitted == pending = << >> /\ ~fence /\ layout = "undefined"
Running == pending = <<<<"CmdPipelineBarrier", "CmdClearColorImage">>>> /\ ~fence
Cleared == pending = << >> /\ fence /\ layout = "general" /\ texels = "clear"

\* What a failed enumeration may have left out: the next command tells.
Missing == IF faulty /\ Carried < 4 THEN {"physdev"} ELSE {}

\* What the host has built for a walk that has met no command-stream error.
Built ==
  /\ \A i \in 1 .. Carried : Walk[i].makes \subseteq objects \cup Missing
  /\ Carried >= 11 => bound
  /\ cmdbuf.list = IF Carried < 15 THEN << >> ELSE IF Carried = 15 THEN <<"CmdPipelineBarrier">>
                   ELSE <<"CmdPipelineBarrier", "CmdClearColorImage">>
  /\ IF Carried < 19 THEN NotSubmitted ELSE Running \/ Cleared
  /\ Carried = 20 => fence

\* The state of the walk as a whole: who may be where while the other is
\* where, what the commands so far have left on the host, and what is known of
\* it at the verdict (venusclear_linux.go:474-870).
WalkInv ==
  /\ TypeOK /\ Phases /\ Answers /\ FatalStops /\ Chosen
  /\ ~fatal /\ (pc # "done" \/ flight = "sent") => Built
  /\ verdict = "pass" => flight = "none" /\ bound /\ Cleared /\ ~fatal
  /\ PassMeansCleared /\ FaultlessPasses

-----------------------------------------------------------------------------

\* The walk ends, even if the ring's consumer or the device hangs at any command
\* (venusclear_linux.go:784 waits for the fence without a limit), as long as the
\* server answers the one request of the readback or closes its socket.
WalkEnds == <>(pc = "done")

\* The comment at venusclear_linux.go:606: when the image disallows the chosen
\* type, another HOST_VISIBLE|COHERENT type that is allowed is picked.
RepicksType ==
  cause = "memory type not allowed" => suitable \cap allowed = {}
=============================================================================
