--------------------------- MODULE ClearWalkProofs --------------------------
(***************************************************************************)
(* Proofs about ClearWalk: for every set of memory types, every choice of  *)
(* the suitable and of the allowed ones, and every order in which client,  *)
(* host, device and deadline take their steps.                             *)
(***************************************************************************)
EXTENDS ClearWalk, FiniteSetTheorems, SequenceTheorems, WellFoundedInduction, TLAPS

-----------------------------------------------------------------------------
(* The script of VenusClearImage.                                          *)

\* The twenty commands, by their number.
LEMMA WalkTable ==
  /\ Len(Walk) = 20
  /\ Walk[1] = Call("CreateInstance", {}, {"instance"})
  /\ Walk[2] = Call("EnumeratePhysicalDevices(count)", {"instance"}, {})
  /\ Walk[3] = Call("EnumeratePhysicalDevices(fetch)", {"instance"}, {"physdev"})
  /\ Walk[4] = Call("GetPhysicalDeviceMemoryProperties", {"physdev"}, {})
  /\ Walk[5] = Call("GetPhysicalDeviceQueueFamilyProperties", {"physdev"}, {})
  /\ Walk[6] = Call("CreateDevice", {"physdev"}, {"device"})
  /\ Walk[7] = Call("GetDeviceQueue2", {"device"}, {"queue"})
  /\ Walk[8] = Call("CreateImage", {"device"}, {"image"})
  /\ Walk[9] = Call("GetImageMemoryRequirements", {"device", "image"}, {})
  /\ Walk[10] = Call("AllocateMemory", {"device"}, {"memory"})
  /\ Walk[11] = Call("BindImageMemory", {"device", "image", "memory"}, {})
  /\ Walk[12] = Call("CreateCommandPool", {"device"}, {"pool"})
  /\ Walk[13] = Call("AllocateCommandBuffers", {"device", "pool"}, {"cmdbuf"})
  /\ Walk[14] = Call("BeginCommandBuffer", {"cmdbuf"}, {})
  /\ Walk[15] = Record("CmdPipelineBarrier", {"cmdbuf", "image"})
  /\ Walk[16] = Record("CmdClearColorImage", {"cmdbuf", "image"})
  /\ Walk[17] = Call("EndCommandBuffer", {"cmdbuf"}, {})
  /\ Walk[18] = Call("CreateFence", {"device"}, {"fence"})
  /\ Walk[19] = Call("QueueSubmit", {"queue", "cmdbuf", "fence"}, {})
  /\ Walk[20] = Call("WaitForFences", {"device", "fence"}, {})
  BY DEF Walk, InstanceSteps, ImageSteps, RecordSteps, SubmitSteps

\* Where the commands stand that do something besides making an object, and
\* which ones have a reply.
LEMMA Places ==
  ASSUME NEW i \in 1 .. 20
  PROVE  /\ Walk[i].cmd = "GetPhysicalDeviceMemoryProperties" <=> i = 4
         /\ Walk[i].cmd \in Enumerations <=> i \in {2, 3}
         /\ Walk[i].cmd = "GetImageMemoryRequirements" <=> i = 9
         /\ Walk[i].cmd = "BindImageMemory" <=> i = 11
         /\ Walk[i].cmd = "BeginCommandBuffer" <=> i = 14
         /\ Walk[i].cmd = "CmdPipelineBarrier" <=> i = 15
         /\ Walk[i].cmd = "CmdClearColorImage" <=> i = 16
         /\ Walk[i].cmd = "EndCommandBuffer" <=> i = 17
         /\ Walk[i].cmd = "QueueSubmit" <=> i = 19
         /\ Walk[i].cmd = "WaitForFences" <=> i = 20
         /\ Walk[i].reply \in BOOLEAN /\ (Walk[i].reply <=> i \notin {15, 16})
         /\ "memory" \in Walk[i].makes <=> i = 10
         /\ i \in {2, 3} => Walk[i].makes \subseteq {"physdev"}
<1>1. /\ Walk[1].cmd = "CreateInstance" /\ Walk[2].cmd = "EnumeratePhysicalDevices(count)"
      /\ Walk[3].cmd = "EnumeratePhysicalDevices(fetch)" /\ Walk[4].cmd = "GetPhysicalDeviceMemoryProperties"
      /\ Walk[5].cmd = "GetPhysicalDeviceQueueFamilyProperties" /\ Walk[6].cmd = "CreateDevice"
      /\ Walk[7].cmd = "GetDeviceQueue2" /\ Walk[8].cmd = "CreateImage"
      /\ Walk[9].cmd = "GetImageMemoryRequirements" /\ Walk[10].cmd = "AllocateMemory"
      /\ Walk[11].cmd = "BindImageMemory" /\ Walk[12].cmd = "CreateCommandPool"
      /\ Walk[13].cmd = "AllocateCommandBuffers" /\ Walk[14].cmd = "BeginCommandBuffer"
      /\ Walk[15].cmd = "CmdPipelineBarrier" /\ Walk[16].cmd = "CmdClearColorImage"
      /\ Walk[17].cmd = "EndCommandBuffer" /\ Walk[18].cmd = "CreateFence"
      /\ Walk[19].cmd = "QueueSubmit" /\ Walk[20].cmd = "WaitForFences"
  BY WalkTable DEF Call, Record
<1>2. /\ Walk[1].reply = TRUE /\ Walk[2].reply = TRUE /\ Walk[3].reply = TRUE /\ Walk[4].reply = TRUE
      /\ Walk[5].reply = TRUE /\ Walk[6].reply = TRUE /\ Walk[7].reply = TRUE /\ Walk[8].reply = TRUE
      /\ Walk[9].reply = TRUE /\ Walk[10].reply = TRUE /\ Walk[11].reply = TRUE /\ Walk[12].reply = TRUE
      /\ Walk[13].reply = TRUE /\ Walk[14].reply = TRUE /\ Walk[15].reply = FALSE /\ Walk[16].reply = FALSE
      /\ Walk[17].reply = TRUE /\ Walk[18].reply = TRUE /\ Walk[19].reply = TRUE /\ Walk[20].reply = TRUE
  BY WalkTable DEF Call, Record
<1>3. /\ Walk[1].makes = {"instance"} /\ Walk[2].makes = {} /\ Walk[3].makes = {"physdev"} /\ Walk[4].makes = {}
      /\ Walk[5].makes = {} /\ Walk[6].makes = {"device"} /\ Walk[7].makes = {"queue"} /\ Walk[8].makes = {"image"}
      /\ Walk[9].makes = {} /\ Walk[10].makes = {"memory"} /\ Walk[11].makes = {} /\ Walk[12].makes = {"pool"}
      /\ Walk[13].makes = {"cmdbuf"} /\ Walk[14].makes = {} /\ Walk[15].makes = {} /\ Walk[16].makes = {}
      /\ Walk[17].makes = {} /\ Walk[18].makes = {"fence"} /\ Walk[19].makes = {} /\ Walk[20].makes = {}
  BY WalkTable DEF Call, Record
<1>4. \/ i = 1 \/ i = 2 \/ i = 3 \/ i = 4 \/ i = 5 \/ i = 6 \/ i = 7 \/ i = 8 \/ i = 9 \/ i = 10
      \/ i = 11 \/ i = 12 \/ i = 13 \/ i = 14 \/ i = 15 \/ i = 16 \/ i = 17 \/ i = 18 \/ i = 19 \/ i = 20
  OBVIOUS
<1>5. Walk[i].reply \in BOOLEAN /\ (Walk[i].reply <=> i \notin {15, 16})  BY <1>2, <1>4
<1>6. ("memory" \in Walk[i].makes <=> i = 10) /\ (i \in {2, 3} => Walk[i].makes \subseteq {"physdev"})
  BY <1>3, <1>4
<1>7. /\ Walk[i].cmd = "GetPhysicalDeviceMemoryProperties" <=> i = 4
      /\ Walk[i].cmd = "GetImageMemoryRequirements" <=> i = 9
      /\ Walk[i].cmd = "BindImageMemory" <=> i = 11
  BY <1>1, <1>4
<1>8. /\ Walk[i].cmd = "BeginCommandBuffer" <=> i = 14
      /\ Walk[i].cmd = "CmdPipelineBarrier" <=> i = 15
      /\ Walk[i].cmd = "CmdClearColorImage" <=> i = 16
  BY <1>1, <1>4
<1>9. /\ Walk[i].cmd = "EndCommandBuffer" <=> i = 17
      /\ Walk[i].cmd = "QueueSubmit" <=> i = 19
      /\ Walk[i].cmd = "WaitForFences" <=> i = 20
  BY <1>1, <1>4
<1>10. Walk[i].cmd \in Enumerations <=> i \in {2, 3}  BY <1>1, <1>4 DEF Enumerations
<1>11. QED  BY <1>5, <1>6, <1>7, <1>8, <1>9, <1>10

\* Every command names only objects that earlier commands have made; the
\* physical device is first named by command 4.
LEMMA NeedsAreMade ==
  ASSUME NEW i \in 1 .. 20, NEW objs, NEW missing,
         missing \subseteq (IF i <= 4 THEN {"physdev"} ELSE {}),
         \A j \in 1 .. i - 1 : Walk[j].makes \subseteq objs \cup missing
  PROVE  /\ i # 4 => Walk[i].needs \subseteq objs
         /\ Walk[i].needs \subseteq objs \cup missing
<1>1. /\ Walk[1].makes = {"instance"} /\ Walk[3].makes = {"physdev"} /\ Walk[6].makes = {"device"}
      /\ Walk[7].makes = {"queue"} /\ Walk[8].makes = {"image"} /\ Walk[10].makes = {"memory"}
      /\ Walk[12].makes = {"pool"} /\ Walk[13].makes = {"cmdbuf"} /\ Walk[18].makes = {"fence"}
  BY WalkTable DEF Call
<1>2. /\ i > 1 => "instance" \in objs
      /\ i > 3 => "physdev" \in objs \cup missing
      /\ i > 4 => missing = {}
      /\ i > 6 => "device" \in objs
      /\ i > 7 => "queue" \in objs
      /\ i > 8 => "image" \in objs
  BY <1>1
<1>3. /\ i > 10 => "memory" \in objs
      /\ i > 12 => "pool" \in objs
      /\ i > 13 => "cmdbuf" \in objs
      /\ i > 18 => "fence" \in objs
  BY <1>1
<1>4. CASE i \in 1 .. 5  BY <1>2, <1>4, WalkTable DEF Call
<1>5. CASE i \in 6 .. 10  BY <1>2, <1>5, WalkTable DEF Call
<1>6. CASE i \in 11 .. 15  BY <1>2, <1>3, <1>6, WalkTable DEF Call, Record
<1>7. CASE i \in 16 .. 20  BY <1>2, <1>3, <1>7, WalkTable DEF Call, Record
<1>8. QED  BY <1>4, <1>5, <1>6, <1>7

\* The choice of the memory type: the smallest suitable one, if there is one.
LEMMA FirstSuitableFacts ==
  ASSUME suitable \subseteq MemTypes
  PROVE  /\ FirstSuitable \subseteq suitable /\ FirstSuitable \subseteq MemTypes
         /\ Cardinality(FirstSuitable) <= 1 /\ Cardinality({}) <= 1
         /\ suitable # {} => FirstSuitable # {}
<1>1. suitable \subseteq Nat  BY WalkAssumption
<1>2. FirstSuitable \subseteq suitable  BY DEF FirstSuitable
<1>3. \A t, u \in FirstSuitable : t = u  BY <1>1 DEF FirstSuitable
<1>4. Cardinality({}) = 0 /\ \A t : Cardinality({t}) = 1  BY FS_EmptySet, FS_Singleton
<1>5. FirstSuitable = {} \/ \E t : FirstSuitable = {t}  BY <1>3
<1>6. ASSUME suitable # {} PROVE FirstSuitable # {}
  <2> DEFINE R == OpToRel(<, Nat)
  <2>1. IsWellFoundedOn(R, Nat)  BY NatLessThanWellFounded
  <2>2. PICK t \in suitable : \A u \in suitable : ~(<<u, t>> \in R)
    <3> HIDE DEF R
    <3>1. QED  BY <1>1, <1>6, <2>1, WFMin
  <2>3. \A u \in suitable : ~(u < t)  BY <1>1, <2>2 DEF OpToRel
  <2>4. t \in FirstSuitable  BY <1>1, <2>3 DEF FirstSuitable
  <2>5. QED  BY <2>4
<1>7. QED  BY <1>2, <1>4, <1>5, <1>6

\* Appending to a command list of one entry.
LEMMA TwoLong ==
  ASSUME NEW b, NEW c
  PROVE  Append(<<b>>, c) = <<b, c>>
<1>1. ASSUME NEW S, NEW s \in Seq(S), NEW t \in Seq(S), NEW e \in S,
             Len(s) = 1, Len(t) = 2, t[1] = s[1], t[2] = e
      PROVE  Append(s, e) = t
  <2> DEFINE u == Append(s, e)
  <2>1. /\ u \in Seq(S) /\ Len(u) = Len(s) + 1 /\ u[Len(s) + 1] = e
        /\ \A j \in 1 .. Len(s) : u[j] = s[j]
    OBVIOUS
  <2> HIDE DEF u
  <2>2. Len(u) = 2 /\ u[1] = s[1] /\ u[2] = e  BY <1>1, <2>1
  <2>3. u = t  BY <1>1, <2>1, <2>2, SeqEqual
  <2>4. QED  BY <2>3 DEF u
<1>2. /\ <<b>> \in Seq({b, c}) /\ Len(<<b>>) = 1 /\ <<b>>[1] = b
      /\ <<b, c>> \in Seq({b, c}) /\ Len(<<b, c>>) = 2 /\ <<b, c>>[1] = b /\ <<b, c>>[2] = c
      /\ c \in {b, c}
  OBVIOUS
<1>3. QED  BY <1>1, <1>2, Zenon

-----------------------------------------------------------------------------
(* The steps.                                                              *)

\* What is true of every state: the number of the current command, and that
\* the objects it names exist.
LEMMA StateFacts ==
  ASSUME WalkInv
  PROVE  /\ step \in 1 .. 21 /\ Len(Walk) = 20
         /\ flight # "none" => step \in 1 .. 20
         /\ flight = "sent" /\ ~fatal =>
              Built /\ (Current.needs \subseteq objects \/ (faulty /\ step = 4))
         /\ pc # "done" /\ ~fatal => Built
<1>1. step \in 1 .. 21 /\ Len(Walk) = 20
  <2>1. Len(Walk) = 20 /\ step \in 1 .. Len(Walk) + 1  BY WalkTable DEF WalkInv, TypeOK
  <2>2. QED  BY <2>1
<1>2. flight # "none" => step \in 1 .. 20  BY <1>1 DEF WalkInv, Phases
<1>3. (flight = "sent" \/ pc # "done") /\ ~fatal => Built  BY DEF WalkInv
<1>4. ASSUME flight = "sent", ~fatal PROVE Current.needs \subseteq objects \/ (faulty /\ step = 4)
  <2>1. (\A i \in 1 .. step - 1 : Walk[i].makes \subseteq objects \cup Missing) /\ Carried = step - 1
    BY <1>3, <1>4 DEF Built, Carried
  <2>2. /\ Missing \subseteq (IF step <= 4 THEN {"physdev"} ELSE {})
        /\ ~faulty => Missing = {}
    BY <1>2, <1>4, <2>1 DEF Missing
  <2>3. /\ step # 4 => Walk[step].needs \subseteq objects
        /\ Walk[step].needs \subseteq objects \cup Missing
    BY <1>2, <1>4, <2>1, <2>2, NeedsAreMade
  <2>4. QED  BY <2>2, <2>3 DEF Current
<1>5. QED  BY <1>1, <1>2, <1>3, <1>4

\* submitWithReply and submitNoReply send the next command.
LEMMA SubmitInv ==
  ASSUME WalkInv, Submit
  PROVE  WalkInv'
<1>1. /\ pc = "ready" /\ step <= 20 /\ pc' = "waiting" /\ flight' = "sent" /\ answer' = "none"
      /\ UNCHANGED <<step, verdict, cause, memType, objects, bound, cmdbuf, pending, fence, texels,
                     layout, fatal, dangling, faulty, suitable, allowed>>
  BY WalkTable DEF Submit, hostVars, world
<1>2. step \in 1 .. 21 /\ Len(Walk) = 20 /\ flight = "none"
  BY <1>1, StateFacts DEF WalkInv, Phases
<1>3. TypeOK'  BY <1>1 DEF WalkInv, TypeOK
<1>4. Phases'  BY <1>1, <1>2 DEF WalkInv, Phases
<1>5. Answers' /\ FatalStops'  BY <1>1, <1>2 DEF WalkInv, Answers, FatalStops
<1>6. Chosen'  BY <1>1 DEF WalkInv, Chosen, FirstSuitable
<1>7. ~fatal => Built'
  <2>1. SUFFICES ASSUME ~fatal PROVE Built'  OBVIOUS
  <2>2. Built  BY <1>1, <2>1, StateFacts
  <2>3. Carried' = Carried  BY <1>1, <1>2 DEF Carried
  <2>4. QED  BY <1>1, <1>2, <2>2, <2>3 DEF Built, Missing, NotSubmitted, Running, Cleared
<1>8. PassMeansCleared' /\ FaultlessPasses' /\ verdict' # "pass"
  BY <1>1 DEF WalkInv, Phases, PassMeansCleared, FaultlessPasses, OnlyDeviceDangles, FirstSuitable
<1>9. QED  BY <1>1, <1>3, <1>4, <1>5, <1>6, <1>7, <1>8 DEF WalkInv

\* A step that ends the walk with an error and does nothing else.
LEMMA StopInv ==
  ASSUME WalkInv, NEW why \in {"timeout", "readback", "texels"}, Stop(why),
         why # "timeout" => faulty, flight # "consumed",
         UNCHANGED <<memType, flight, answer, hostVars, world>>
  PROVE  WalkInv'
<1>1. /\ pc' = "done" /\ verdict' = "error" /\ cause' = why
      /\ UNCHANGED <<step, memType, flight, answer, objects, bound, cmdbuf, pending, fence, texels,
                     layout, fatal, dangling, faulty, suitable, allowed>>
  BY DEF Stop, MainVerdict, hostVars, world
<1>2. TypeOK'  BY <1>1 DEF WalkInv, TypeOK
<1>3. Phases' /\ Answers' /\ FatalStops'
  BY <1>1 DEF WalkInv, Phases, Answers, FatalStops, Current
<1>4. Chosen'  BY <1>1 DEF WalkInv, Chosen, FirstSuitable
<1>5. ~fatal /\ flight = "sent" => Built'
  <2>1. SUFFICES ASSUME ~fatal, flight = "sent" PROVE Built'  OBVIOUS
  <2>2. Built  BY <2>1, StateFacts
  <2>3. QED  BY <1>1, <2>2 DEF Built, Missing, Carried, NotSubmitted, Running, Cleared
<1>6. PassMeansCleared' /\ FaultlessPasses'
  BY <1>1 DEF WalkInv, PassMeansCleared, FaultlessPasses, OnlyDeviceDangles, FirstSuitable
<1>7. QED  BY <1>1, <1>2, <1>3, <1>4, <1>5, <1>6 DEF WalkInv

\* The head has reached the command: its reply is examined.
LEMMA FinishInv ==
  ASSUME WalkInv, Finish
  PROVE  WalkInv'
<1>1. /\ pc = "waiting" /\ flight = "consumed" /\ flight' = "none"
      /\ memType' = IF Current.cmd = "GetPhysicalDeviceMemoryProperties" THEN FirstSuitable ELSE memType
      /\ UNCHANGED <<answer, objects, bound, cmdbuf, pending, fence, texels, layout, fatal, dangling,
                     faulty, suitable, allowed>>
  BY DEF Finish, hostVars, world
<1>2. step \in 1 .. 20 /\ Len(Walk) = 20 /\ verdict = "none"
  BY <1>1, StateFacts DEF WalkInv, Phases
<1>3. /\ Current.cmd = "GetPhysicalDeviceMemoryProperties" <=> step = 4
      /\ Current.cmd = "GetImageMemoryRequirements" <=> step = 9
      /\ Current.reply <=> step \notin {15, 16}
  BY <1>2, Places DEF Current
<1>4. /\ memType' \in SUBSET MemTypes /\ Cardinality(memType') <= 1
      /\ step = 4 => memType' = FirstSuitable
      /\ step # 4 => memType' = memType
  BY <1>1, <1>3, FirstSuitableFacts DEF WalkInv, TypeOK
<1>5. FirstSuitable' = FirstSuitable  BY <1>1 DEF FirstSuitable
<1>6. CASE CheckReply = "none"
  <2>1. pc' = "ready" /\ step' = step + 1 /\ UNCHANGED <<verdict, cause>>
    BY <1>6 DEF Finish
  <2>2. /\ Current.reply => answer # "none"
        /\ answer # "failed"
        /\ step = 4 => suitable # {}
        /\ step = 9 => memType \subseteq allowed
    BY <1>3, <1>6 DEF CheckReply
  <2>3. fatal => step \in {15, 16}
    BY <1>1, <1>3, <2>2 DEF WalkInv, Answers
  <2>4. TypeOK'
    <3>1. step' \in 1 .. Len(Walk) + 1  BY <1>2, <2>1
    <3>2. QED  BY <1>1, <1>4, <2>1, <3>1 DEF WalkInv, TypeOK
  <2>5. Phases'  BY <1>1, <1>2, <2>1 DEF WalkInv, Phases
  <2>6. Answers' /\ FatalStops'
    BY <1>1, <1>2, <2>1, <2>3 DEF WalkInv, Answers, FatalStops
  <2>7. Chosen'
    <3>1. suitable # {} => FirstSuitable # {}  BY FirstSuitableFacts DEF WalkInv, TypeOK
    <3>2. step' > 4 => memType' = FirstSuitable /\ memType' # {}
      BY <1>2, <1>4, <2>1, <2>2, <3>1 DEF WalkInv, Chosen
    <3>3. step' > 9 => memType' \subseteq allowed
      BY <1>2, <1>4, <2>1, <2>2 DEF WalkInv, Chosen
    <3>4. "memory" \in objects => step' > 9  BY <1>2, <2>1 DEF WalkInv, Chosen
    <3>5. QED  BY <1>1, <1>5, <3>2, <3>3, <3>4 DEF Chosen
  <2>8. ~fatal => Built'
    <3>1. SUFFICES ASSUME ~fatal PROVE Built'  OBVIOUS
    <3>2. Built  BY <1>1, <3>1, StateFacts
    <3>3. Carried' = Carried  BY <1>1, <1>2, <2>1, <2>2 DEF Carried
    <3>4. QED  BY <1>1, <3>2, <3>3 DEF Built, Missing, NotSubmitted, Running, Cleared
  <2>9. PassMeansCleared' /\ FaultlessPasses' /\ verdict' # "pass"
    BY <1>1, <1>2, <1>5, <2>1, <2>3 DEF WalkInv, PassMeansCleared, FaultlessPasses, OnlyDeviceDangles
  <2>10. QED  BY <1>1, <2>1, <2>4, <2>5, <2>6, <2>7, <2>8, <2>9 DEF WalkInv
<1>7. CASE CheckReply # "none"
  <2>1. pc' = "done" /\ verdict' = "error" /\ cause' = CheckReply /\ UNCHANGED step
    BY <1>7 DEF Finish, Stop, MainVerdict
  <2>2. TypeOK'
    <3>1. cause' \in {"no reply", "failed", "no memory type", "memory type not allowed"}
      BY <1>7, <2>1 DEF CheckReply
    <3>2. QED  BY <1>1, <1>4, <2>1, <3>1 DEF WalkInv, TypeOK
  <2>3. Phases' /\ Answers' /\ FatalStops'
    BY <1>1, <1>2, <2>1 DEF WalkInv, Phases, Answers, FatalStops
  <2>4. Chosen'
    BY <1>1, <1>2, <1>4, <1>5, <2>1 DEF WalkInv, Chosen
  <2>5. PassMeansCleared' /\ verdict' # "pass"  BY <2>1 DEF PassMeansCleared
  <2>6. FaultlessPasses'
    <3>1. SUFFICES ASSUME ~faulty
                   PROVE  \/ CheckReply = "no memory type" /\ suitable = {}
                          \/ CheckReply = "memory type not allowed" /\ ~(FirstSuitable \subseteq allowed)
      BY <1>1, <1>5, <2>1 DEF FaultlessPasses, OnlyDeviceDangles, WalkInv
    <3>2. ~fatal /\ answer # "failed" /\ (Current.reply => answer # "none")
      BY <1>1, <3>1 DEF WalkInv, Answers
    <3>3. step = 9 => memType = FirstSuitable  BY <1>2 DEF WalkInv, Chosen
    <3>4. QED  BY <1>3, <1>7, <3>2, <3>3 DEF CheckReply
  <2>7. QED  BY <1>1, <2>1, <2>2, <2>3, <2>4, <2>5, <2>6 DEF WalkInv
<1>8. QED  BY <1>6, <1>7

\* The readback starts when all twenty commands have been carried out.
LEMMA AtReadback ==
  ASSUME WalkInv, step = 21, flight = "none", pc # "done"
  PROVE  ~fatal /\ Built /\ Carried = 20 /\ "memory" \in objects
<1>1. ~fatal  BY DEF WalkInv, FatalStops
<1>2. Built /\ Carried = 20  BY <1>1, StateFacts DEF Carried
<1>3. Walk[10].makes \subseteq objects  BY <1>2 DEF Built, Missing
<1>4. "memory" \in Walk[10].makes  BY Places
<1>5. QED  BY <1>1, <1>2, <1>3, <1>4

\* A step of the readback before the comparison changes only the client's place
\* and the server's answer.
LEMMA ReadbackInv ==
  ASSUME WalkInv, step = 21, flight = "none", pc # "done",
         pc' \in {"asked", "mapped"}, answer' \in {"none", "ok", "failed"},
         answer' = "failed" => faulty,
         UNCHANGED <<step, verdict, cause, memType, flight, hostVars, world>>
  PROVE  WalkInv'
<1>1. UNCHANGED <<step, verdict, cause, memType, flight, objects, bound, cmdbuf, pending,
                  fence, texels, layout, fatal, dangling, faulty, suitable, allowed>>
  BY DEF hostVars, world
<1>2. ~fatal /\ Built /\ Carried = 20  BY AtReadback
<1>3. TypeOK'
  <2>1. answer' \in {"none", "ok", "failed", "unnoticed"} /\ pc' \in {"ready", "waiting", "asked", "mapped", "done"}
    OBVIOUS
  <2>2. QED  BY <1>1, <2>1, ZenonT(60) DEF WalkInv, TypeOK
<1>4. Phases' /\ Answers' /\ FatalStops'
  BY <1>1, <1>2, WalkTable DEF WalkInv, Phases, Answers, FatalStops
<1>5. Chosen'  BY <1>1 DEF WalkInv, Chosen, FirstSuitable
<1>6. Built'
  <2>1. Carried' = Carried  BY <1>1 DEF Carried
  <2>2. QED  BY <1>1, <1>2, <2>1 DEF Built, Missing, NotSubmitted, Running, Cleared
<1>7. PassMeansCleared' /\ FaultlessPasses' /\ verdict' # "pass"
  BY <1>1 DEF WalkInv, Phases, PassMeansCleared, FaultlessPasses, OnlyDeviceDangles, FirstSuitable
<1>8. QED  BY <1>1, <1>3, <1>4, <1>5, <1>6, <1>7 DEF WalkInv

\* The blob is asked for, and the server answers.
LEMMA BlobInv ==
  ASSUME WalkInv, RequestBlob \/ ServeBlob
  PROVE  WalkInv'
<1>1. /\ pc \in {"ready", "asked"} /\ step = 21 /\ flight = "none" /\ pc' = "asked"
      /\ UNCHANGED <<step, verdict, cause, memType, flight, hostVars, world>>
  BY WalkTable DEF RequestBlob, ServeBlob, WalkInv, Phases, clientVars
<1>2. "memory" \in objects  BY <1>1, AtReadback
<1>3. answer' \in {"none", "ok", "failed"} /\ (answer' = "failed" => faulty)
  BY <1>2 DEF RequestBlob, ServeBlob
<1>4. QED  BY <1>1, <1>3, ReadbackInv

\* The blob is mapped, or its absence ends the walk.
LEMMA MapMemoryInv ==
  ASSUME WalkInv, MapMemory
  PROVE  WalkInv'
<1>1. /\ pc = "asked" /\ step = 21 /\ flight = "none" /\ answer # "none"
      /\ UNCHANGED <<memType, flight, answer, hostVars, world>>
  BY WalkTable DEF MapMemory, WalkInv, Phases
<1>2. CASE answer = "ok"
  <2>1. pc' = "mapped" /\ UNCHANGED <<step, verdict, cause>>  BY <1>2 DEF MapMemory
  <2>2. QED  BY <1>1, <1>2, <2>1, ReadbackInv
<1>3. CASE answer # "ok"
  <2>1. faulty  BY <1>1, <1>3 DEF WalkInv, TypeOK, Answers
  <2>2. Stop("readback")  BY <1>3 DEF MapMemory
  <2>3. QED  BY <1>1, <2>1, <2>2, StopInv
<1>4. QED  BY <1>2, <1>3

\* The first row is compared: by now the device has run the clear.
LEMMA ReadTexelsInv ==
  ASSUME WalkInv, ReadTexels
  PROVE  WalkInv'
<1>1. /\ pc = "mapped" /\ step = 21 /\ flight = "none"
      /\ UNCHANGED <<memType, flight, answer, objects, bound, cmdbuf, pending, fence, texels, layout,
                     fatal, dangling, faulty, suitable, allowed>>
  BY WalkTable DEF ReadTexels, WalkInv, Phases, hostVars, world
<1>2. ~fatal  BY <1>1, AtReadback
<1>3. Built /\ Carried = 20  BY <1>1, AtReadback
<1>4. Cleared /\ bound /\ cmdbuf.list = <<"CmdPipelineBarrier", "CmdClearColorImage">>
  BY <1>3 DEF Built, Running, Cleared
<1>5. pc' = "done" /\ verdict' = "pass" /\ UNCHANGED <<step, cause>>
  BY <1>4 DEF ReadTexels, Cleared, MainVerdict
<1>6. TypeOK'  BY <1>1, <1>5 DEF WalkInv, TypeOK
<1>7. Phases' /\ Answers' /\ FatalStops'
  BY <1>1, <1>2, <1>5 DEF WalkInv, Phases, Answers, FatalStops
<1>8. Chosen'  BY <1>1, <1>5 DEF WalkInv, Chosen, FirstSuitable
<1>9. Cleared'  BY <1>1, <1>4 DEF Cleared
<1>10. "CmdClearColorImage" \in Executed'  BY <1>1, <1>4 DEF Executed
<1>11. PassMeansCleared'
  BY <1>1, <1>2, <1>4, <1>9, <1>10 DEF PassMeansCleared, Cleared
<1>12. FaultlessPasses'  BY <1>1, <1>5 DEF WalkInv, FaultlessPasses, OnlyDeviceDangles
<1>13. QED
  BY <1>1, <1>2, <1>4, <1>5, <1>6, <1>7, <1>8, <1>9, <1>11, <1>12 DEF WalkInv

\* The renderer carries out the command.
LEMMA HostExecInv ==
  ASSUME WalkInv, HostExec
  PROVE  WalkInv'
<1> DEFINE c == Current
<1>1. /\ flight = "sent" /\ ~fatal /\ flight' = "consumed"
      /\ answer' = IF c.reply THEN "ok" ELSE "none"
      /\ UNCHANGED <<step, pc, verdict, cause, memType, fence, texels, layout, fatal, dangling,
                     faulty, suitable, allowed>>
      /\ c.cmd = "WaitForFences" => fence
      /\ Effect(c)
  BY DEF HostExec, clientVars, world
<1>2. step \in 1 .. 20 /\ Len(Walk) = 20 /\ Built /\ verdict # "pass"
  BY <1>1, StateFacts DEF WalkInv
<1>3. /\ c = Walk[step] /\ (c.reply <=> step \notin {15, 16})
      /\ "memory" \in c.makes <=> step = 10
      /\ c.cmd = "BindImageMemory" <=> step = 11
      /\ c.cmd = "BeginCommandBuffer" <=> step = 14
      /\ c.cmd = "CmdPipelineBarrier" <=> step = 15
      /\ c.cmd = "CmdClearColorImage" <=> step = 16
      /\ c.cmd = "EndCommandBuffer" <=> step = 17
      /\ c.cmd = "QueueSubmit" <=> step = 19
      /\ c.cmd = "WaitForFences" <=> step = 20
  BY <1>2, Places DEF Current
<1> HIDE DEF c
<1>4. /\ objects' = objects \cup c.makes
      /\ bound' = (bound \/ step = 11)
      /\ cmdbuf' = CASE step = 14 -> [state |-> "recording", list |-> << >>]
                     [] step \in {15, 16} -> [cmdbuf EXCEPT !.list = Append(@, c.cmd)]
                     [] step = 17 -> [cmdbuf EXCEPT !.state = "executable"]
                     [] OTHER -> cmdbuf
      /\ pending' = IF step = 19 THEN Append(pending, cmdbuf.list) ELSE pending
  BY <1>1, <1>2, <1>3 DEF Effect
<1>5. Carried = step - 1 /\ Carried' = step  BY <1>1, <1>2, <1>3 DEF Carried
<1> DEFINE B == "CmdPipelineBarrier"
           C == "CmdClearColorImage"
           Type == [state : {"initial", "recording", "executable"}, list : Seq({B, C})]
<1>6. /\ cmdbuf' \in Type
      /\ cmdbuf'.list = IF step < 15 THEN << >> ELSE IF step = 15 THEN <<B>> ELSE <<B, C>>
  <2>1. /\ cmdbuf \in Type
        /\ cmdbuf.list = IF step - 1 < 15 THEN << >> ELSE IF step - 1 = 15 THEN <<B>> ELSE <<B, C>>
    BY <1>2, <1>5 DEF WalkInv, TypeOK, Built
  <2>2. CASE step < 14  BY <1>2, <1>4, <2>1, <2>2, SMTT(30)
  <2>3. CASE step = 14  BY <1>4, <2>1, <2>3
  <2>4. CASE step = 15
    <3>1. cmdbuf' = [cmdbuf EXCEPT !.list = Append(@, B)] /\ cmdbuf.list = << >>
      BY <1>3, <1>4, <2>1, <2>4
    <3>2. cmdbuf' = [state |-> cmdbuf.state, list |-> <<B>>]
      <4>1. cmdbuf = [state |-> cmdbuf.state, list |-> << >>]  BY <2>1, <3>1
      <4>2. Append(<< >>, B) = <<B>>  OBVIOUS
      <4>3. QED  BY <3>1, <4>1, <4>2
    <3>3. <<B>> \in Seq({B, C})  OBVIOUS
    <3>4. QED  BY <2>1, <2>4, <3>2, <3>3
  <2>5. CASE step = 16
    <3>1. cmdbuf' = [cmdbuf EXCEPT !.list = Append(@, C)] /\ cmdbuf.list = <<B>>
      BY <1>3, <1>4, <2>1, <2>5
    <3>2. cmdbuf' = [state |-> cmdbuf.state, list |-> <<B, C>>]
      <4>1. cmdbuf = [state |-> cmdbuf.state, list |-> <<B>>]  BY <2>1, <3>1
      <4>2. Append(<<B>>, C) = <<B, C>>  BY TwoLong
      <4>3. QED  BY <3>1, <4>1, <4>2
    <3>3. <<B, C>> \in Seq({B, C})  OBVIOUS
    <3>4. QED  BY <2>1, <2>5, <3>2, <3>3
  <2>6. CASE step = 17
    <3>1. cmdbuf' = [cmdbuf EXCEPT !.state = "executable"]  BY <1>4, <2>6
    <3>2. QED  BY <2>1, <2>6, <3>1
  <2>7. CASE step > 17  BY <1>2, <1>4, <2>1, <2>7, SMTT(30)
  <2>8. QED  BY <1>2, <2>2, <2>3, <2>4, <2>5, <2>6, <2>7
<1>7. TypeOK'
  <2>1. answer' \in {"none", "ok", "failed", "unnoticed"}  BY <1>1
  <2>2. QED  BY <1>1, <1>6, <2>1 DEF WalkInv, TypeOK
<1>8. Phases' /\ FatalStops'  BY <1>1, <1>2 DEF WalkInv, Phases, FatalStops
<1>9. Answers'
  <2>1. Current' = c  BY <1>1, <1>3 DEF Current
  <2>2. QED  BY <1>1, <2>1 DEF WalkInv, Answers
<1>10. Chosen'
  <2>1. FirstSuitable' = FirstSuitable  BY <1>1 DEF FirstSuitable
  <2>2. "memory" \in objects' => step > 9  BY <1>2, <1>3, <1>4 DEF WalkInv, Chosen
  <2>3. QED  BY <1>1, <2>1, <2>2 DEF WalkInv, Chosen
<1>11. Built'
  <2>1. \A i \in 1 .. step : Walk[i].makes \subseteq objects' \cup Missing'
    <3>1. \A i \in 1 .. step - 1 : Walk[i].makes \subseteq objects \cup Missing  BY <1>2, <1>5 DEF Built
    <3>2. \A i \in 1 .. step : i = step \/ i \in 1 .. step - 1  BY <1>2
    <3>3. Walk[step].makes \subseteq objects' /\ objects \subseteq objects'  BY <1>3, <1>4
    <3>4. Missing \subseteq objects \cup Missing'
      <4>1. step = 4 => "physdev" \in objects
        BY <1>1, <1>3, WalkTable DEF HostExec, Call, Current
      <4>2. QED  BY <1>1, <1>2, <1>5, <4>1 DEF Missing
    <3>5. QED  BY <3>1, <3>2, <3>3, <3>4
  <2>2. step >= 11 => bound'
    <3>1. step - 1 >= 11 => bound  BY <1>2, <1>5 DEF Built
    <3>2. bound \/ step = 11 => bound'  BY <1>4
    <3>3. QED  BY <1>2, <3>1, <3>2
  <2>3. IF step < 19 THEN NotSubmitted' ELSE Running' \/ Cleared'
    <3>1. CASE step < 19
      BY <1>1, <1>2, <1>4, <1>5, <3>1 DEF Built, NotSubmitted
    <3>2. CASE step = 19
      <4>1. pending = << >> /\ ~fence /\ cmdbuf.list = <<B, C>>
        BY <1>2, <1>5, <3>2 DEF Built, NotSubmitted
      <4>2. pending' = <<<<B, C>>>>  BY <1>4, <3>2, <4>1
      <4>3. QED  BY <1>1, <3>2, <4>1, <4>2 DEF Running
    <3>3. CASE step = 20
      BY <1>1, <1>2, <1>4, <1>5, <3>3 DEF Built, Running, Cleared
    <3>4. QED  BY <1>2, <3>1, <3>2, <3>3
  <2>4. step = 20 => fence'  BY <1>1, <1>3
  <2>5. QED  BY <1>5, <1>6, <2>1, <2>2, <2>3, <2>4 DEF Built
<1>12. PassMeansCleared' /\ FaultlessPasses'
  BY <1>1, <1>2 DEF WalkInv, PassMeansCleared, FaultlessPasses, OnlyDeviceDangles, FirstSuitable
<1>13. QED  BY <1>1, <1>2, <1>7, <1>8, <1>9, <1>10, <1>11, <1>12 DEF WalkInv

\* The renderer fails the command, rejects it, or passes it over.
LEMMA HostRefusesInv ==
  ASSUME WalkInv, HostFails \/ HostRejects \/ HostSkips
  PROVE  WalkInv'
<1>1. /\ flight = "sent" /\ flight' = "consumed"
      /\ UNCHANGED <<step, pc, verdict, cause, memType, objects, bound, cmdbuf, pending, fence,
                     texels, layout, faulty, suitable, allowed>>
  BY DEF HostFails, HostRejects, HostSkips, clientVars, hostVars, world
<1>2. step \in 1 .. 20 /\ Len(Walk) = 20 /\ verdict # "pass" /\ answer = "none"
  BY <1>1, StateFacts DEF WalkInv, Phases
<1>3. /\ answer' \in {"none", "failed", "unnoticed"}
      /\ answer' # "none" => faulty /\ ~fatal /\ UNCHANGED <<fatal, dangling>>
      /\ answer' = "unnoticed" => step \in {2, 3}
      /\ answer' = "none" => fatal'
      /\ fatal' => faulty
      /\ OnlyDeviceDangles'
  <2>1. CASE HostFails
    <3>1. Current.cmd \in Enumerations => step \in {2, 3}  BY <1>2, Places DEF Current
    <3>2. QED  BY <1>1, <1>2, <2>1, <3>1
          DEF HostFails, hostVars, WalkInv, Answers, FaultlessPasses, OnlyDeviceDangles
  <2>2. CASE HostRejects
    <3>1. Current.needs \subseteq objects \/ (faulty /\ step = 4)
      BY <2>2, StateFacts DEF HostRejects
    <3>2. faulty /\ fatal' = TRUE /\ UNCHANGED answer  BY <2>2, <3>1 DEF HostRejects
    <3>3. OnlyDeviceDangles'
      BY <1>1, <2>2, <3>1, <3>2 DEF HostRejects, WalkInv, FaultlessPasses, OnlyDeviceDangles
    <3>4. QED  BY <1>2, <3>2, <3>3
  <2>3. CASE HostSkips
    BY <1>1, <1>2, <2>3 DEF HostSkips, hostVars, WalkInv, Answers, FaultlessPasses, OnlyDeviceDangles
  <2>4. QED  BY <2>1, <2>2, <2>3
<1>4. TypeOK'
  <2>1. answer' \in {"none", "ok", "failed", "unnoticed"} /\ flight' \in {"none", "sent", "consumed"}
    BY <1>1, <1>3
  <2>2. QED  BY <1>1, <2>1, ZenonT(60) DEF WalkInv, TypeOK
<1>5. Phases' /\ Answers' /\ FatalStops'
  BY <1>1, <1>2, <1>3 DEF WalkInv, Phases, Answers, FatalStops
<1>6. Chosen'  BY <1>1 DEF WalkInv, Chosen, FirstSuitable
<1>7. ~fatal' => Built'
  <2>1. SUFFICES ASSUME ~fatal' PROVE Built'  OBVIOUS
  <2>2. answer' \in {"failed", "unnoticed"} /\ ~fatal /\ faulty  BY <1>3, <2>1
  <2>3. Built /\ Carried = step - 1  BY <1>1, <2>2, StateFacts DEF Carried
  <2>4. CASE answer' = "failed"
    <3>1. Carried' = Carried  BY <1>1, <2>3, <2>4 DEF Carried
    <3>2. QED  BY <1>1, <2>3, <3>1 DEF Built, Missing, NotSubmitted, Running, Cleared
  <2>5. CASE answer' = "unnoticed"
    <3>1. Carried' = step /\ step \in {2, 3}  BY <1>1, <1>3, <2>5 DEF Carried
    <3>2. Missing = {"physdev"} /\ Missing' = {"physdev"}  BY <1>1, <2>2, <2>3, <3>1 DEF Missing
    <3>3. \A i \in 1 .. step - 1 : Walk[i].makes \subseteq objects \cup Missing  BY <2>3 DEF Built
    <3>4. Walk[step].makes \subseteq {"physdev"}  BY <1>2, <3>1, Places
    <3>5. \A i \in 1 .. step : Walk[i].makes \subseteq objects \cup Missing
      <4>1. \A i \in 1 .. step : i = step \/ i \in 1 .. step - 1  BY <1>2
      <4>2. QED  BY <3>2, <3>3, <3>4, <4>1
    <3>6. cmdbuf.list = << >> /\ NotSubmitted  BY <2>3, <3>1 DEF Built
    <3>7. NotSubmitted'  BY <1>1, <3>6 DEF NotSubmitted
    <3>8. QED  BY <1>1, <3>1, <3>2, <3>5, <3>6, <3>7 DEF Built
  <2>6. QED  BY <2>2, <2>4, <2>5
<1>8. PassMeansCleared' /\ FaultlessPasses'
  BY <1>1, <1>2, <1>3 DEF WalkInv, PassMeansCleared, FaultlessPasses, OnlyDeviceDangles, FirstSuitable
<1>9. QED  BY <1>1, <1>2, <1>4, <1>5, <1>6, <1>7, <1>8 DEF WalkInv

\* The device executes the submission.
LEMMA DeviceExecutesInv ==
  ASSUME WalkInv, DeviceExecutes
  PROVE  WalkInv'
<1> DEFINE list == pending[1]
           general == layout = "general" \/ (list # << >> /\ list[1] = "CmdPipelineBarrier")
           clears == "CmdClearColorImage" \in {list[i] : i \in DOMAIN list}
<1>1. /\ pending # << >> /\ pending' = Tail(pending) /\ fence' = TRUE
      /\ texels' = IF bound /\ general /\ clears THEN "clear" ELSE texels
      /\ layout' = IF general THEN "general" ELSE layout
      /\ UNCHANGED <<step, pc, verdict, cause, memType, flight, answer, objects, bound, cmdbuf, fatal,
                     dangling, faulty, suitable, allowed>>
  BY DEF DeviceExecutes, clientVars, world
<1>2. verdict # "pass"  BY <1>1 DEF WalkInv, PassMeansCleared
<1>3. TypeOK'  BY <1>1, ZenonT(60) DEF WalkInv, TypeOK
<1>4. Phases' /\ Answers' /\ FatalStops'
  BY <1>1 DEF WalkInv, Phases, Answers, FatalStops, Current
<1>5. Chosen'  BY <1>1 DEF WalkInv, Chosen, FirstSuitable
<1>6. ASSUME Built PROVE Built'
  <2>1. Running /\ Carried >= 19 /\ bound
    BY <1>1, <1>6, StateFacts DEF Built, NotSubmitted, Cleared, Carried
  <2>2. list = <<"CmdPipelineBarrier", "CmdClearColorImage">> /\ pending' = << >>
    BY <1>1, <2>1 DEF Running
  <2>3. general /\ clears  BY <2>2
  <2>4. Cleared'  BY <1>1, <2>1, <2>2, <2>3 DEF Cleared
  <2>5. Carried' = Carried  BY <1>1 DEF Carried
  <2>6. (\A i \in 1 .. Carried' : Walk[i].makes \subseteq objects' \cup Missing') /\ bound' /\ fence'
    BY <1>1, <1>6, <2>1, <2>5 DEF Built, Missing
  <2>7. (cmdbuf.list)' = IF Carried' < 15 THEN << >> ELSE IF Carried' = 15 THEN <<"CmdPipelineBarrier">>
                         ELSE <<"CmdPipelineBarrier", "CmdClearColorImage">>
    BY <1>1, <1>6, <2>5 DEF Built
  <2>8. Carried' \in Nat /\ ~(Carried' < 19)  BY <2>1, <2>5, StateFacts DEF Carried
  <2>9. QED  BY <2>4, <2>6, <2>7, <2>8 DEF Built
<1>7. PassMeansCleared' /\ FaultlessPasses'
  BY <1>1, <1>2 DEF WalkInv, PassMeansCleared, FaultlessPasses, OnlyDeviceDangles, FirstSuitable
<1>8. QED  BY <1>1, <1>2, <1>3, <1>4, <1>5, <1>6, <1>7 DEF WalkInv

-----------------------------------------------------------------------------
(* The theorems.                                                           *)

\* Before the first command.
LEMMA InitInv == Init => WalkInv
<1> SUFFICES ASSUME Init PROVE WalkInv  OBVIOUS
<1>1. Len(Walk) = 20 /\ Cardinality({}) = 0  BY WalkTable, FS_EmptySet
<1>2. TypeOK  BY <1>1 DEF Init, TypeOK
<1>3. Phases /\ Answers /\ FatalStops /\ Chosen
  BY <1>1 DEF Init, Phases, Answers, FatalStops, Chosen
<1>4. Built  BY DEF Init, Built, Carried, NotSubmitted
<1>5. PassMeansCleared /\ FaultlessPasses /\ verdict # "pass"
  BY DEF Init, PassMeansCleared, FaultlessPasses, OnlyDeviceDangles
<1>6. QED  BY <1>2, <1>3, <1>4, <1>5 DEF WalkInv

\* One step of client, host, device or deadline.
LEMMA StepInv == WalkInv /\ [Next]_vars => WalkInv'
<1> SUFFICES ASSUME WalkInv, [Next]_vars PROVE WalkInv'  OBVIOUS
<1>1. CASE Timeout
  BY <1>1, StopInv DEF Timeout
<1>2. CASE UNCHANGED vars
  <2>1. UNCHANGED <<step, pc, verdict, cause, memType, flight, answer, objects, bound, cmdbuf,
                    pending, fence, texels, layout, fatal, dangling, faulty, suitable, allowed>>
    BY <1>2 DEF vars, clientVars, hostVars, world
  <2>2. TypeOK'
    <3>1. cmdbuf' = cmdbuf /\ Len(Walk)' = Len(Walk)  BY <2>1
    <3>2. QED  BY <2>1, <3>1, ZenonT(60) DEF WalkInv, TypeOK
  <2>7. Phases'  BY <2>1 DEF WalkInv, Phases
  <2>3. Answers' /\ FatalStops' /\ Chosen'
    BY <2>1 DEF WalkInv, Answers, FatalStops, Chosen, Current, FirstSuitable
  <2>4. Built' = Built  BY <2>1 DEF Built, Missing, Carried, NotSubmitted, Running, Cleared
  <2>5. PassMeansCleared' /\ FaultlessPasses' /\ Cleared' = Cleared
    BY <2>1 DEF WalkInv, PassMeansCleared, FaultlessPasses, OnlyDeviceDangles, Executed, Cleared, FirstSuitable
  <2>6. QED  BY <2>1, <2>2, <2>3, <2>4, <2>5, <2>7 DEF WalkInv
<1>3. QED
  BY <1>1, <1>2, SubmitInv, FinishInv, BlobInv, MapMemoryInv, ReadTexelsInv, HostExecInv, HostRefusesInv,
     DeviceExecutesInv
  DEF Next, Client, Host

\* The inductive invariant of the walk: the replies that VenusClearImage has
\* accepted pin down what the renderer has built, although it never looks at
\* the renderer's state and two of its commands have no reply.
THEOREM WalkInvariant == Spec => []WalkInv
  BY InitInv, StepInv, PTL DEF Spec

\* A PASS of cmd/venusclear means that the clear was recorded, executed to
\* fence completion on the bound memory, and read back from there, whatever
\* the host fails, rejects or delays.
THEOREM WalkPassMeansCleared == Spec => []PassMeansCleared
<1>1. WalkInv => PassMeansCleared  BY DEF WalkInv
<1>2. QED  BY <1>1, WalkInvariant, PTL

\* When VenusClearImage maps the memory, no submission is left that could
\* still write it.
THEOREM WalkReadWhenQuiet == Spec => []ReadWhenQuiet
<1>1. WalkInv => ReadWhenQuiet
  <2> SUFFICES ASSUME WalkInv, pc = "mapped" PROVE pending = << >>  BY DEF ReadWhenQuiet
  <2>1. step = 21 /\ flight = "none"  BY WalkTable DEF WalkInv, Phases
  <2>2. Built /\ Carried = 20  BY <2>1, AtReadback
  <2>3. QED  BY <2>2 DEF Built, Running, Cleared
<1>2. QED  BY <1>1, WalkInvariant, PTL

\* Memory is allocated only from a type that VenusClearImage found
\* HOST_VISIBLE|COHERENT and the image allows, for any number of types.
THEOREM WalkAllocatedTypeFits == Spec => []AllocatedTypeFits
<1>1. WalkInv => AllocatedTypeFits
  <2> SUFFICES ASSUME WalkInv, "memory" \in objects
               PROVE  memType # {} /\ memType \subseteq suitable \cap allowed
    BY DEF AllocatedTypeFits
  <2>1. step > 9 /\ step \in 1 .. 21  BY StateFacts DEF WalkInv, Chosen
  <2>2. FirstSuitable \subseteq suitable  BY DEF FirstSuitable
  <2>3. QED  BY <2>1, <2>2 DEF WalkInv, Chosen
<1>2. QED  BY <1>1, WalkInvariant, PTL

\* A host that fails nothing is reported as failing only for a deadline or for
\* its memory types; and on any host the only object a command names without
\* its existing is the physical device after an enumeration whose VkResult was
\* dropped, where the walk ends.
THEOREM WalkFaultlessPasses == Spec => []FaultlessPasses
<1>1. WalkInv => FaultlessPasses  BY DEF WalkInv
<1>2. QED  BY <1>1, WalkInvariant, PTL
=============================================================================
