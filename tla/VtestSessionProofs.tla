------------------------- MODULE VtestSessionProofs -------------------------
(***************************************************************************)
(* Proofs about VtestSession: for every set of programs, every version the *)
(* server may speak, every length of a capset, and a server that may die   *)
(* at any request or never does.                                           *)
(*                                                                         *)
(* A session follows its script, so the first part settles once and for    *)
(* all what every step of every script is followed by.  The rest never     *)
(* opens a script again: it has one lemma for each step of the client, the *)
(* server and the ring's consumer, and these rest on a few about kinds of  *)
(* steps (one that leaves the socket alone, one that fails, one that       *)
(* leaves the ring or the books alone).                                    *)
(***************************************************************************)
EXTENDS VtestSession, Integers, SequenceTheorems, TLAPS

-----------------------------------------------------------------------------
(* The scripts.                                                            *)

Blobs == {"none", "ring", "reply", "memory"}
Programs == {"gl0", "gl1", "gl2", "ring", "clear"}

\* A step s that sends, the i-th of m, with t after it: where the opcodes may
\* stand, and that the read of the reply follows at once.
Sending(m, i, s, t) ==
  /\ s.cmd \in Cmds /\ s.blob \in Blobs
  /\ s.cmd = "create_renderer" <=> i = 1
  /\ s.cmd \in VenusCmd => m \notin GLModes /\ i > 6
  /\ s.cmd \in {"create_blob", "submit_cmd2"} => i > 14
  /\ s.cmd = "submit_cmd2" => i > 20
  /\ IF s.cmd \in HasReply
     THEN t.do = "recv" /\ t.cmd = s.cmd /\ Before(t.parts) = 0
     ELSE t.do # "recv"

\* A step s that reads: which part of which reply, and that a reply is read to its
\* end before anything else happens.
ReadsOn(s, t) == t.do = "recv" /\ t.cmd = s.cmd
Reading(m, i, s, t) ==
  /\ i > 2
  /\ s.cmd \in HasReply /\ s.blob \in Blobs
  /\ s.cmd = "version" => i <= 6
  /\ \/ s.cmd = "ping" /\ s.parts = <<"header">> /\ t.do # "recv"
     \/ s.cmd = "transfer_get" /\ s.parts = <<"pixels">> /\ t.do # "recv"
     \/ s.cmd = "version" /\ s.parts = <<"header">> /\ ReadsOn(s, t) /\ t.parts = <<"version">>
     \/ s.cmd = "version" /\ s.parts = <<"version">> /\ t.do # "recv" /\ i = 6
     \/ s.cmd = "get_param" /\ s.parts = <<"header">> /\ ReadsOn(s, t) /\ t.parts = <<"valid", "value">>
     \/ s.cmd = "get_param" /\ s.parts = <<"valid", "value">> /\ t.do # "recv"
     \/ s.cmd = "get_capset" /\ s.parts = <<"header">> /\ ReadsOn(s, t) /\ t.parts = <<"valid">>
     \/ s.cmd = "get_capset" /\ s.parts = <<"valid">> /\ ReadsOn(s, t) /\ t.parts = <<"body">>
     \/ s.cmd = "get_capset" /\ s.parts = <<"body">> /\ t.do # "recv"
     \/ s.cmd = "create_blob" /\ s.parts = <<"header">> /\ ReadsOn(s, t) /\ t.parts = <<"res_id">>
     \/ s.cmd = "create_blob" /\ s.parts = <<"res_id">> /\ ReadsOn(s, t) /\ t.parts = <<"fd">>
     \/ s.cmd = "create_blob" /\ s.parts = <<"fd">> /\ t.do = "mmap" /\ t.blob = s.blob

\* s may come i-th in m, and then t.
Fits(m, i, s, t) ==
  /\ s.do \in {"send", "recv", "mmap", "zero", "sample", "write", "poll", "check", "walk", "texels"}
  /\ s.do = "send" => t.do # "end" /\ Sending(m, i, s, t)
  /\ s.do = "recv" => Reading(m, i, s, t)
  /\ s.do # "recv" /\ s.do # "send" => t.do # "recv"
  /\ t.do = "mmap" => s.do = "recv" /\ s.parts = <<"fd">>
  /\ i = 1 => s.do = "send"
  /\ i = 3 => s.do = "recv"
  /\ s.do = "mmap" <=> m \notin GLModes /\ (i = 19 \/ (m = "clear" /\ i \in {26, 32}))
  /\ s.do = "mmap" => s.blob = IF i = 19 THEN "ring" ELSE IF i = 26 THEN "reply" ELSE "memory"
  /\ m \notin GLModes /\ i \in {6, 13} => s.do = "recv"
  /\ m \notin GLModes /\ i = 6 => s.cmd = "version" /\ s.parts = <<"version">>
  /\ m \notin GLModes /\ i = 14 => s.do = "send" /\ s.cmd = "context_init"
  /\ s.do = "zero" <=> m \notin GLModes /\ i = 20
  /\ s.do = "sample" <=> m = "ring" /\ i = 22
  /\ s.do = "write" <=> m = "ring" /\ i = 23
  /\ s.do = "poll" <=> m = "ring" /\ i = 24
  /\ m = "ring" => (t.do = "end" <=> i = 24)

\* After the last step.
Nothing == Local("end", "none")
Follow(m, i) == IF i < Len(Script(m)) THEN Script(m)[i + 1] ELSE Nothing

\* Short names for the steps of the scripts.
Ask(blob) == [Send("create_blob") EXCEPT !.blob = blob]
Get(cmd, part) == Recv(cmd, <<part>>)
GetBoth == Recv("get_param", <<"valid", "value">>)
GetFD(blob) == [Recv("create_blob", <<"fd">>) EXCEPT !.blob = blob]
Comes(m, i, s, t) == Script(m)[i] = s /\ Follow(m, i) = t
StepOK(m, i) == Fits(m, i, Script(m)[i], Follow(m, i))

\* VenusRingRoundTrip, step by step.
LEMMA RingScript ==
  /\ Len(Script("ring")) = 24
  /\ Comes("ring", 1, Send("create_renderer"), Send("ping"))
  /\ Comes("ring", 2, Send("ping"), Get("ping", "header"))
  /\ Comes("ring", 3, Get("ping", "header"), Send("version"))
  /\ Comes("ring", 4, Send("version"), Get("version", "header"))
  /\ Comes("ring", 5, Get("version", "header"), Get("version", "version"))
  /\ Comes("ring", 6, Get("version", "version"), Send("get_param"))
  /\ Comes("ring", 7, Send("get_param"), Get("get_param", "header"))
  /\ Comes("ring", 8, Get("get_param", "header"), GetBoth)
  /\ Comes("ring", 9, GetBoth, Send("get_capset"))
  /\ Comes("ring", 10, Send("get_capset"), Get("get_capset", "header"))
  /\ Comes("ring", 11, Get("get_capset", "header"), Get("get_capset", "valid"))
  /\ Comes("ring", 12, Get("get_capset", "valid"), Get("get_capset", "body"))
  /\ Comes("ring", 13, Get("get_capset", "body"), Send("context_init"))
  /\ Comes("ring", 14, Send("context_init"), Ask("ring"))
  /\ Comes("ring", 15, Ask("ring"), Get("create_blob", "header"))
  /\ Comes("ring", 16, Get("create_blob", "header"), Get("create_blob", "res_id"))
  /\ Comes("ring", 17, Get("create_blob", "res_id"), GetFD("ring"))
  /\ Comes("ring", 18, GetFD("ring"), Local("mmap", "ring"))
  /\ Comes("ring", 19, Local("mmap", "ring"), Local("zero", "ring"))
  /\ Comes("ring", 20, Local("zero", "ring"), Send("submit_cmd2"))
  /\ Comes("ring", 21, Send("submit_cmd2"), Local("sample", "ring"))
  /\ Comes("ring", 22, Local("sample", "ring"), Local("write", "ring"))
  /\ Comes("ring", 23, Local("write", "ring"), Local("poll", "ring"))
  /\ Comes("ring", 24, Local("poll", "ring"), Nothing)
  BY SMTT(60) DEF Comes, Follow, Ask, Get, GetBoth, GetFD, Script, GLModes, VenusRingRoundTrip, SubmitCmd2,
         VenusBringUp, Handshake, GetParam, GetCapset, ContextInit, ResourceCreateBlob

\* VenusClearImage, step by step.
LEMMA ClearScript ==
  /\ Len(Script("clear")) = 33
  /\ Comes("clear", 1, Send("create_renderer"), Send("ping"))
  /\ Comes("clear", 2, Send("ping"), Get("ping", "header"))
  /\ Comes("clear", 3, Get("ping", "header"), Send("version"))
  /\ Comes("clear", 4, Send("version"), Get("version", "header"))
  /\ Comes("clear", 5, Get("version", "header"), Get("version", "version"))
  /\ Comes("clear", 6, Get("version", "version"), Send("get_param"))
  /\ Comes("clear", 7, Send("get_param"), Get("get_param", "header"))
  /\ Comes("clear", 8, Get("get_param", "header"), GetBoth)
  /\ Comes("clear", 9, GetBoth, Send("get_capset"))
  /\ Comes("clear", 10, Send("get_capset"), Get("get_capset", "header"))
  /\ Comes("clear", 11, Get("get_capset", "header"), Get("get_capset", "valid"))
  /\ Comes("clear", 12, Get("get_capset", "valid"), Get("get_capset", "body"))
  /\ Comes("clear", 13, Get("get_capset", "body"), Send("context_init"))
  /\ Comes("clear", 14, Send("context_init"), Ask("ring"))
  /\ Comes("clear", 15, Ask("ring"), Get("create_blob", "header"))
  /\ Comes("clear", 16, Get("create_blob", "header"), Get("create_blob", "res_id"))
  /\ Comes("clear", 17, Get("create_blob", "res_id"), GetFD("ring"))
  /\ Comes("clear", 18, GetFD("ring"), Local("mmap", "ring"))
  /\ Comes("clear", 19, Local("mmap", "ring"), Local("zero", "ring"))
  /\ Comes("clear", 20, Local("zero", "ring"), Send("submit_cmd2"))
  /\ Comes("clear", 21, Send("submit_cmd2"), Ask("reply"))
  /\ Comes("clear", 22, Ask("reply"), Get("create_blob", "header"))
  /\ Comes("clear", 23, Get("create_blob", "header"), Get("create_blob", "res_id"))
  /\ Comes("clear", 24, Get("create_blob", "res_id"), GetFD("reply"))
  /\ Comes("clear", 25, GetFD("reply"), Local("mmap", "reply"))
  /\ Comes("clear", 26, Local("mmap", "reply"), Local("walk", "ring"))
  /\ Comes("clear", 27, Local("walk", "ring"), Ask("memory"))
  /\ Comes("clear", 28, Ask("memory"), Get("create_blob", "header"))
  /\ Comes("clear", 29, Get("create_blob", "header"), Get("create_blob", "res_id"))
  /\ Comes("clear", 30, Get("create_blob", "res_id"), GetFD("memory"))
  /\ Comes("clear", 31, GetFD("memory"), Local("mmap", "memory"))
  /\ Comes("clear", 32, Local("mmap", "memory"), Local("texels", "memory"))
  /\ Comes("clear", 33, Local("texels", "memory"), Nothing)
  BY SMTT(60) DEF Comes, Follow, Ask, Get, GetBoth, GetFD, Script, GLModes, VenusClearImage, SubmitCmd2,
         VenusBringUp, Handshake, GetParam, GetCapset, ContextInit, ResourceCreateBlob

\* cmd/validator without either, step by step.
LEMMA GlNoneScript ==
  /\ Len(Script("gl0")) = 11
  /\ Comes("gl0", 1, Send("create_renderer"), Send("ping"))
  /\ Comes("gl0", 2, Send("ping"), Get("ping", "header"))
  /\ Comes("gl0", 3, Get("ping", "header"), Send("version"))
  /\ Comes("gl0", 4, Send("version"), Get("version", "header"))
  /\ Comes("gl0", 5, Get("version", "header"), Get("version", "version"))
  /\ Comes("gl0", 6, Get("version", "version"), Send("resource_create"))
  /\ Comes("gl0", 7, Send("resource_create"), Local("check", "none"))
  /\ Comes("gl0", 8, Local("check", "none"), Send("submit_cmd"))
  /\ Comes("gl0", 9, Send("submit_cmd"), Send("transfer_get"))
  /\ Comes("gl0", 10, Send("transfer_get"), Get("transfer_get", "pixels"))
  /\ Comes("gl0", 11, Get("transfer_get", "pixels"), Nothing)
  BY SMTT(60) DEF Comes, Follow, Ask, Get, GetBoth, GetFD, Script, GLModes, ValidatorMain, Handshake,
         CreateResource, TransferPut, SubmitCmd, TransferGet

\* cmd/validator with a vertex buffer.
LEMMA GlOneScript ==
  /\ Len(Script("gl1")) = 14
  /\ Comes("gl1", 1, Send("create_renderer"), Send("ping"))
  /\ Comes("gl1", 2, Send("ping"), Get("ping", "header"))
  /\ Comes("gl1", 3, Get("ping", "header"), Send("version"))
  /\ Comes("gl1", 4, Send("version"), Get("version", "header"))
  /\ Comes("gl1", 5, Get("version", "header"), Get("version", "version"))
  /\ Comes("gl1", 6, Get("version", "version"), Send("resource_create"))
  /\ Comes("gl1", 7, Send("resource_create"), Local("check", "none"))
  /\ Comes("gl1", 8, Local("check", "none"), Send("resource_create"))
  /\ Comes("gl1", 9, Send("resource_create"), Send("transfer_put"))
  /\ Comes("gl1", 10, Send("transfer_put"), Local("check", "none"))
  /\ Comes("gl1", 11, Local("check", "none"), Send("submit_cmd"))
  /\ Comes("gl1", 12, Send("submit_cmd"), Send("transfer_get"))
  /\ Comes("gl1", 13, Send("transfer_get"), Get("transfer_get", "pixels"))
  /\ Comes("gl1", 14, Get("transfer_get", "pixels"), Nothing)
  BY SMTT(60) DEF Comes, Follow, Ask, Get, GetBoth, GetFD, Script, GLModes, ValidatorMain, Handshake,
         CreateResource, TransferPut, SubmitCmd, TransferGet

\* cmd/validator with a vertex buffer and a texture.
LEMMA GlBothScript ==
  /\ Len(Script("gl2")) = 17
  /\ Comes("gl2", 1, Send("create_renderer"), Send("ping"))
  /\ Comes("gl2", 2, Send("ping"), Get("ping", "header"))
  /\ Comes("gl2", 3, Get("ping", "header"), Send("version"))
  /\ Comes("gl2", 4, Send("version"), Get("version", "header"))
  /\ Comes("gl2", 5, Get("version", "header"), Get("version", "version"))
  /\ Comes("gl2", 6, Get("version", "version"), Send("resource_create"))
  /\ Comes("gl2", 7, Send("resource_create"), Local("check", "none"))
  /\ Comes("gl2", 8, Local("check", "none"), Send("resource_create"))
  /\ Comes("gl2", 9, Send("resource_create"), Send("transfer_put"))
  /\ Comes("gl2", 10, Send("transfer_put"), Local("check", "none"))
  /\ Comes("gl2", 11, Local("check", "none"), Send("resource_create"))
  /\ Comes("gl2", 12, Send("resource_create"), Send("transfer_put"))
  /\ Comes("gl2", 13, Send("transfer_put"), Local("check", "none"))
  /\ Comes("gl2", 14, Local("check", "none"), Send("submit_cmd"))
  /\ Comes("gl2", 15, Send("submit_cmd"), Send("transfer_get"))
  /\ Comes("gl2", 16, Send("transfer_get"), Get("transfer_get", "pixels"))
  /\ Comes("gl2", 17, Get("transfer_get", "pixels"), Nothing)
  BY SMTT(60) DEF Comes, Follow, Ask, Get, GetBoth, GetFD, Script, GLModes, ValidatorMain, Handshake,
         CreateResource, TransferPut, SubmitCmd, TransferGet

\* The handshake, which every program starts with.
HandshakePart(m) ==
  /\ Fits(m, 1, Send("create_renderer"), Send("ping"))
  /\ Fits(m, 2, Send("ping"), Get("ping", "header"))
  /\ Fits(m, 3, Get("ping", "header"), Send("version"))
  /\ Fits(m, 4, Send("version"), Get("version", "header"))
  /\ Fits(m, 5, Get("version", "header"), Get("version", "version"))

\* The steps of the handshake.
LEMMA HandshakeFits ==
  ASSUME NEW m \in Programs  PROVE HandshakePart(m)
  BY SMTT(60)
  DEF Fits, Nothing, Send, Recv, Local, Ask, Get, GetBoth, GetFD, Sending, Reading, ReadsOn, Before,
      Cmds, HasReply, Blobs, VenusCmd, GLModes, Programs, HandshakePart

\* The bring-up and the clearing of the ring.
VenusPart(m) ==
  /\ Fits(m, 6, Get("version", "version"), Send("get_param"))
  /\ Fits(m, 7, Send("get_param"), Get("get_param", "header"))
  /\ Fits(m, 8, Get("get_param", "header"), GetBoth)
  /\ Fits(m, 9, GetBoth, Send("get_capset"))
  /\ Fits(m, 10, Send("get_capset"), Get("get_capset", "header"))
  /\ Fits(m, 11, Get("get_capset", "header"), Get("get_capset", "valid"))
  /\ Fits(m, 12, Get("get_capset", "valid"), Get("get_capset", "body"))
  /\ Fits(m, 13, Get("get_capset", "body"), Send("context_init"))
  /\ Fits(m, 14, Send("context_init"), Ask("ring"))
  /\ Fits(m, 15, Ask("ring"), Get("create_blob", "header"))
  /\ Fits(m, 16, Get("create_blob", "header"), Get("create_blob", "res_id"))
  /\ Fits(m, 17, Get("create_blob", "res_id"), GetFD("ring"))
  /\ Fits(m, 18, GetFD("ring"), Local("mmap", "ring"))
  /\ Fits(m, 19, Local("mmap", "ring"), Local("zero", "ring"))
  /\ Fits(m, 20, Local("zero", "ring"), Send("submit_cmd2"))

\* The steps that the Venus programs share.
LEMMA VenusFits ==
  ASSUME NEW m \in {"ring", "clear"}  PROVE VenusPart(m)
  BY SMTT(60)
  DEF Fits, Nothing, Send, Recv, Local, Ask, Get, GetBoth, GetFD, Sending, Reading, ReadsOn, Before,
      Cmds, HasReply, Blobs, VenusCmd, GLModes, Programs, VenusPart

\* The rest of the ring program.
LEMMA RingFits ==
  /\ Fits("ring", 21, Send("submit_cmd2"), Local("sample", "ring"))
  /\ Fits("ring", 22, Local("sample", "ring"), Local("write", "ring"))
  /\ Fits("ring", 23, Local("write", "ring"), Local("poll", "ring"))
  /\ Fits("ring", 24, Local("poll", "ring"), Nothing)
  BY SMTT(60)
  DEF Fits, Nothing, Send, Recv, Local, Ask, Get, GetBoth, GetFD, Sending, Reading, ReadsOn, Before,
      Cmds, HasReply, Blobs, VenusCmd, GLModes, Programs

\* The rest of the clear program.
LEMMA ClearFits ==
  /\ Fits("clear", 21, Send("submit_cmd2"), Ask("reply"))
  /\ Fits("clear", 22, Ask("reply"), Get("create_blob", "header"))
  /\ Fits("clear", 23, Get("create_blob", "header"), Get("create_blob", "res_id"))
  /\ Fits("clear", 24, Get("create_blob", "res_id"), GetFD("reply"))
  /\ Fits("clear", 25, GetFD("reply"), Local("mmap", "reply"))
  /\ Fits("clear", 26, Local("mmap", "reply"), Local("walk", "ring"))
  /\ Fits("clear", 27, Local("walk", "ring"), Ask("memory"))
  /\ Fits("clear", 28, Ask("memory"), Get("create_blob", "header"))
  /\ Fits("clear", 29, Get("create_blob", "header"), Get("create_blob", "res_id"))
  /\ Fits("clear", 30, Get("create_blob", "res_id"), GetFD("memory"))
  /\ Fits("clear", 31, GetFD("memory"), Local("mmap", "memory"))
  /\ Fits("clear", 32, Local("mmap", "memory"), Local("texels", "memory"))
  /\ Fits("clear", 33, Local("texels", "memory"), Nothing)
  BY SMTT(60)
  DEF Fits, Nothing, Send, Recv, Local, Ask, Get, GetBoth, GetFD, Sending, Reading, ReadsOn, Before,
      Cmds, HasReply, Blobs, VenusCmd, GLModes, Programs

\* The rest of cmd/validator without an upload.
LEMMA GlNoneFits ==
  /\ Fits("gl0", 6, Get("version", "version"), Send("resource_create"))
  /\ Fits("gl0", 7, Send("resource_create"), Local("check", "none"))
  /\ Fits("gl0", 8, Local("check", "none"), Send("submit_cmd"))
  /\ Fits("gl0", 9, Send("submit_cmd"), Send("transfer_get"))
  /\ Fits("gl0", 10, Send("transfer_get"), Get("transfer_get", "pixels"))
  /\ Fits("gl0", 11, Get("transfer_get", "pixels"), Nothing)
  BY SMTT(60)
  DEF Fits, Nothing, Send, Recv, Local, Ask, Get, GetBoth, GetFD, Sending, Reading, ReadsOn, Before,
      Cmds, HasReply, Blobs, VenusCmd, GLModes, Programs

\* The rest of cmd/validator with one upload.
LEMMA GlOneFits ==
  /\ Fits("gl1", 6, Get("version", "version"), Send("resource_create"))
  /\ Fits("gl1", 7, Send("resource_create"), Local("check", "none"))
  /\ Fits("gl1", 8, Local("check", "none"), Send("resource_create"))
  /\ Fits("gl1", 9, Send("resource_create"), Send("transfer_put"))
  /\ Fits("gl1", 10, Send("transfer_put"), Local("check", "none"))
  /\ Fits("gl1", 11, Local("check", "none"), Send("submit_cmd"))
  /\ Fits("gl1", 12, Send("submit_cmd"), Send("transfer_get"))
  /\ Fits("gl1", 13, Send("transfer_get"), Get("transfer_get", "pixels"))
  /\ Fits("gl1", 14, Get("transfer_get", "pixels"), Nothing)
  BY SMTT(60)
  DEF Fits, Nothing, Send, Recv, Local, Ask, Get, GetBoth, GetFD, Sending, Reading, ReadsOn, Before,
      Cmds, HasReply, Blobs, VenusCmd, GLModes, Programs

\* The rest of cmd/validator with both uploads.
LEMMA GlBothFits ==
  /\ Fits("gl2", 6, Get("version", "version"), Send("resource_create"))
  /\ Fits("gl2", 7, Send("resource_create"), Local("check", "none"))
  /\ Fits("gl2", 8, Local("check", "none"), Send("resource_create"))
  /\ Fits("gl2", 9, Send("resource_create"), Send("transfer_put"))
  /\ Fits("gl2", 10, Send("transfer_put"), Local("check", "none"))
  /\ Fits("gl2", 11, Local("check", "none"), Send("resource_create"))
  /\ Fits("gl2", 12, Send("resource_create"), Send("transfer_put"))
  /\ Fits("gl2", 13, Send("transfer_put"), Local("check", "none"))
  /\ Fits("gl2", 14, Local("check", "none"), Send("submit_cmd"))
  /\ Fits("gl2", 15, Send("submit_cmd"), Send("transfer_get"))
  /\ Fits("gl2", 16, Send("transfer_get"), Get("transfer_get", "pixels"))
  /\ Fits("gl2", 17, Get("transfer_get", "pixels"), Nothing)
<1>1. /\ Fits("gl2", 6, Get("version", "version"), Send("resource_create"))
      /\ Fits("gl2", 7, Send("resource_create"), Local("check", "none"))
      /\ Fits("gl2", 8, Local("check", "none"), Send("resource_create"))
      /\ Fits("gl2", 9, Send("resource_create"), Send("transfer_put"))
      /\ Fits("gl2", 10, Send("transfer_put"), Local("check", "none"))
      /\ Fits("gl2", 11, Local("check", "none"), Send("resource_create"))
  BY SMTT(60)
  DEF Fits, Nothing, Send, Recv, Local, Ask, Get, GetBoth, GetFD, Sending, Reading, ReadsOn, Before,
      Cmds, HasReply, Blobs, VenusCmd, GLModes, Programs
<1>2. /\ Fits("gl2", 12, Send("resource_create"), Send("transfer_put"))
      /\ Fits("gl2", 13, Send("transfer_put"), Local("check", "none"))
      /\ Fits("gl2", 14, Local("check", "none"), Send("submit_cmd"))
      /\ Fits("gl2", 15, Send("submit_cmd"), Send("transfer_get"))
      /\ Fits("gl2", 16, Send("transfer_get"), Get("transfer_get", "pixels"))
      /\ Fits("gl2", 17, Get("transfer_get", "pixels"), Nothing)
  BY SMTT(60)
  DEF Fits, Nothing, Send, Recv, Local, Ask, Get, GetBoth, GetFD, Sending, Reading, ReadsOn, Before,
      Cmds, HasReply, Blobs, VenusCmd, GLModes, Programs
<1>3. QED  BY <1>1, <1>2

\* Every step of VenusRingRoundTrip fits.
LEMMA RingSteps == \A i \in 1 .. 24 : StepOK("ring", i)
<1> HandshakePart("ring")  BY HandshakeFits DEF Programs
<1> VenusPart("ring")  BY VenusFits
<1>1. QED  BY RingScript, RingFits DEF StepOK, Comes, HandshakePart, VenusPart

\* Every step of VenusClearImage fits.
LEMMA ClearSteps == \A i \in 1 .. 33 : StepOK("clear", i)
<1> HandshakePart("clear")  BY HandshakeFits DEF Programs
<1> VenusPart("clear")  BY VenusFits
<1>1. QED  BY ClearScript, ClearFits DEF StepOK, Comes, HandshakePart, VenusPart

\* Every step of cmd/validator without uploads fits.
LEMMA GlNoneSteps == \A i \in 1 .. 11 : StepOK("gl0", i)
<1> HandshakePart("gl0")  BY HandshakeFits DEF Programs
<1>1. QED  BY GlNoneScript, GlNoneFits DEF StepOK, Comes, HandshakePart

\* Every step of cmd/validator with a vertex buffer fits.
LEMMA GlOneSteps == \A i \in 1 .. 14 : StepOK("gl1", i)
<1> HandshakePart("gl1")  BY HandshakeFits DEF Programs
<1>1. QED  BY GlOneScript, GlOneFits DEF StepOK, Comes, HandshakePart

\* Every step of cmd/validator with both uploads fits.
LEMMA GlBothSteps == \A i \in 1 .. 17 : StepOK("gl2", i)
<1> HandshakePart("gl2")  BY HandshakeFits DEF Programs
<1>1. QED  BY GlBothScript, GlBothFits DEF StepOK, Comes, HandshakePart

\* A script is longer than the handshake; the ring's ends with the poll.
LengthOK(m, n) == n \in Nat /\ n > 10 /\ (m = "ring" => n = 24)

\* The length of every program's script.
LEMMA ScriptLength ==
  ASSUME NEW m \in Programs
  PROVE  LengthOK(m, Len(Script(m)))
<1> DEFINE n == Len(Script(m))
<1> SUFFICES LengthOK(m, n)  OBVIOUS
<1> HIDE DEF n
<1>1. CASE m = "ring"
  <2>1. Len(Script("ring")) = 24  BY RingScript
  <2>2. n = 24  BY <1>1, <2>1, Zenon DEF n
  <2>3. QED  BY <1>1, <2>2 DEF LengthOK
<1>2. CASE m = "clear"
  <2>1. Len(Script("clear")) = 33  BY ClearScript
  <2>2. n = 33  BY <1>2, <2>1, Zenon DEF n
  <2>3. QED  BY <1>2, <2>2 DEF LengthOK
<1>3. CASE m = "gl0"
  <2>1. Len(Script("gl0")) = 11  BY GlNoneScript
  <2>2. n = 11  BY <1>3, <2>1, Zenon DEF n
  <2>3. QED  BY <1>3, <2>2 DEF LengthOK
<1>4. CASE m = "gl1"
  <2>1. Len(Script("gl1")) = 14  BY GlOneScript
  <2>2. n = 14  BY <1>4, <2>1, Zenon DEF n
  <2>3. QED  BY <1>4, <2>2 DEF LengthOK
<1>5. CASE m = "gl2"
  <2>1. Len(Script("gl2")) = 17  BY GlBothScript
  <2>2. n = 17  BY <1>5, <2>1, Zenon DEF n
  <2>3. QED  BY <1>5, <2>2 DEF LengthOK
<1>6. QED  BY <1>1, <1>2, <1>3, <1>4, <1>5 DEF Programs

\* Every step of every program fits the one that follows it.
LEMMA StepFacts ==
  ASSUME NEW m \in Programs, NEW i \in 1 .. Len(Script(m))
  PROVE  StepOK(m, i)
<1>1. CASE m = "ring"  BY <1>1, RingScript, RingSteps
<1>2. CASE m = "clear"  BY <1>2, ClearScript, ClearSteps
<1>3. CASE m = "gl0"  BY <1>3, GlNoneScript, GlNoneSteps
<1>4. CASE m = "gl1"  BY <1>4, GlOneScript, GlOneSteps
<1>5. CASE m = "gl2"  BY <1>5, GlBothScript, GlBothSteps
<1>6. QED  BY <1>1, <1>2, <1>3, <1>4, <1>5 DEF Programs

\* The step after the one the client is at, and that the two fit.
Upcoming == Follow(mode, ip)
Here == Fits(mode, ip, Step, Upcoming)

\* A running client is at a step of its script.
LEMMA Running ==
  ASSUME TypeOK, Course, state = "run"
  PROVE  /\ mode \in Programs
         /\ Here
         /\ ip \in Nat /\ ip >= 1 /\ ip <= Len(Script(mode))
<1>1. mode \in Programs  BY SessionAssumption DEF TypeOK, Programs
<1>2. Len(Script(mode)) \in Nat  BY <1>1, ScriptLength DEF LengthOK
<1>3. ip \in Nat /\ ip >= 1 /\ ip <= Len(Script(mode))  BY <1>2 DEF TypeOK, Course
<1>4. StepOK(mode, ip)  BY <1>1, <1>2, <1>3, StepFacts
<1>5. QED  BY <1>1, <1>3, <1>4 DEF StepOK, Here, Upcoming, Step

\* Advance goes to the following step, or ends the program after the last.
Onward(v) ==
  /\ ip' = ip + 1
  /\ \/ /\ state' = "run" /\ verdict' = "none" /\ Step' = Upcoming
        /\ Upcoming.do # "end" /\ ip' <= Len(Script(mode))
     \/ state' = "unwind" /\ verdict' = v /\ Upcoming.do = "end"

\* Advance is nothing else.
LEMMA Advancing ==
  ASSUME TypeOK, Course, state = "run", NEW v, Advance(v), mode' = mode
  PROVE  Onward(v)
<1>1. mode \in Programs /\ ip \in Nat /\ ip >= 1 /\ ip <= Len(Script(mode))  BY Running
<1>2. Len(Script(mode)) \in Nat  BY <1>1, ScriptLength DEF LengthOK
<1>3. CASE ip = Len(Script(mode))
  <2>1. Upcoming = Nothing  BY <1>2, <1>3 DEF Upcoming, Follow
  <2>2. Upcoming.do = "end"  BY <2>1 DEF Nothing, Local
  <2>3. QED  BY <1>3, <2>2 DEF Advance, Onward
<1>4. CASE ip # Len(Script(mode))
  <2>1. ip < Len(Script(mode)) /\ ip + 1 \in 1 .. Len(Script(mode))  BY <1>1, <1>2, <1>4
  <2>2. Upcoming = Script(mode)[ip + 1]  BY <2>1 DEF Upcoming, Follow
  <2>3. StepOK(mode, ip + 1)  BY <1>1, <2>1, StepFacts
  <2>4. Upcoming.do # "end"  BY <2>2, <2>3 DEF StepOK, Fits
  <2>5. ip' = ip + 1 /\ state' = state /\ verdict' = verdict  BY <1>4 DEF Advance
  <2>6. Step' = Upcoming  BY <2>2, <2>5 DEF Step
  <2>7. QED  BY <2>1, <2>4, <2>5, <2>6 DEF Onward, Course
<1>5. QED  BY <1>3, <1>4

-----------------------------------------------------------------------------
(* Steps of a kind.                                                        *)

\* The parts about the two directions of the socket.
Socketry == Streams /\ Course /\ Reply /\ Requests /\ Permitted /\ NeverRefused

\* Fail leaves the script where it was.
Stopped == ip' = ip /\ state' = "unwind" /\ verdict' = "error"

\* A step that neither sends nor reads keeps what is said of the socket.
LEMMA QuietStep ==
  ASSUME TypeOK, Socketry, state = "run", Step.do # "send", Step.do # "recv",
         NEW v, Advance(v) \/ Fail,
         UNCHANGED <<mode, toServer, toClient, serverVars>>
  PROVE  Socketry'
<1> USE DEF Socketry
<1>1. /\ mode \in Programs /\ Here /\ ip \in Nat /\ ip >= 1 /\ ip <= Len(Script(mode))  BY Running
<1>2. Onward(v) \/ Stopped  BY Advancing DEF Fail, Stopped
<1>3. /\ Upcoming.do # "recv" /\ ip # 1 /\ ip # 3
      /\ Venus => ip # 6 /\ ip # 14
  BY <1>1 DEF Here, Fits, Venus
<1>4. /\ mode' = mode /\ toServer' = toServer /\ toClient' = toClient /\ server' = server
      /\ version' = version /\ contextUp' = contextUp /\ refused' = refused /\ serverMax' = serverMax
  BY DEF serverVars
<1>5. state' = "run" => Step'.do # "recv"  BY <1>2, <1>3 DEF Onward, Stopped
<1>6. \A k \in 1 .. Len(toServer) : server = "up" => toServer[k].cmd \notin HasReply  BY DEF Requests, At
<1>7. Streams'  BY <1>4 DEF Streams
<1>8. Course'
  <2>1. ip' # 1 /\ state' # "dial" /\ (state' = "run" => ip' <= Len(Script(mode)) /\ verdict' = "none")
    BY <1>1, <1>2, <1>3 DEF Onward, Stopped
  <2>2. QED  BY <1>4, <2>1 DEF Course
<1>9. Reply'
  <2>1. toClient = << >>  BY DEF Reply
  <2>2. QED  BY <1>4, <1>5, <2>1 DEF Reply
<1>10. Requests'
  <2>1. state' = "run" => Script(mode')[ip' - 1].do # "recv"
    <3>1. state' = "run" => ip' - 1 = ip  BY <1>1, <1>2 DEF Onward, Stopped
    <3>2. QED  BY <1>4, <3>1 DEF Step
  <2>2. QED  BY <1>4, <1>5, <1>6, <2>1 DEF Requests, At
<1>11. Permitted'
  <2>1. First("create_renderer")' = First("create_renderer") /\ First("context_init")' = First("context_init")
        /\ Venus' = Venus
    BY <1>4 DEF First, Venus
  <2>2. /\ ip > 1
        /\ Venus /\ ip' > 6 => ip > 6
        /\ Venus /\ ip' > 14 => ip > 14
        /\ ip > 6 => ip' > 6
        /\ ip > 14 => ip' > 14
        /\ ip <= 3 => ip' <= 3
    BY <1>1, <1>2, <1>3 DEF Onward, Stopped
  <2>3. QED  BY <1>4, <2>1, <2>2 DEF Permitted
<1>12. NeverRefused'  BY <1>4 DEF NeverRefused
<1>13. QED  BY <1>7, <1>8, <1>9, <1>10, <1>11, <1>12

\* The client's own variables keep their types.
LEMMA ClientTypes ==
  ASSUME TypeOK, Course, state = "run", mode' = mode,
         NEW v \in {"pass", "fail"}, Advance(v) \/ Fail
  PROVE  /\ ip' \in 1 .. Len(Script(mode')) + 1
         /\ state' \in {"dial", "run", "unwind", "returned"}
         /\ verdict' \in {"none", "error", "pass", "fail"}
<1>1. mode \in Programs /\ ip \in Nat /\ ip >= 1 /\ ip <= Len(Script(mode))  BY Running
<1>2. Len(Script(mode)) \in Nat  BY <1>1, ScriptLength DEF LengthOK
<1>3. Onward(v) \/ Stopped  BY Advancing DEF Fail, Stopped
<1>4. ip' \in 1 .. Len(Script(mode)) + 1  BY <1>1, <1>2, <1>3 DEF Onward, Stopped
<1>5. QED  BY <1>3, <1>4 DEF Onward, Stopped

\* A step other than mmap that yields no descriptor keeps the books in order.
LEMMA BooksKept ==
  ASSUME TypeOK, Course, Owned, state = "run", Step.do # "mmap",
         Step.do = "recv" => Step.parts # <<"fd">>,
         NEW v, Advance(v) \/ Fail, UNCHANGED <<mode, held, deferred>>
  PROVE  Owned'
<1>1. mode \in Programs /\ Here /\ ip \in Nat /\ ip >= 1 /\ ip <= Len(Script(mode))  BY Running
<1>2. Onward(v) \/ Stopped  BY Advancing DEF Fail, Stopped
<1>3. /\ Upcoming.do # "mmap"
      /\ Venus => ip # 19
      /\ mode = "clear" => ip # 26 /\ ip # 32
  BY <1>1 DEF Here, Fits, Venus, GLModes
<1>4. ~At("mmap")' /\ ~At("mmap")  BY <1>2, <1>3 DEF Onward, Stopped, At
<1>5. ip' = ip \/ ip' = ip + 1  BY <1>2 DEF Onward, Stopped
<1>6. Mapped' = Mapped
  <2>1. Venus' = Venus  BY DEF Venus
  <2>2. Venus /\ mode # "ring" => mode = "clear"  BY <1>1 DEF Venus, Programs, GLModes
  <2>3. QED  BY <1>1, <1>3, <1>5, <2>1, <2>2 DEF Mapped
<1>7. Stack(Mapped)' = Stack(Mapped)  BY <1>6 DEF Stack, Map, Socket
<1>8. state' \notin {"dial", "returned"}  BY <1>2 DEF Onward, Stopped
<1>9. deferred = Stack(Mapped) /\ \E k \in 0 .. 4 : deferred = Stack(k)  BY DEF Owned
<1>10. held = {deferred[i] : i \in DOMAIN deferred}  BY <1>4 DEF Owned
<1>11. QED  BY <1>4, <1>7, <1>8, <1>9, <1>10 DEF Owned, Stack, Map, Socket

\* A SUBMIT_CMD2 is on its way.
Registering == \E k \in 1 .. Len(toServer) : toServer[k].cmd = "submit_cmd2"

\* A step that leaves the ring alone keeps its order.
LEMMA RingLeftAlone ==
  ASSUME TypeOK, Course, RingLife, state = "run",
         Step.do \notin {"zero", "sample", "write", "poll"},
         NEW v, Advance(v) \/ Fail, UNCHANGED <<mode, ringVars, headStart>>,
         Registering' => Registering \/ (Venus /\ ip > 20 /\ ip' = ip + 1)
  PROVE  RingLife'
<1>1. mode \in Programs /\ Here /\ ip \in Nat /\ ip >= 1 /\ ip <= Len(Script(mode))  BY Running
<1>2. Onward(v) \/ Stopped  BY Advancing DEF Fail, Stopped
<1>3. /\ Venus => ip # 20
      /\ mode = "ring" => ip # 22 /\ Upcoming.do # "end"
  BY <1>1 DEF Here, Fits, Venus, GLModes
<1>4. ip' = ip \/ ip' = ip + 1  BY <1>2 DEF Onward, Stopped
<1>5. mode = "ring" => verdict' # "pass"  BY <1>2, <1>3 DEF Onward, Stopped
<1>6. UNCHANGED <<mode, head, tail, consumer, headStart>> /\ Venus' = Venus  BY DEF ringVars, Venus
<1>7. consumer' # "none" \/ Registering' => Venus' /\ ip' > 21
  BY <1>1, <1>4, <1>6 DEF RingLife, Registering
<1>8. Venus' /\ ip' > 20 => head' # Junk  BY <1>1, <1>3, <1>4, <1>6 DEF RingLife
<1>9. Venus' /\ ip' \in 21 .. 23 => ~tail' /\ head' = 0  BY <1>1, <1>3, <1>4, <1>6 DEF RingLife
<1>10. mode' = "ring" /\ ip' > 22 => headStart' = 0  BY <1>1, <1>3, <1>4, <1>6 DEF RingLife
<1>11. tail' \in BOOLEAN  BY <1>6 DEF RingLife
<1>12. QED  BY <1>5, <1>6, <1>7, <1>8, <1>9, <1>10, <1>11 DEF RingLife, Registering

-----------------------------------------------------------------------------
(* The client's steps on the ring.                                         *)

\* What a step preserves, apart from the types.
Rest == Socketry /\ RingLife /\ Owned

\* The checks and the walk.
LEMMA LocalCheckStep ==
  ASSUME TypeOK, Rest, LocalCheck \/ WalkOrTexels  PROVE TypeOK' /\ Rest'
<1> USE DEF Rest, Socketry
<1>1. /\ state = "run" /\ Step.do \in {"check", "walk", "texels"}
      /\ (Advance("pass") \/ Fail)
      /\ UNCHANGED <<mode, lastLen, held, deferred, headStart, toServer, toClient, serverVars, ringVars>>
  BY DEF LocalCheck, WalkOrTexels, At
<1>2. Step.do \notin {"send", "recv", "mmap", "zero", "sample", "write", "poll"}  BY <1>1
<1>3. Socketry'  BY <1>1, <1>2, QuietStep
<1>4. RingLife'
  <2>1. Registering' => Registering  BY <1>1 DEF Registering
  <2>2. QED  BY <1>1, <1>2, <2>1, RingLeftAlone
<1>5. Owned'  BY <1>1, <1>2, BooksKept
<1>6. TypeOK'
  <2>1. /\ ip' \in 1 .. Len(Script(mode')) + 1
        /\ state' \in {"dial", "run", "unwind", "returned"}
        /\ verdict' \in {"none", "error", "pass", "fail"}
    BY <1>1, ClientTypes
  <2>2. QED  BY <1>1, <2>1 DEF TypeOK, serverVars, ringVars
<1>7. QED  BY <1>3, <1>4, <1>5, <1>6

\* The mapping is cleared.
LEMMA ZeroStep ==
  ASSUME TypeOK, Rest, Zero  PROVE TypeOK' /\ Rest'
<1> USE DEF Rest, Socketry
<1>1. /\ state = "run" /\ Step.do = "zero" /\ head' = 0 /\ tail' = FALSE
      /\ Advance("pass")
      /\ UNCHANGED <<mode, lastLen, held, deferred, headStart, toServer, toClient, serverVars, consumer>>
  BY DEF Zero, At
<1>2. Step.do \notin {"send", "recv", "mmap"}  BY <1>1
<1>3. Socketry'  BY <1>1, <1>2, QuietStep
<1>4. RingLife'
  <2>1. mode \in Programs /\ Here  BY <1>1, Running
  <2>2. ip = 20 /\ Venus /\ (mode = "ring" => Upcoming.do # "end")  BY <1>1, <2>1 DEF Here, Fits, Venus
  <2>3. ip' = 21 /\ (mode = "ring" => verdict' # "pass")
    <3>1. Onward("pass")  BY <1>1, Advancing
    <3>2. QED  BY <2>2, <3>1 DEF Onward
  <2>4. consumer' # "none" \/ Registering' => FALSE  BY <1>1, <2>2 DEF RingLife, Registering
  <2>5. ~tail' /\ tail' \in BOOLEAN  BY <1>1, Zenon
  <2>6. head' = 0 /\ mode' = mode  BY <1>1
  <2>7. QED  BY <2>3, <2>4, <2>5, <2>6 DEF RingLife, Registering, Junk
<1>5. Owned'  BY <1>1, <1>2, BooksKept
<1>6. TypeOK'
  <2>1. /\ ip' \in 1 .. Len(Script(mode')) + 1
        /\ state' \in {"dial", "run", "unwind", "returned"}
        /\ verdict' \in {"none", "error", "pass", "fail"}
    BY <1>1, ClientTypes
  <2>2. QED  BY <1>1, <2>1 DEF TypeOK, serverVars
<1>7. QED  BY <1>3, <1>4, <1>5, <1>6

\* The head word is sampled: it is zero.
LEMMA SampleHeadStep ==
  ASSUME TypeOK, Rest, SampleHead  PROVE TypeOK' /\ Rest'
<1> USE DEF Rest, Socketry
<1>1. /\ state = "run" /\ Step.do = "sample" /\ headStart' = head
      /\ Advance("pass")
      /\ UNCHANGED <<mode, lastLen, held, deferred, toServer, toClient, serverVars, ringVars>>
  BY DEF SampleHead, At
<1>2. Step.do \notin {"send", "recv", "mmap"}  BY <1>1
<1>3. Socketry'  BY <1>1, <1>2, QuietStep
<1>4. RingLife'
  <2>1. mode \in Programs /\ Here  BY <1>1, Running
  <2>2. ip = 22 /\ mode = "ring" /\ Venus /\ Upcoming.do # "end"  BY <1>1, <2>1 DEF Here, Fits, Venus, GLModes
  <2>3. ip' = 23 /\ verdict' # "pass"
    <3>1. Onward("pass")  BY <1>1, Advancing
    <3>2. QED  BY <2>2, <3>1 DEF Onward
  <2>4. ~tail /\ head = 0 /\ tail \in BOOLEAN  BY <2>2 DEF RingLife
  <2>5. Venus'  BY <1>1, <2>2 DEF Venus
  <2>6. QED  BY <1>1, <2>3, <2>4, <2>5 DEF RingLife, Junk, ringVars
<1>5. Owned'  BY <1>1, <1>2, BooksKept
<1>6. TypeOK'
  <2>1. /\ ip' \in 1 .. Len(Script(mode')) + 1
        /\ state' \in {"dial", "run", "unwind", "returned"}
        /\ verdict' \in {"none", "error", "pass", "fail"}
    BY <1>1, ClientTypes
  <2>2. QED  BY <1>1, <2>1 DEF TypeOK, serverVars, ringVars
<1>7. QED  BY <1>3, <1>4, <1>5, <1>6

\* The tail is stored after the head was sampled.
LEMMA WriteRingStep ==
  ASSUME TypeOK, Rest, WriteRing  PROVE TypeOK' /\ Rest'
<1> USE DEF Rest, Socketry
<1>1. /\ state = "run" /\ Step.do = "write" /\ tail' = TRUE
      /\ Advance("pass")
      /\ UNCHANGED <<mode, lastLen, held, deferred, headStart, toServer, toClient, serverVars, head, consumer>>
  BY DEF WriteRing, At
<1>2. Step.do \notin {"send", "recv", "mmap"}  BY <1>1
<1>3. Socketry'  BY <1>1, <1>2, QuietStep
<1>4. RingLife'
  <2>1. mode \in Programs /\ Here  BY <1>1, Running
  <2>2. ip = 23 /\ mode = "ring" /\ Venus /\ Upcoming.do # "end"  BY <1>1, <2>1 DEF Here, Fits, Venus, GLModes
  <2>3. ip' = 24 /\ verdict' # "pass"
    <3>1. Onward("pass")  BY <1>1, Advancing
    <3>2. QED  BY <2>2, <3>1 DEF Onward
  <2>4. headStart = 0 /\ head = 0  BY <2>2 DEF RingLife
  <2>5. Venus'  BY <1>1, <2>2 DEF Venus
  <2>6. QED  BY <1>1, <2>3, <2>4, <2>5 DEF RingLife, Junk
<1>5. Owned'  BY <1>1, <1>2, BooksKept
<1>6. TypeOK'
  <2>1. /\ ip' \in 1 .. Len(Script(mode')) + 1
        /\ state' \in {"dial", "run", "unwind", "returned"}
        /\ verdict' \in {"none", "error", "pass", "fail"}
    BY <1>1, ClientTypes
  <2>2. QED  BY <1>1, <2>1 DEF TypeOK, serverVars
<1>7. QED  BY <1>3, <1>4, <1>5, <1>6

\* The poll passes only on a head that the consumer has moved.
LEMMA PollStep ==
  ASSUME TypeOK, Rest, Poll  PROVE TypeOK' /\ Rest'
<1> USE DEF Rest, Socketry
<1> DEFINE v == IF head # headStart THEN "pass" ELSE "fail"
<1>1. /\ state = "run" /\ Step.do = "poll"
      /\ Advance(v)
      /\ UNCHANGED <<mode, lastLen, held, deferred, headStart, toServer, toClient, serverVars, ringVars>>
  BY DEF Poll, At
<1>0. v \in {"pass", "fail"} /\ (v = "pass" => head # headStart)  OBVIOUS
<1> HIDE DEF v
<1>2. Step.do \notin {"send", "recv", "mmap"}  BY <1>1
<1>3. Socketry'  BY <1>1, <1>2, QuietStep
<1>4. RingLife'
  <2>1. mode \in Programs /\ Here  BY <1>1, Running
  <2>2. ip = 24 /\ mode = "ring" /\ Venus  BY <1>1, <2>1 DEF Here, Fits, Venus, GLModes
  <2>3. ip' = 25 /\ (verdict' = "pass" => v = "pass")
    <3>1. Onward(v)  BY <1>1, Advancing
    <3>2. QED  BY <2>2, <3>1 DEF Onward
  <2>4. headStart = 0 /\ head # Junk /\ head \in {0, 1, Junk} /\ tail \in BOOLEAN  BY <2>2 DEF RingLife, TypeOK
  <2>5. verdict' = "pass" => head = 1  BY <1>0, <2>3, <2>4
  <2>6. Venus'  BY <1>1, <2>2 DEF Venus
  <2>7. QED  BY <1>1, <2>3, <2>4, <2>5, <2>6 DEF RingLife, ringVars
<1>5. Owned'  BY <1>1, <1>2, BooksKept
<1>6. TypeOK'
  <2>1. /\ ip' \in 1 .. Len(Script(mode')) + 1
        /\ state' \in {"dial", "run", "unwind", "returned"}
        /\ verdict' \in {"none", "error", "pass", "fail"}
    BY <1>1, <1>0, ClientTypes
  <2>2. QED  BY <1>1, <2>1 DEF TypeOK, serverVars, ringVars
<1>7. QED  BY <1>3, <1>4, <1>5, <1>6

-----------------------------------------------------------------------------
(* What is deferred, and what is held.                                     *)

\* The elements of a stack; what may be deferred; no descriptor; nothing twice.
Listed(d) == {d[i] : i \in DOMAIN d}
Things == {"socket", "map"} \X {"none", "ring", "reply", "memory"}
NoFD(d) == \A i \in DOMAIN d : d[i][1] # "fd"
OnceEach(d) == \A i, j \in DOMAIN d : i # j => d[i] # d[j]

\* What is deferred: no descriptor, and nothing twice.
LEMMA StackFacts ==
  ASSUME NEW k \in 0 .. 4
  PROVE  Stack(k) \in Seq(Things) /\ NoFD(Stack(k)) /\ OnceEach(Stack(k))
<1>1. CASE k = 0  BY <1>1 DEF Stack, NoFD, OnceEach
<1>2. CASE k = 1  BY <1>2 DEF Stack, NoFD, OnceEach, Things, Socket
<1>3. CASE k = 2  BY <1>3 DEF Stack, NoFD, OnceEach, Things, Socket, Map
<1>4. CASE k = 3  BY <1>4 DEF Stack, NoFD, OnceEach, Things, Socket, Map
<1>5. CASE k = 4  BY <1>5 DEF Stack, NoFD, OnceEach, Things, Socket, Map
<1>6. QED  BY <1>1, <1>2, <1>3, <1>4, <1>5

\* A sequence with one more element in front.
LEMMA InFront ==
  ASSUME NEW S, NEW d \in Seq(S), NEW e \in Seq(S), NEW x \in S,
         Len(e) = Len(d) + 1, e[1] = x, \A i \in 1 .. Len(d) : e[i + 1] = d[i]
  PROVE  <<x>> \o d = e
<1>1. <<x>> \in Seq(S) /\ Len(<<x>>) = 1 /\ <<x>>[1] = x  OBVIOUS
<1>2. /\ <<x>> \o d \in Seq(S)
      /\ Len(<<x>> \o d) = 1 + Len(d)
      /\ \A i \in 1 .. 1 + Len(d) : (<<x>> \o d)[i] = IF i <= 1 THEN <<x>>[i] ELSE d[i - 1]
  BY <1>1, ConcatProperties
<1>3. ASSUME NEW i \in 1 .. 1 + Len(d)  PROVE (<<x>> \o d)[i] = e[i]
  <2>1. CASE i = 1  BY <1>1, <1>2, <2>1
  <2>2. CASE i # 1
    <3>1. i - 1 \in 1 .. Len(d) /\ (i - 1) + 1 = i /\ ~(i <= 1)  BY <2>2
    <3>2. QED  BY <1>2, <3>1
  <2>3. QED  BY <2>1, <2>2
<1>4. QED  BY <1>2, <1>3, SeqEqual

\* Mapping a blob puts its Unmap on top.
LEMMA Pushes ==
  /\ <<Map("ring")>> \o Stack(1) = Stack(2)
  /\ <<Map("reply")>> \o Stack(2) = Stack(3)
  /\ <<Map("memory")>> \o Stack(3) = Stack(4)
<1>1. /\ Stack(1) \in Seq(Things) /\ Stack(2) \in Seq(Things)
      /\ Stack(3) \in Seq(Things) /\ Stack(4) \in Seq(Things)
  BY StackFacts
<1>2. Map("ring") \in Things /\ Map("reply") \in Things /\ Map("memory") \in Things  BY DEF Map, Things
<1>3. <<Map("ring")>> \o Stack(1) = Stack(2)
  <2>1. /\ Len(Stack(2)) = Len(Stack(1)) + 1 /\ Stack(2)[1] = Map("ring")
        /\ \A i \in 1 .. Len(Stack(1)) : Stack(2)[i + 1] = Stack(1)[i]
    BY DEF Stack
  <2>2. QED  BY <1>1, <1>2, <2>1, InFront
<1>4. <<Map("reply")>> \o Stack(2) = Stack(3)
  <2>1. /\ Len(Stack(3)) = Len(Stack(2)) + 1 /\ Stack(3)[1] = Map("reply")
        /\ \A i \in 1 .. Len(Stack(2)) : Stack(3)[i + 1] = Stack(2)[i]
    BY DEF Stack
  <2>2. QED  BY <1>1, <1>2, <2>1, InFront
<1>5. <<Map("memory")>> \o Stack(3) = Stack(4)
  <2>1. /\ Len(Stack(4)) = Len(Stack(3)) + 1 /\ Stack(4)[1] = Map("memory")
        /\ \A i \in 1 .. Len(Stack(3)) : Stack(4)[i + 1] = Stack(3)[i]
    BY DEF Stack
  <2>2. QED  BY <1>1, <1>2, <2>1, InFront
<1>6. QED  BY <1>3, <1>4, <1>5

\* Dropping the top of the stack.
LEMMA Pops ==
  ASSUME NEW k \in 1 .. 4
  PROVE  /\ Stack(k) # << >>
         /\ Tail(Stack(k)) = Stack(k - 1)
         /\ Listed(Stack(k - 1)) = Listed(Stack(k)) \ {Stack(k)[1]}
<1>1. CASE k = 1  BY <1>1 DEF Stack, Listed, Socket
<1>2. CASE k = 2  BY <1>2 DEF Stack, Listed, Socket, Map
<1>3. CASE k = 3  BY <1>3 DEF Stack, Listed, Socket, Map
<1>4. CASE k = 4  BY <1>4 DEF Stack, Listed, Socket, Map
<1>5. QED  BY <1>1, <1>2, <1>3, <1>4

\* One more element on the stack.
LEMMA Pushed ==
  ASSUME NEW S, NEW d \in Seq(S), NEW x
  PROVE  Listed(<<x>> \o d) = {x} \cup Listed(d)
<1> DEFINE e == <<x>> \o d
<1>1. DOMAIN e = 1 .. Len(d) + 1 /\ DOMAIN d = 1 .. Len(d) /\ Len(d) \in Nat  OBVIOUS
<1>2. e[1] = x /\ \A i \in 1 .. Len(d) : e[i + 1] = d[i]  OBVIOUS
<1> HIDE DEF e
<1>3. Listed(e) \subseteq {x} \cup Listed(d)
  <2>1. SUFFICES ASSUME NEW i \in DOMAIN e  PROVE e[i] \in {x} \cup Listed(d)  BY DEF Listed
  <2>2. CASE i = 1  BY <1>2, <2>2
  <2>3. CASE i # 1
    <3>1. i - 1 \in 1 .. Len(d) /\ i = (i - 1) + 1  BY <1>1, <2>3
    <3>2. e[i] = d[i - 1]  BY <1>2, <3>1
    <3>3. QED  BY <1>1, <3>1, <3>2 DEF Listed
  <2>4. QED  BY <2>2, <2>3
<1>4. {x} \cup Listed(d) \subseteq Listed(e)
  <2>1. x \in Listed(e)  BY <1>1, <1>2 DEF Listed
  <2>2. SUFFICES ASSUME NEW i \in DOMAIN d  PROVE d[i] \in Listed(e)  BY <2>1 DEF Listed
  <2>3. i + 1 \in DOMAIN e  BY <1>1
  <2>4. QED  BY <1>1, <1>2, <2>3 DEF Listed
<1>5. Listed(e) = {x} \cup Listed(d)  BY <1>3, <1>4
<1>6. QED  BY <1>5 DEF e

\* What is held is of the right kind if it is what is deferred.
LEMMA Books ==
  ASSUME NEW k \in 0 .. 4
  PROVE  /\ Listed(Stack(k)) \subseteq Things
         /\ \A b : FD(b) \notin Listed(Stack(k))
<1>1. Stack(k) \in Seq(Things) /\ NoFD(Stack(k))  BY StackFacts
<1>2. \A i \in DOMAIN Stack(k) : Stack(k)[i] \in Things  BY <1>1
<1>3. QED  BY <1>1, <1>2 DEF Listed, NoFD, FD

\* Mmap, and Close of the descriptor.
LEMMA MmapStep ==
  ASSUME TypeOK, Rest, Mmap  PROVE TypeOK' /\ Rest'
<1> USE DEF Rest, Socketry
<1> DEFINE x == Map(Step.blob)
           f == FD(Step.blob)
<1>1. /\ state = "run" /\ Step.do = "mmap" /\ (Advance("pass") \/ Fail)
      /\ UNCHANGED <<mode, lastLen, headStart, toServer, toClient, serverVars, ringVars>>
  BY DEF Mmap, At
<1>2. \/ Advance("pass") /\ held' = (held \ {f}) \cup {x} /\ deferred' = <<x>> \o deferred
      \/ Fail /\ held' = held \ {f} /\ deferred' = deferred
  BY DEF Mmap
<1>3. Step.do \notin {"send", "recv", "zero", "sample", "write", "poll"}  BY <1>1
<1>4. Socketry'  BY <1>1, <1>3, QuietStep
<1>5. RingLife'
  <2>1. Registering' => Registering  BY <1>1 DEF Registering
  <2>2. QED  BY <1>1, <1>3, <2>1, RingLeftAlone
<1>6. mode \in Programs /\ Here /\ ip \in Nat  BY <1>1, Running
<1>7. /\ Upcoming.do # "mmap" /\ mode \notin GLModes
      /\ \/ ip = 19 /\ Step.blob = "ring"
         \/ mode = "clear" /\ ip = 26 /\ Step.blob = "reply"
         \/ mode = "clear" /\ ip = 32 /\ Step.blob = "memory"
  BY <1>1, <1>6 DEF Here, Fits
<1>8. deferred = Stack(Mapped) /\ held = Listed(deferred) \cup {f}  BY <1>1 DEF Owned, At, Listed
<1>9. /\ Mapped \in 1 .. 3 /\ <<x>> \o Stack(Mapped) = Stack(Mapped + 1)
      /\ mode' = mode /\ ip' = ip + 1 => Mapped' = Mapped + 1
  <2>1. CASE ip = 19 /\ Step.blob = "ring"  BY <1>7, <2>1, Pushes DEF Mapped, Venus
  <2>2. CASE mode = "clear" /\ ip = 26 /\ Step.blob = "reply"  BY <1>7, <2>2, Pushes DEF Mapped, Venus
  <2>3. CASE mode = "clear" /\ ip = 32 /\ Step.blob = "memory"  BY <1>7, <2>3, Pushes DEF Mapped, Venus
  <2>4. QED  BY <1>7, <2>1, <2>2, <2>3
<1>10. PICK k \in 1 .. 3 : k = Mapped  BY <1>9
<1>11. f \notin Listed(deferred) /\ deferred \in Seq(Things)  BY <1>8, <1>10, Books, StackFacts
<1>12. ~At("mmap")'
  <2>1. Onward("pass") \/ Stopped  BY <1>1, Advancing DEF Fail, Stopped
  <2>2. QED  BY <1>7, <2>1 DEF Onward, Stopped, At
<1>13. /\ \E j \in 0 .. 4 : deferred' = Stack(j)
       /\ held' = Listed(deferred')
       /\ state' \notin {"dial", "returned"}
       /\ state' = "run" => deferred' = Stack(Mapped')
  <2>1. CASE Advance("pass") /\ held' = (held \ {f}) \cup {x} /\ deferred' = <<x>> \o deferred
    <3>1. Onward("pass")  BY <1>1, <2>1, Advancing
    <3>2. ip' = ip + 1 /\ state' \notin {"dial", "returned"}  BY <3>1 DEF Onward
    <3>3. deferred' = Stack(k + 1) /\ Mapped' = k + 1  BY <1>1, <1>8, <1>9, <1>10, <2>1, <3>2
    <3>4. Listed(deferred') = {x} \cup Listed(deferred)  BY <1>11, <2>1, Pushed
    <3>5. held' = Listed(deferred')
      <4> HIDE DEF x, f
      <4>1. QED  BY <1>8, <1>11, <2>1, <3>4
    <3>6. k + 1 \in 0 .. 4  BY <1>10
    <3>7. QED  BY <3>2, <3>3, <3>5, <3>6
  <2>2. CASE Fail /\ held' = held \ {f} /\ deferred' = deferred
    <3>1. held' = Listed(deferred')
      <4> HIDE DEF x, f
      <4>1. QED  BY <1>8, <1>11, <2>2
    <3>2. QED  BY <1>8, <1>10, <2>2, <3>1 DEF Fail
  <2>3. QED  BY <1>2, <2>1, <2>2
<1>14. Owned'
  <2>1. Stack(Mapped)' = Stack(Mapped')  BY DEF Stack, Map, Socket
  <2>2. QED  BY <1>12, <1>13, <2>1 DEF Owned, Listed, Stack, Map, Socket
<1>15. TypeOK'
  <2>1. /\ ip' \in 1 .. Len(Script(mode')) + 1
        /\ state' \in {"dial", "run", "unwind", "returned"}
        /\ verdict' \in {"none", "error", "pass", "fail"}
    BY <1>1, ClientTypes
  <2>2. PICK j \in 0 .. 4 : deferred' = Stack(j)  BY <1>13
  <2>3. deferred' \in Seq(Things) /\ held' \subseteq Things  BY <1>13, <2>2, Books, StackFacts
  <2>4. held' \subseteq {"socket", "fd", "map"} \X {"none", "ring", "reply", "memory"}  BY <2>3 DEF Things
  <2>5. QED  BY <1>1, <2>1, <2>3, <2>4 DEF TypeOK, serverVars, ringVars, Things
<1>16. QED  BY <1>4, <1>5, <1>14, <1>15

-----------------------------------------------------------------------------
(* Steps that leave the script where it is.                                *)

\* A step of the ring's consumer, or none, keeps what is said of the socket and
\* of the books.
LEMMA Unmoved ==
  ASSUME Socketry, Owned, UNCHANGED <<mode, clientVars, toServer, toClient, serverVars>>
  PROVE  Socketry' /\ Owned'
<1>1. /\ mode' = mode /\ ip' = ip /\ state' = state /\ verdict' = verdict /\ lastLen' = lastLen
      /\ held' = held /\ deferred' = deferred /\ toServer' = toServer /\ toClient' = toClient
      /\ server' = server /\ serverMax' = serverMax /\ version' = version
      /\ contextUp' = contextUp /\ refused' = refused
  BY DEF clientVars, serverVars
<1>2. Step' = Step /\ Venus' = Venus /\ Mapped' = Mapped  BY <1>1 DEF Step, Venus, Mapped
<1>3. At("recv")' = At("recv") /\ At("mmap")' = At("mmap") /\ ToCome' = ToCome
  BY <1>1, <1>2 DEF At, ToCome
<1>4. First("create_renderer")' = First("create_renderer") /\ First("context_init")' = First("context_init")
  BY <1>1 DEF First
<1>5. Streams' /\ Course' /\ NeverRefused'  BY <1>1 DEF Socketry, Streams, Course, NeverRefused
<1>6. Reply'  BY <1>1, <1>2, <1>3 DEF Socketry, Reply
<1>7. Requests'  BY <1>1, <1>2, <1>3 DEF Socketry, Requests
<1>8. Permitted'  BY <1>1, <1>2, <1>4 DEF Socketry, Permitted
<1>9. Stack(Mapped)' = Stack(Mapped)  BY <1>2 DEF Stack, Map, Socket
<1>10. Owned'  BY <1>1, <1>2, <1>3, <1>9 DEF Owned, Stack, Map, Socket
<1>11. QED  BY <1>5, <1>6, <1>7, <1>8, <1>10 DEF Socketry

\* The consumer reads the command, but only after the tail was stored.
LEMMA ConsumeRingStep ==
  ASSUME TypeOK, Rest, ConsumeRing  PROVE TypeOK' /\ Rest'
<1> USE DEF Rest
<1>1. /\ consumer = "running" /\ tail /\ head' = 1
      /\ UNCHANGED <<mode, clientVars, toServer, toClient, serverVars, tail, consumer>>
  BY DEF ConsumeRing
<1>2. Socketry' /\ Owned'  BY <1>1, Unmoved
<1>3. mode' = mode /\ ip' = ip /\ verdict' = verdict /\ headStart' = headStart /\ Venus' = Venus
  BY <1>1 DEF clientVars, Venus
<1>4. Venus /\ ip > 21 /\ ~(ip \in 21 .. 23)  BY <1>1 DEF RingLife
<1>5. tail' \in BOOLEAN  BY <1>1 DEF RingLife
<1>6. RingLife'  BY <1>1, <1>3, <1>4, <1>5 DEF RingLife, Junk
<1>7. TypeOK'  BY <1>1 DEF TypeOK, clientVars, serverVars
<1>8. QED  BY <1>2, <1>6, <1>7

\* The consumer goes idle.
LEMMA ConsumerIdlesStep ==
  ASSUME TypeOK, Rest, ConsumerIdles  PROVE TypeOK' /\ Rest'
<1> USE DEF Rest
<1>1. /\ consumer = "running" /\ consumer' = "idle"
      /\ UNCHANGED <<mode, clientVars, toServer, toClient, serverVars, head, tail>>
  BY DEF ConsumerIdles
<1>2. Socketry' /\ Owned'  BY <1>1, Unmoved
<1>3. mode' = mode /\ ip' = ip /\ verdict' = verdict /\ headStart' = headStart /\ Venus' = Venus
  BY <1>1 DEF clientVars, Venus
<1>4. RingLife'  BY <1>1, <1>3 DEF RingLife
<1>5. TypeOK'  BY <1>1 DEF TypeOK, clientVars, serverVars
<1>6. QED  BY <1>2, <1>4, <1>5

\* Nothing changes.
LEMMA Stutter ==
  ASSUME TypeOK, Rest, UNCHANGED vars  PROVE TypeOK' /\ Rest'
<1>1. UNCHANGED <<mode, clientVars, toServer, toClient, serverVars, ringVars>>  BY DEF vars
<1>2. Socketry' /\ Owned'  BY <1>1, Unmoved DEF Rest
<1>3. RingLife'  BY <1>1 DEF Rest, RingLife, clientVars, ringVars, Venus
<1>4. TypeOK'  BY <1>1 DEF TypeOK, clientVars, serverVars, ringVars
<1>5. QED  BY <1>2, <1>3, <1>4 DEF Rest

\* A client that is done keeps what is said of the socket.
LEMMA DoneStep ==
  ASSUME Socketry, state = "unwind", state' \in {"unwind", "returned"},
         UNCHANGED <<mode, ip, verdict, toServer, toClient, serverVars>>
  PROVE  Socketry'
<1> USE DEF Socketry
<1>1. /\ server' = server /\ serverMax' = serverMax /\ version' = version
      /\ contextUp' = contextUp /\ refused' = refused
  BY DEF serverVars
<1>2. ~At("recv") /\ ~At("recv")'  BY DEF At
<1>3. First("create_renderer")' = First("create_renderer") /\ First("context_init")' = First("context_init")
      /\ Venus' = Venus
  BY DEF First, Venus
<1>4. Streams' /\ Course' /\ Reply' /\ NeverRefused'  BY <1>1 DEF Streams, Course, Reply, NeverRefused
<1>5. Requests'  BY <1>1, <1>2 DEF Requests
<1>6. Permitted'  BY <1>1, <1>3 DEF Permitted
<1>7. QED  BY <1>4, <1>5, <1>6

\* os.Exit gives everything back.
LEMMA ExitStep ==
  ASSUME TypeOK, Rest, Exit  PROVE TypeOK' /\ Rest'
<1> USE DEF Rest
<1>1. /\ state = "unwind" /\ state' = "returned" /\ held' = {} /\ deferred' = << >>
      /\ UNCHANGED <<mode, ip, verdict, lastLen, headStart, toServer, toClient, serverVars, ringVars>>
  BY DEF Exit
<1>2. Socketry'  BY <1>1, DoneStep
<1>3. RingLife'  BY <1>1 DEF RingLife, ringVars, Venus
<1>4. Owned'
  <2>1. deferred' = Stack(0)  BY <1>1 DEF Stack
  <2>2. ~At("mmap")'  BY <1>1 DEF At
  <2>3. QED  BY <1>1, <2>1, <2>2 DEF Owned, Stack, Map, Socket
<1>5. TypeOK'  BY <1>1 DEF TypeOK, serverVars, ringVars
<1>6. QED  BY <1>2, <1>3, <1>4, <1>5

\* A deferred call gives back what is on top of the stack.
LEMMA RunDeferredStep ==
  ASSUME TypeOK, Rest, RunDeferred  PROVE TypeOK' /\ Rest'
<1> USE DEF Rest
<1>1. /\ state = "unwind"
      /\ UNCHANGED <<mode, ip, verdict, lastLen, headStart, toServer, toClient, serverVars, ringVars>>
  BY DEF RunDeferred
<1>2. \/ deferred = << >> /\ state' = "returned" /\ held' = held /\ deferred' = deferred
      \/ deferred # << >> /\ held' = held \ {deferred[1]} /\ deferred' = Tail(deferred) /\ state' = state
  BY DEF RunDeferred
<1>3. Socketry'
  <2>1. state' \in {"unwind", "returned"}  BY <1>1, <1>2
  <2>2. QED  BY <1>1, <2>1, DoneStep
<1>4. RingLife'  BY <1>1 DEF RingLife, ringVars, Venus
<1>5. ~At("mmap")' /\ ~At("mmap")  BY <1>1, <1>2 DEF At
<1>6. held = Listed(deferred)  BY <1>5 DEF Owned, Listed
<1>7. PICK k \in 0 .. 4 : deferred = Stack(k)  BY DEF Owned
<1>8. PICK j \in 0 .. 4 : deferred' = Stack(j) /\ held' = Listed(deferred')
  <2>1. CASE deferred = << >> /\ held' = held /\ deferred' = deferred  BY <1>6, <1>7, <2>1
  <2>2. CASE deferred # << >> /\ held' = held \ {deferred[1]} /\ deferred' = Tail(deferred)
    <3>1. k # 0  BY <1>7, <2>2 DEF Stack
    <3>2. k \in 1 .. 4 /\ k - 1 \in 0 .. 4  BY <3>1
    <3>3. deferred' = Stack(k - 1) /\ Listed(Stack(k - 1)) = Listed(deferred) \ {deferred[1]}
      BY <1>7, <2>2, <3>2, Pops
    <3>4. QED  BY <1>6, <2>2, <3>2, <3>3
  <2>3. QED  BY <1>2, <2>1, <2>2
<1>9. Owned'
  <2>1. state' \notin {"dial", "run"} /\ (state' = "returned" => deferred' = << >>)  BY <1>1, <1>2
  <2>2. QED  BY <1>5, <1>8, <2>1 DEF Owned, Listed, Stack, Map, Socket
<1>10. TypeOK'
  <2>1. deferred' \in Seq(Things) /\ held' \subseteq Things  BY <1>8, Books, StackFacts
  <2>2. held' \subseteq {"socket", "fd", "map"} \X {"none", "ring", "reply", "memory"}  BY <2>1 DEF Things
  <2>3. state' \in {"dial", "run", "unwind", "returned"}  BY <1>1, <1>2
  <2>4. QED  BY <1>1, <2>1, <2>2, <2>3 DEF TypeOK, serverVars, ringVars, Things
<1>11. QED  BY <1>3, <1>4, <1>9, <1>10

\* Dial: either nothing is open, or the socket with its deferred Close.
LEMMA DialStep ==
  ASSUME TypeOK, Rest, Dial  PROVE TypeOK' /\ Rest'
<1> USE DEF Rest, Socketry
<1>1. /\ state = "dial"
      /\ UNCHANGED <<mode, ip, lastLen, headStart, toServer, toClient, serverVars, ringVars>>
  BY DEF Dial
<1>2. \/ state' = "run" /\ held' = {Socket} /\ deferred' = <<Socket>> /\ verdict' = verdict
      \/ state' = "returned" /\ verdict' = "error" /\ held' = held /\ deferred' = deferred
  BY DEF Dial
<1>3. ip = 1 /\ verdict = "none" /\ toServer = << >> /\ toClient = << >> /\ deferred = << >>
  BY <1>1 DEF Course, Owned
<1>4. mode \in Programs  BY SessionAssumption DEF TypeOK, Programs
<1>5. Len(Script(mode)) \in Nat /\ Len(Script(mode)) > 10  BY <1>4, ScriptLength DEF LengthOK
<1>6. Step.do = "send" /\ Step' = Step
  <2>1. 1 \in 1 .. Len(Script(mode))  BY <1>5
  <2>2. StepOK(mode, 1)  BY <1>4, <2>1, StepFacts
  <2>3. QED  BY <1>1, <1>3, <2>2 DEF StepOK, Fits, Step
<1>7. ~At("recv")' /\ ~At("mmap")' /\ ~At("mmap")  BY <1>1, <1>6 DEF At
<1>8. /\ server' = server /\ serverMax' = serverMax /\ version' = version
      /\ contextUp' = contextUp /\ refused' = refused
  BY <1>1 DEF serverVars
<1>9. Len(toServer') = 0 /\ toServer' = << >> /\ toClient' = << >> /\ ip' = 1 /\ mode' = mode  BY <1>1, <1>3
<1>10. Streams' /\ NeverRefused'  BY <1>1, <1>8 DEF Streams, NeverRefused
<1>11. Course'  BY <1>2, <1>3, <1>5, <1>9 DEF Course
<1>12. Reply'  BY <1>6, <1>9 DEF Reply
<1>13. Requests'  BY <1>7, <1>9 DEF Requests
<1>14. Permitted'  BY <1>9 DEF Permitted
<1>15. RingLife'
  <2>1. verdict' # "pass"  BY <1>2, <1>3
  <2>2. QED  BY <1>1, <2>1 DEF RingLife, ringVars, Venus
<1>16. PICK j \in 0 .. 4 : deferred' = Stack(j) /\ held' = Listed(deferred') /\ (state' = "run" => j = 1)
  <2>1. CASE state' = "run" /\ held' = {Socket} /\ deferred' = <<Socket>>
    <3>1. deferred' = Stack(1) /\ held' = Listed(deferred')  BY <2>1 DEF Stack, Listed
    <3>2. QED  BY <3>1
  <2>2. CASE state' = "returned" /\ held' = held /\ deferred' = deferred
    <3>1. deferred' = Stack(0)  BY <1>3, <2>2 DEF Stack
    <3>2. held' = Listed(deferred')  BY <1>7, <2>2 DEF Owned, Listed
    <3>3. QED  BY <2>2, <3>1, <3>2
  <2>3. QED  BY <1>2, <2>1, <2>2
<1>17. Owned'
  <2>1. Mapped' = 1  BY <1>9 DEF Mapped
  <2>2. state' # "dial" /\ (state' = "returned" => deferred' = << >>)  BY <1>2, <1>3
  <2>3. Stack(Mapped)' = Stack(1)  BY <2>1 DEF Stack, Map, Socket
  <2>4. QED  BY <1>7, <1>16, <2>2, <2>3 DEF Owned, Listed, Stack, Map, Socket
<1>18. TypeOK'
  <2>1. deferred' \in Seq(Things) /\ held' \subseteq Things  BY <1>16, Books, StackFacts
  <2>2. held' \subseteq {"socket", "fd", "map"} \X {"none", "ring", "reply", "memory"}  BY <2>1 DEF Things
  <2>3. /\ state' \in {"dial", "run", "unwind", "returned"}
        /\ verdict' \in {"none", "error", "pass", "fail"}
    BY <1>2, <1>3
  <2>4. QED  BY <1>1, <2>1, <2>2, <2>3 DEF TypeOK, serverVars, ringVars, Things
<1>19. QED  BY <1>10, <1>11, <1>12, <1>13, <1>14, <1>15, <1>17, <1>18

\* A failure, when no answer is still to come.
LEMMA FailStep ==
  ASSUME TypeOK, Socketry, state = "run", Fail, UNCHANGED <<mode, toServer, serverVars>>,
         toClient' \in Seq([cmd : HasReply, part : Parts, val : Nat]),
         server = "up" => \A k \in 1 .. Len(toServer) : toServer[k].cmd \notin HasReply
  PROVE  Socketry'
<1> USE DEF Socketry
<1>1. /\ server' = server /\ serverMax' = serverMax /\ version' = version
      /\ contextUp' = contextUp /\ refused' = refused
  BY DEF serverVars
<1>2. ip' = ip /\ state' = "unwind"  BY DEF Fail
<1>3. First("create_renderer")' = First("create_renderer") /\ First("context_init")' = First("context_init")
      /\ Venus' = Venus
  BY DEF First, Venus
<1>4. Streams' /\ NeverRefused'  BY <1>1 DEF Streams, NeverRefused
<1>5. Course'  BY <1>2 DEF Course
<1>6. Reply'  BY <1>2 DEF Reply
<1>7. Requests'  BY <1>1, <1>2 DEF Requests, At
<1>8. Permitted'  BY <1>1, <1>2, <1>3 DEF Permitted
<1>9. QED  BY <1>4, <1>5, <1>6, <1>7, <1>8

\* The connection ends where a reply was due.
LEMMA ClientEOFStep ==
  ASSUME TypeOK, Rest, ClientEOF  PROVE TypeOK' /\ Rest'
<1> USE DEF Rest, Socketry
<1>1. /\ state = "run" /\ Step.do = "recv" /\ server = "down" /\ Fail
      /\ UNCHANGED <<mode, lastLen, held, deferred, headStart, toServer, toClient, serverVars, ringVars>>
  BY DEF ClientEOF, At
<1>2. Step.do \notin {"mmap", "zero", "sample", "write", "poll"}  BY <1>1
<1>3. Socketry'
  <2>1. toClient' \in Seq([cmd : HasReply, part : Parts, val : Nat])  BY <1>1 DEF Streams
  <2>2. QED  BY <1>1, <2>1, FailStep
<1>4. RingLife'
  <2>1. Registering' => Registering  BY <1>1 DEF Registering
  <2>2. QED  BY <1>1, <1>2, <2>1, RingLeftAlone
<1>5. Owned'
  <2>1. ~At("mmap") /\ ~At("mmap")' /\ state' = "unwind"  BY <1>1, <1>2 DEF At, Fail
  <2>2. QED  BY <1>1, <2>1 DEF Owned, Stack, Map, Socket
<1>6. TypeOK'
  <2>1. /\ ip' \in 1 .. Len(Script(mode')) + 1
        /\ state' \in {"dial", "run", "unwind", "returned"}
        /\ verdict' \in {"none", "error", "pass", "fail"}
    BY <1>1, ClientTypes
  <2>2. QED  BY <1>1, <2>1 DEF TypeOK, serverVars, ringVars
<1>7. QED  BY <1>3, <1>4, <1>5, <1>6

-----------------------------------------------------------------------------
(* Requests.                                                               *)

\* What travels to the server.
RequestRecord == [cmd : Cmds, blob : {"none", "ring", "reply", "memory"}]

\* A request joins the queue at its end.
Joined(q, r, e) ==
  /\ r \in Seq(RequestRecord) /\ r # << >>
  /\ Len(q) \in Nat /\ Len(r) = Len(q) + 1 /\ r[Len(r)] = e
  /\ \A k \in 1 .. Len(r) : (k <= Len(q) /\ r[k] = q[k]) \/ (k = Len(r) /\ r[k] = e)
  /\ q = << >> => r[1] = e
  /\ q # << >> => r[1] = q[1]

\* Append adds a request at the end.
LEMMA Joining ==
  ASSUME NEW q \in Seq(RequestRecord), NEW e \in RequestRecord
  PROVE  Joined(q, Append(q, e), e)
<1> DEFINE r == Append(q, e)
<1>1. r \in Seq(RequestRecord) /\ Len(q) \in Nat /\ Len(r) = Len(q) + 1 /\ r[Len(q) + 1] = e
  OBVIOUS
<1>2. \A k \in 1 .. Len(q) : r[k] = q[k]  OBVIOUS
<1>3. q # << >> => Len(q) > 0  OBVIOUS
<1>4. q = << >> => Len(q) = 0  OBVIOUS
<1> HIDE DEF r
<1>5. r # << >>  BY <1>1
<1>6. \A k \in 1 .. Len(r) : (k <= Len(q) /\ r[k] = q[k]) \/ (k = Len(r) /\ r[k] = e)  BY <1>1, <1>2
<1>7. Joined(q, r, e)  BY <1>1, <1>2, <1>3, <1>4, <1>5, <1>6 DEF Joined
<1>8. QED  BY <1>7 DEF r

\* A request is sent.
LEMMA ClientSendStep ==
  ASSUME TypeOK, Rest, ClientSend  PROVE TypeOK' /\ Rest'
<1> USE DEF Rest, Socketry
<1> DEFINE e == [cmd |-> Step.cmd, blob |-> Step.blob]
<1>1. /\ state = "run" /\ Step.do = "send" /\ (Advance("pass") \/ Fail)
      /\ UNCHANGED <<mode, lastLen, held, deferred, headStart, toClient, serverVars, ringVars>>
  BY DEF ClientSend, At
<1>2. \/ server = "up" /\ Advance("pass") /\ toServer' = Append(toServer, e)
      \/ Fail /\ toServer' = toServer
  BY DEF ClientSend
<1>3. mode \in Programs /\ Here /\ ip \in Nat /\ ip >= 1 /\ ip <= Len(Script(mode))  BY <1>1, Running
<1>4. Sending(mode, ip, Step, Upcoming) /\ Upcoming.do # "end"  BY <1>1, <1>3 DEF Here, Fits
<1>5. e \in RequestRecord /\ e.cmd = Step.cmd  BY <1>4 DEF Sending, RequestRecord, Blobs
<1> HIDE DEF e
<1>6. toServer \in Seq(RequestRecord)  BY DEF Streams, RequestRecord
<1>7. Step.do \notin {"recv", "mmap", "zero", "sample", "write", "poll"}  BY <1>1
<1>8. toClient = << >> /\ Len(toClient) = 0  BY <1>1 DEF Reply
<1>9. /\ mode' = mode /\ toClient' = toClient /\ lastLen' = lastLen /\ server' = server
      /\ version' = version /\ contextUp' = contextUp /\ refused' = refused /\ serverMax' = serverMax
  BY <1>1 DEF serverVars
<1>10. Owned'  BY <1>1, <1>7, BooksKept
<1>11. TypeOK'
  <2>1. /\ ip' \in 1 .. Len(Script(mode')) + 1
        /\ state' \in {"dial", "run", "unwind", "returned"}
        /\ verdict' \in {"none", "error", "pass", "fail"}
    BY <1>1, ClientTypes
  <2>2. QED  BY <1>1, <2>1 DEF TypeOK, serverVars, ringVars
<1>12. CASE Fail /\ toServer' = toServer
  <2>1. toClient' \in Seq([cmd : HasReply, part : Parts, val : Nat])  BY <1>9 DEF Streams
  <2>2. server = "up" => \A k \in 1 .. Len(toServer) : toServer[k].cmd \notin HasReply
    BY <1>1 DEF Requests, At
  <2>3. Socketry'  BY <1>1, <1>12, <2>1, <2>2, FailStep
  <2>4. Registering' => Registering  BY <1>12 DEF Registering
  <2>5. RingLife'  BY <1>1, <1>7, <2>4, RingLeftAlone
  <2>6. QED  BY <1>10, <1>11, <2>3, <2>5
<1>13. CASE server = "up" /\ Advance("pass") /\ toServer' = Append(toServer, e)
  <2>1. Joined(toServer, toServer', e)  BY <1>5, <1>6, <1>13, Joining
  <2>2. /\ ip' = ip + 1 /\ state' = "run" /\ verdict' = "none" /\ Step' = Upcoming
        /\ ip' <= Len(Script(mode))
    <3>1. Onward("pass")  BY <1>1, <1>13, Advancing
    <3>2. QED  BY <1>4, <3>1 DEF Onward
  <2>3. Upcoming.do = "recv" => Step.cmd \in HasReply /\ Upcoming.cmd = Step.cmd /\ Before(Upcoming.parts) = 0
    BY <1>4 DEF Sending
  <2>4. Upcoming.do = "recv" => (Upcoming.cmd = "get_capset" => Upcoming.parts = <<"header">>)
    <3>1. ip + 1 \in 1 .. Len(Script(mode))  BY <1>3, <2>2
    <3>2. StepOK(mode, ip + 1)  BY <1>3, <3>1, StepFacts
    <3>3. Script(mode)[ip + 1] = Upcoming  BY <1>9, <2>2 DEF Step
    <3>4. Upcoming.do = "recv" => Reading(mode, ip + 1, Upcoming, Follow(mode, ip + 1))
      BY <3>2, <3>3 DEF StepOK, Fits
    <3>5. QED  BY <2>3, <3>4 DEF Reading, Before
  <2>5. \A k \in 1 .. Len(toServer) : toServer[k].cmd \notin HasReply  BY <1>1, <1>13 DEF Requests, At
  <2>6. Streams' /\ NeverRefused'  BY <1>9, <2>1 DEF Streams, NeverRefused, Joined, RequestRecord
  <2>7. Course'  BY <1>3, <1>9, <2>2 DEF Course
  <2>8. Reply'
    <3>1. CASE Upcoming.do # "recv"  BY <1>8, <1>9, <2>2, <3>1 DEF Reply
    <3>2. CASE Upcoming.do = "recv"
      <4>1. toServer' # << >>  BY <2>1 DEF Joined
      <4>2. ToCome' \in Nat
        <5>1. lastLen \in Nat  BY DEF TypeOK
        <5>2. QED  BY <1>8, <1>9, <2>2, <2>3, <2>4, <3>2, <5>1 DEF ToCome
      <4>3. Len(toClient') = 0 /\ toClient' = << >>  BY <1>8, <1>9
      <4>4. QED  BY <2>2, <2>4, <3>2, <4>1, <4>2, <4>3 DEF Reply
    <3>3. QED  BY <3>1, <3>2
  <2>9. Requests'
    <3>1. \A k \in 1 .. Len(toServer') : toServer'[k].cmd \in HasReply =>
            k = Len(toServer') /\ At("recv")' /\ Step'.cmd = toServer'[k].cmd
      <4>1. SUFFICES ASSUME NEW k \in 1 .. Len(toServer'), toServer'[k].cmd \in HasReply
                     PROVE  k = Len(toServer') /\ At("recv")' /\ Step'.cmd = toServer'[k].cmd
        OBVIOUS
      <4>2. k \in 1 .. Len(toServer) => FALSE  BY <2>1, <2>5, <4>1 DEF Joined
      <4>3. k = Len(toServer') /\ toServer'[k] = e  BY <2>1, <4>1, <4>2 DEF Joined
      <4>4. QED  BY <1>4, <1>5, <2>2, <4>1, <4>3 DEF Sending, At
    <3>2. Script(mode')[ip' - 1].do # "recv"
      <4>1. ip' - 1 = ip  BY <1>3, <2>2
      <4>2. QED  BY <1>1, <1>9, <4>1 DEF Step
    <3>3. At("recv")' => /\ Before(Step'.parts) = 0 /\ toClient' = << >>
                         /\ toServer'[Len(toServer')].cmd = Step'.cmd
      BY <1>5, <1>8, <1>9, <2>1, <2>2, <2>3 DEF At, Joined
    <3>4. QED  BY <3>1, <3>2, <3>3 DEF Requests
  <2>10. Permitted'
    <3>1. /\ ip # 3 /\ (ip = 1 <=> e.cmd = "create_renderer")
          /\ Venus => ip # 6 /\ (ip = 14 => e.cmd = "context_init")
          /\ e.cmd \in VenusCmd => Venus /\ ip > 6
          /\ e.cmd \in {"create_blob", "submit_cmd2"} => ip > 14
      BY <1>1, <1>3, <1>4, <1>5 DEF Here, Fits, Venus, Sending
    <3>2. Venus' = Venus  BY <1>9 DEF Venus
    <3>3. ip' > 1 => version' > 0 \/ First("create_renderer")'
      BY <1>3, <1>9, <1>13, <2>1, <3>1 DEF Permitted, First, Course, Joined
    <3>4. \A k \in 1 .. Len(toServer') : toServer'[k].cmd = "create_renderer" => k = 1 /\ ip' <= 3
      <4>1. SUFFICES ASSUME NEW k \in 1 .. Len(toServer'), toServer'[k].cmd = "create_renderer"
                     PROVE  k = 1 /\ ip' <= 3
        OBVIOUS
      <4>2. CASE k <= Len(toServer) /\ toServer'[k] = toServer[k]
        <5>1. k \in 1 .. Len(toServer)  BY <2>1, <4>2 DEF Joined
        <5>2. k = 1 /\ ip <= 3  BY <1>13, <4>1, <4>2, <5>1 DEF Permitted
        <5>3. QED  BY <1>3, <2>2, <3>1, <5>2
      <4>3. CASE k = Len(toServer') /\ toServer'[k] = e
        <5>1. ip = 1 /\ toServer = << >>  BY <3>1, <4>1, <4>3 DEF Course
        <5>2. Len(toServer') = 1  BY <2>1, <5>1 DEF Joined
        <5>3. QED  BY <2>2, <4>3, <5>1, <5>2
      <4>4. QED  BY <2>1, <4>2, <4>3 DEF Joined
    <3>5. Venus' /\ ip' > 6 => version' >= 3
      BY <1>3, <1>9, <1>13, <2>2, <3>1, <3>2 DEF Permitted
    <3>6. Venus' /\ ip' > 14 => contextUp' \/ First("context_init")'
      <4>1. SUFFICES ASSUME Venus, ip + 1 > 14  PROVE contextUp' \/ First("context_init")'
        BY <2>2, <3>2
      <4>2. CASE ip = 14
        <5>1. 13 \in 1 .. Len(Script(mode))  BY <1>3, <4>2
        <5>2. StepOK(mode, 13)  BY <1>3, <5>1, StepFacts
        <5>3. Script(mode)[ip - 1].do = "recv"
          <6>1. ip - 1 = 13 /\ mode \notin GLModes  BY <4>1, <4>2 DEF Venus
          <6>2. QED  BY <5>2, <6>1 DEF StepOK, Fits
        <5>4. toServer = << >>  BY <1>1, <1>13, <4>2, <5>3 DEF Requests
        <5>5. QED  BY <2>1, <3>1, <4>1, <4>2, <5>4 DEF First, Joined
      <4>3. CASE ip # 14
        <5>1. contextUp \/ First("context_init")  BY <1>3, <1>13, <4>1, <4>3 DEF Permitted
        <5>2. QED  BY <1>9, <2>1, <5>1 DEF First, Joined
      <4>4. QED  BY <4>2, <4>3
    <3>7. \A k \in 1 .. Len(toServer') :
            /\ toServer'[k].cmd \in VenusCmd => Venus' /\ ip' > 6
            /\ toServer'[k].cmd \in {"create_blob", "submit_cmd2"} => ip' > 14
      <4>1. SUFFICES ASSUME NEW k \in 1 .. Len(toServer')
                     PROVE  /\ toServer'[k].cmd \in VenusCmd => Venus /\ ip + 1 > 6
                            /\ toServer'[k].cmd \in {"create_blob", "submit_cmd2"} => ip + 1 > 14
        BY <2>2, <3>2
      <4>2. CASE k <= Len(toServer) /\ toServer'[k] = toServer[k]
        <5>1. k \in 1 .. Len(toServer)  BY <2>1, <4>2 DEF Joined
        <5>2. QED  BY <1>3, <1>13, <4>2, <5>1 DEF Permitted
      <4>3. CASE k = Len(toServer') /\ toServer'[k] = e  BY <1>3, <3>1, <4>3
      <4>4. QED  BY <2>1, <4>2, <4>3 DEF Joined
    <3>8. QED  BY <3>3, <3>4, <3>5, <3>6, <3>7 DEF Permitted
  <2>11. RingLife'
    <3>1. Step.cmd = "submit_cmd2" => Venus /\ ip > 20  BY <1>4 DEF Sending, VenusCmd, Venus
    <3>2. Registering' => Registering \/ (Venus /\ ip > 20 /\ ip' = ip + 1)
      <4>1. SUFFICES ASSUME NEW k \in 1 .. Len(toServer'), toServer'[k].cmd = "submit_cmd2"
                     PROVE  Registering \/ (Venus /\ ip > 20 /\ ip' = ip + 1)
        BY DEF Registering
      <4>2. CASE k <= Len(toServer) /\ toServer'[k] = toServer[k]
        <5>1. k \in 1 .. Len(toServer)  BY <2>1, <4>2 DEF Joined
        <5>2. QED  BY <4>1, <4>2, <5>1 DEF Registering
      <4>3. CASE toServer'[k] = e  BY <1>5, <2>2, <3>1, <4>1, <4>3
      <4>4. QED  BY <2>1, <4>2, <4>3 DEF Joined
    <3>3. QED  BY <1>1, <1>7, <1>13, <3>2, RingLeftAlone
  <2>12. QED  BY <1>10, <1>11, <2>6, <2>7, <2>8, <2>9, <2>10, <2>11
<1>14. QED  BY <1>2, <1>12, <1>13

-----------------------------------------------------------------------------
(* The server.                                                             *)

\* What travels to the client.
ReplyRecord == [cmd : HasReply, part : Parts, val : Nat]

\* How many elements the reply r to cmd must have.
Total(cmd, r) ==
  CASE cmd \in {"ping", "transfer_get"} -> 1
    [] cmd = "version" -> 2
    [] cmd = "get_capset" -> r[1].val + 1
    [] OTHER -> 3

\* A whole reply: its elements, its length, and what its numbers say.
WholeReply(cmd, r) ==
  /\ r \in Seq(ReplyRecord) /\ Len(r) = Total(cmd, r) /\ Len(r) >= 1
  /\ \A k \in 1 .. Len(r) : r[k].cmd = cmd /\ r[k].part = PartAt(cmd, k)
  /\ cmd = "get_capset" => r[1].val > 0
  /\ cmd = "version" => /\ r[2].val \in Nat /\ r[2].val > 0
                        /\ \A k \in 1 .. Len(r) : r[k].part = "version" => r[k].val = r[2].val

\* The reply to GET_CAPSET: two elements and a body of n dwords.
LEMMA CapsetReply ==
  ASSUME NEW n \in Nat, NEW v \in {0, 1}
  PROVE  WholeReply("get_capset",
           <<Elem("get_capset", "header", 1 + n), Elem("get_capset", "valid", v)>>
             \o [i \in 1 .. n |-> Elem("get_capset", "body", 0)])
<1> DEFINE a == <<Elem("get_capset", "header", 1 + n), Elem("get_capset", "valid", v)>>
           b == [i \in 1 .. n |-> Elem("get_capset", "body", 0)]
           r == a \o b
<1>1. a \in Seq(ReplyRecord) /\ Len(a) = 2 /\ a[1] = Elem("get_capset", "header", 1 + n)
      /\ a[2] = Elem("get_capset", "valid", v)
  BY DEF Elem, ReplyRecord, HasReply, Parts
<1>2. b \in Seq(ReplyRecord) /\ Len(b) = n /\ \A i \in 1 .. n : b[i] = Elem("get_capset", "body", 0)
  BY DEF Elem, ReplyRecord, HasReply, Parts
<1> HIDE DEF a, b
<1>3. /\ r \in Seq(ReplyRecord) /\ Len(r) = 2 + n
      /\ \A i \in 1 .. 2 + n : r[i] = IF i <= 2 THEN a[i] ELSE b[i - 2]
  <2>1. /\ a \o b \in Seq(ReplyRecord) /\ Len(a \o b) = Len(a) + Len(b)
        /\ \A i \in 1 .. Len(a) + Len(b) : (a \o b)[i] = IF i <= Len(a) THEN a[i] ELSE b[i - Len(a)]
    BY <1>1, <1>2, ConcatProperties
  <2>2. Len(a) = 2 /\ Len(b) = n  BY <1>1, <1>2
  <2>3. QED  BY <2>1, <2>2
<1> HIDE DEF r
<1>4. r[1] = a[1] /\ r[2] = a[2] /\ \A i \in 3 .. 2 + n : r[i] = b[i - 2]  BY <1>3
<1>5. r[1].val = 1 + n  BY <1>1, <1>4 DEF Elem
<1>6. ASSUME NEW k \in 1 .. Len(r)  PROVE r[k].cmd = "get_capset" /\ r[k].part = PartAt("get_capset", k)
  <2>1. CASE k = 1  BY <1>1, <1>4, <2>1 DEF Elem, PartAt
  <2>2. CASE k = 2  BY <1>1, <1>4, <2>2 DEF Elem, PartAt
  <2>3. CASE k > 2
    <3>1. k \in 3 .. 2 + n /\ k - 2 \in 1 .. n  BY <1>3, <2>3
    <3>2. r[k] = Elem("get_capset", "body", 0)  BY <1>2, <1>4, <3>1
    <3>3. QED  BY <2>3, <3>2 DEF Elem, PartAt
  <2>4. QED  BY <1>3, <2>1, <2>2, <2>3
<1>7. WholeReply("get_capset", r)  BY <1>3, <1>5, <1>6 DEF WholeReply, Total
<1>8. QED  BY <1>7 DEF r, a, b

\* What the server writes for a request that has a reply is a whole reply, and
\* nothing for one that has none.
LEMMA ReplyFacts ==
  ASSUME serverMax \in ServerVersions, NEW cmd \in Cmds, NEW r \in Replies(cmd)
  PROVE  IF cmd \in HasReply THEN WholeReply(cmd, r) ELSE r = << >>
<1> USE DEF Elem
<1>1. CASE cmd = "ping"
  <2>1. r = <<Elem(cmd, "header", 0)>>  BY <1>1 DEF Replies
  <2>2. QED  BY <1>1, <2>1 DEF WholeReply, Total, PartAt, HasReply, ReplyRecord, Parts
<1>2. CASE cmd = "version"
  <2>1. PICK n \in Nat : n > 0 /\ r = <<Elem(cmd, "header", 1), Elem(cmd, "version", n)>>
    <3>1. Requested(mode) \in Nat /\ Requested(mode) > 0 /\ serverMax \in Nat /\ serverMax > 0
      BY SessionAssumption DEF Requested
    <3>2. QED  BY <1>2, <3>1 DEF Replies
  <2>2. QED  BY <1>2, <2>1 DEF WholeReply, Total, PartAt, HasReply, ReplyRecord, Parts
<1>3. CASE cmd = "get_param"
  <2>1. PICK v \in {0, 1}, n \in {0, 1} :
          r = <<Elem(cmd, "header", 2), Elem(cmd, "valid", v), Elem(cmd, "value", n)>>
    BY <1>3 DEF Replies
  <2>2. QED  BY <1>3, <2>1 DEF WholeReply, Total, PartAt, HasReply, ReplyRecord, Parts
<1>4. CASE cmd = "get_capset"
  <2> DEFINE F(v, n) == <<Elem("get_capset", "header", 1 + n), Elem("get_capset", "valid", v)>>
                          \o [i \in 1 .. n |-> Elem("get_capset", "body", 0)]
  <2>1. \A v \in {0, 1}, n \in CapsetDwords : WholeReply("get_capset", F(v, n))
    BY SessionAssumption, CapsetReply
  <2>2. Replies("get_capset") = {F(v, n) : v \in {0, 1}, n \in CapsetDwords}  BY DEF Replies
  <2> HIDE DEF F
  <2>3. PICK v \in {0, 1}, n \in CapsetDwords : r = F(v, n)  BY <1>4, <2>2
  <2>4. QED  BY <1>4, <2>1, <2>3 DEF HasReply
<1>5. CASE cmd = "create_blob"
  <2>1. r = <<Elem(cmd, "header", 1), Elem(cmd, "res_id", 1), Elem(cmd, "fd", 0)>>  BY <1>5 DEF Replies
  <2>2. QED  BY <1>5, <2>1 DEF WholeReply, Total, PartAt, HasReply, ReplyRecord, Parts
<1>6. CASE cmd = "transfer_get"
  <2>1. r = <<Elem(cmd, "pixels", 0)>>  BY <1>6 DEF Replies
  <2>2. QED  BY <1>6, <2>1 DEF WholeReply, Total, PartAt, HasReply, ReplyRecord, Parts
<1>7. CASE cmd \notin HasReply  BY <1>7 DEF Replies, HasReply
<1>8. QED  BY <1>1, <1>2, <1>3, <1>4, <1>5, <1>6, <1>7 DEF HasReply

\* A request that has a reply is the last of the queue, and the client waits for
\* that reply with nothing of it read yet.
LEMMA Awaited ==
  ASSUME TypeOK, Socketry, server = "up", toServer # << >>, toServer[1].cmd \in HasReply
  PROVE  /\ Len(toServer) = 1 /\ toClient = << >> /\ state = "run" /\ Step.do = "recv"
         /\ Step.cmd = toServer[1].cmd /\ Before(Step.parts) = 0
         /\ Step.cmd = "get_capset" => Step.parts = <<"header">>
         /\ Step.cmd = "version" => ip <= 6
<1> USE DEF Socketry
<1>1. Len(toServer) \in Nat /\ 1 \in 1 .. Len(toServer)
  <2>1. toServer \in Seq(RequestRecord)  BY DEF Streams, RequestRecord
  <2>2. QED  BY <2>1
<1>2. 1 = Len(toServer) /\ At("recv") /\ Step.cmd = toServer[1].cmd  BY <1>1 DEF Requests
<1>3. Before(Step.parts) = 0 /\ toClient = << >>  BY <1>2 DEF Requests
<1>4. state = "run" /\ Step.do = "recv"  BY <1>2 DEF At
<1>5. Reading(mode, ip, Step, Upcoming)  BY <1>4, Running DEF Here, Fits
<1>6. Step.cmd = "get_capset" => Step.parts = <<"header">>  BY <1>3, <1>5 DEF Reading, Before
<1>7. Step.cmd = "version" => ip <= 6  BY <1>5 DEF Reading
<1>8. QED  BY <1>2, <1>3, <1>4, <1>6, <1>7

\* k elements of the reply r are on their way to the client.
Arrives(r, k) ==
  /\ toClient' \in Seq(ReplyRecord) /\ Len(toClient') = k
  /\ k <= ToCome' /\ (k = Len(r) => ToCome' = k)
  /\ \A j \in 1 .. k : /\ toClient'[j].cmd = Step'.cmd /\ toClient'[j] = r[j]
                       /\ toClient'[j].part = PartAt(Step'.cmd, Before(Step'.parts) + j)
  /\ Step'.cmd = "get_capset" => (toClient' # << >> => toClient'[1].val > 0)

\* A reply, or a prefix of it, is what the waiting client expects.
LEMMA Arriving ==
  ASSUME Step' = Step, Step.cmd \in HasReply, Before(Step.parts) = 0,
         Step.cmd = "get_capset" => Step.parts = <<"header">>,
         NEW r, WholeReply(Step.cmd, r), NEW k \in 0 .. Len(r), toClient' = SubSeq(r, 1, k)
  PROVE  Arrives(r, k)
<1>1. r \in Seq(ReplyRecord) /\ Len(r) \in Nat  BY DEF WholeReply
<1>2. toClient' \in Seq(ReplyRecord) /\ Len(toClient') = k /\ \A j \in 1 .. k : toClient'[j] = r[j]
  <2>1. k \in Int /\ 1 \in Int /\ \A j \in 1 .. k : r[j] \in ReplyRecord  BY <1>1
  <2>2. /\ SubSeq(r, 1, k) \in Seq(ReplyRecord)
        /\ Len(SubSeq(r, 1, k)) = IF 1 <= k THEN k - 1 + 1 ELSE 0
        /\ \A j \in 1 .. k - 1 + 1 : SubSeq(r, 1, k)[j] = r[1 + j - 1]
    BY <2>1, SubSeqProperties
  <2>3. \A j \in 1 .. k : 1 + j - 1 = j /\ j \in 1 .. k - 1 + 1  BY <1>1
  <2>4. Len(SubSeq(r, 1, k)) = k  BY <1>1, <2>2
  <2>5. QED  BY <2>2, <2>3, <2>4
<1>3. \A j \in 1 .. k : r[j].cmd = Step.cmd /\ r[j].part = PartAt(Step.cmd, 0 + j)
  <2>1. \A j \in 1 .. k : j \in 1 .. Len(r) /\ 0 + j = j  BY <1>1
  <2>2. QED  BY <2>1 DEF WholeReply
<1>4. toClient' # << >> => k >= 1  BY <1>2
<1>5. toClient' = << >> => k = 0  BY <1>2
<1>6. k >= 1 => toClient'[1] = r[1]  BY <1>1, <1>2
<1>7. k <= ToCome' /\ (k = Len(r) => ToCome' = k)
  <2>1. Len(r) = Total(Step.cmd, r) /\ Len(r) >= 1  BY DEF WholeReply
  <2>2. CASE Step.cmd \in {"ping", "transfer_get"}  BY <1>1, <2>1, <2>2 DEF Total, ToCome
  <2>3. CASE Step.cmd = "version"  BY <1>1, <2>1, <2>3 DEF Total, ToCome
  <2>4. CASE Step.cmd = "get_capset"
    <3>1. Len(r) = r[1].val + 1  BY <2>1, <2>4 DEF Total
    <3>2. CASE toClient' = << >>
      <4>1. ToCome' = 2  BY <2>4, <3>2 DEF ToCome
      <4>2. QED  BY <1>5, <2>1, <3>2, <4>1
    <3>3. CASE toClient' # << >>
      <4>1. ToCome' = toClient'[1].val + 1  BY <2>4, <3>3 DEF ToCome
      <4>2. ToCome' = Len(r)  BY <1>4, <1>6, <3>1, <3>3, <4>1
      <4>3. QED  BY <1>1, <4>2
    <3>4. QED  BY <3>2, <3>3
  <2>5. CASE Step.cmd \in {"get_param", "create_blob"}  BY <1>1, <2>1, <2>5 DEF Total, ToCome
  <2>6. QED  BY <2>2, <2>3, <2>4, <2>5 DEF HasReply
<1>8. Step.cmd = "get_capset" => (toClient' # << >> => toClient'[1].val > 0)
  BY <1>4, <1>6 DEF WholeReply
<1>9. QED  BY <1>2, <1>3, <1>7, <1>8 DEF Arrives

\* The queue without its first request.
Left(q, r) ==
  /\ r \in Seq(RequestRecord) /\ Len(q) \in Nat /\ Len(q) >= 1 /\ Len(r) = Len(q) - 1
  /\ \A k \in 1 .. Len(r) : k + 1 \in 1 .. Len(q) /\ r[k] = q[k + 1]
  /\ r # << >> => r[Len(r)] = q[Len(q)]

\* Tail takes the first request off.
LEMMA Leaving ==
  ASSUME NEW q \in Seq(RequestRecord), q # << >>
  PROVE  Left(q, Tail(q))
<1> DEFINE r == Tail(q)
<1>1. Len(q) \in Nat /\ Len(q) >= 1  OBVIOUS
<1>2. r \in Seq(RequestRecord) /\ Len(r) = Len(q) - 1 /\ \A k \in 1 .. Len(r) : r[k] = q[k + 1]
  BY HeadTailProperties
<1> HIDE DEF r
<1>3. \A k \in 1 .. Len(r) : k + 1 \in 1 .. Len(q)  BY <1>1, <1>2
<1>4. r # << >> => r[Len(r)] = q[Len(q)]
  <2>1. SUFFICES ASSUME r # << >>  PROVE r[Len(r)] = q[Len(q)]  OBVIOUS
  <2>2. Len(r) \in 1 .. Len(r) /\ Len(r) + 1 = Len(q)  BY <1>1, <1>2, <2>1
  <2>3. QED  BY <1>2, <2>2
<1>5. Left(q, r)  BY <1>1, <1>2, <1>3, <1>4 DEF Left
<1>6. QED  BY <1>5 DEF r

\* Whatever request comes first is allowed.
LEMMA FirstIsAllowed ==
  ASSUME TypeOK, Socketry, server = "up", toServer # << >>
  PROVE  Allowed(toServer[1].cmd)
<1> USE DEF Socketry
<1> DEFINE c == toServer[1].cmd
<1>1. toServer \in Seq(RequestRecord)  BY DEF Streams, RequestRecord
<1>2. 1 \in 1 .. Len(toServer) /\ Len(toServer) \in Nat  BY <1>1
<1>3. ip > 1
  <2>1. mode \in Programs  BY SessionAssumption DEF TypeOK, Programs
  <2>2. Len(Script(mode)) \in Nat  BY <2>1, ScriptLength DEF LengthOK
  <2>3. ip \in Nat /\ ip >= 1 /\ ip # 1  BY <2>2 DEF TypeOK, Course
  <2>4. QED  BY <2>3
<1>4. c # "create_renderer" => version > 0  BY <1>3 DEF Permitted, First
<1>5. c \in VenusCmd => version >= 3  BY <1>2 DEF Permitted
<1>6. c \in {"create_blob", "submit_cmd2"} => contextUp
  <2>1. c \in {"create_blob", "submit_cmd2"} => Venus /\ ip > 14  BY <1>2 DEF Permitted, VenusCmd
  <2>2. QED  BY <2>1 DEF Permitted, First
<1>7. QED  BY <1>4, <1>5, <1>6 DEF Allowed

\* The server serves a request.
LEMMA ServeStep ==
  ASSUME TypeOK, Rest, Serve  PROVE TypeOK' /\ Rest'
<1> USE DEF Rest, Socketry
<1> DEFINE c == toServer[1].cmd
<1>1. /\ server = "up" /\ toServer # << >> /\ toServer' = Tail(toServer)
      /\ UNCHANGED <<mode, clientVars, serverMax, head, tail>>
  BY DEF Serve
<1>2. Allowed(c)  BY <1>1, FirstIsAllowed
<1>3. /\ contextUp' = (contextUp \/ c = "context_init")
      /\ consumer' = IF c = "submit_cmd2" THEN "running" ELSE consumer
      /\ server' = server /\ refused' = refused
  BY <1>2 DEF Serve
<1>4. PICK r \in Replies(c) : /\ toClient' = toClient \o r
                              /\ version' = IF c = "version" THEN r[2].val
                                            ELSE IF c = "create_renderer" THEN 1 ELSE version
  BY <1>2 DEF Serve
<1>5. toServer \in Seq(RequestRecord) /\ toClient \in Seq(ReplyRecord) /\ serverMax \in ServerVersions
  BY DEF Streams, RequestRecord, ReplyRecord
<1>6. Left(toServer, toServer')  BY <1>1, <1>5, Leaving
<1>7. Len(toServer) \in Nat /\ 1 \in 1 .. Len(toServer) /\ c \in Cmds
  <2>1. Len(toServer) \in Nat /\ 1 \in 1 .. Len(toServer)  BY <1>1, <1>5
  <2>2. toServer[1] \in RequestRecord  BY <1>5, <2>1, ElementOfSeq
  <2>3. QED  BY <2>1, <2>2 DEF RequestRecord
<1>8. /\ mode' = mode /\ ip' = ip /\ state' = state /\ verdict' = verdict /\ lastLen' = lastLen
      /\ held' = held /\ deferred' = deferred /\ headStart' = headStart
      /\ Step' = Step /\ Venus' = Venus /\ Mapped' = Mapped
  BY <1>1 DEF clientVars, Step, Venus, Mapped
<1>9. IF c \in HasReply THEN WholeReply(c, r) ELSE r = << >>  BY <1>5, <1>7, ReplyFacts
<1>10. At("recv")' = At("recv") /\ At("mmap")' = At("mmap")  BY <1>8 DEF At
<1>11. ip > 1 /\ ip \in Nat
  <2>1. mode \in Programs  BY SessionAssumption DEF TypeOK, Programs
  <2>2. Len(Script(mode)) \in Nat  BY <2>1, ScriptLength DEF LengthOK
  <2>3. ip \in Nat /\ ip >= 1 /\ ip # 1  BY <1>1, <2>2 DEF TypeOK, Course
  <2>4. QED  BY <2>3
<1>12. state # "dial"  BY <1>1 DEF Course
<1>13. ASSUME c \in HasReply
       PROVE  Socketry' /\ RingLife' /\ version' \in Nat /\ consumer' \in {"none", "running", "idle"}
  <2>1. /\ Len(toServer) = 1 /\ toClient = << >> /\ state = "run" /\ Step.do = "recv"
        /\ Step.cmd = c /\ Before(Step.parts) = 0
        /\ Step.cmd = "get_capset" => Step.parts = <<"header">>
        /\ Step.cmd = "version" => ip <= 6
    BY <1>1, <1>13, Awaited
  <2>2. toServer' = << >> /\ Len(toServer') = 0  BY <1>6, <2>1 DEF Left
  <2>3. r \in Seq(ReplyRecord) /\ WholeReply(c, r) /\ Len(r) \in Nat  BY <1>9, <1>13 DEF WholeReply
  <2>4. toClient' = SubSeq(r, 1, Len(r))
    <3>1. << >> \o r = r  BY <2>3, ConcatEmptySeq
    <3>2. SubSeq(r, 1, Len(r)) = r  BY <2>3, SubSeqFull
    <3>3. QED  BY <1>4, <2>1, <3>1, <3>2
  <2>5. Arrives(r, Len(r))
    <3>1. WholeReply(Step.cmd, r) /\ Len(r) \in 0 .. Len(r) /\ Step.cmd \in HasReply  BY <1>13, <2>1, <2>3
    <3>2. QED  BY <1>8, <2>1, <2>4, <3>1, Arriving
  <2>6. Streams' /\ Course' /\ NeverRefused'
    BY <1>1, <1>3, <1>6, <1>8, <1>12, <2>2, <2>5
    DEF Arrives, Left, Streams, Course, NeverRefused, RequestRecord, ReplyRecord
  <2>7. version' \in Nat /\ version' > 0
    <3>1. CASE c = "version"  BY <1>4, <2>3, <3>1 DEF WholeReply
    <3>2. CASE c # "version"
      <4>1. version' = version  BY <1>4, <1>13, <3>2 DEF HasReply
      <4>2. c # "create_renderer"  BY <1>13 DEF HasReply
      <4>3. QED  BY <1>2, <4>1, <4>2 DEF Allowed, TypeOK
    <3>3. QED  BY <3>1, <3>2
  <2>8. Reply'
    <3>1. Step.cmd = "version" =>
            \A k \in 1 .. Len(toClient') : toClient'[k].part = "version" => toClient'[k].val = version'
      BY <1>4, <2>1, <2>3, <2>5 DEF Arrives, WholeReply
    <3>2. QED  BY <1>8, <2>1, <2>5, <3>1 DEF Reply, Arrives
  <2>9. Requests'  BY <1>1, <1>8, <2>2 DEF Requests
  <2>10. Permitted'
    <3>1. Venus /\ ip > 6 => version' >= 3
      <4>1. Venus /\ ip > 6 => c # "version"  BY <1>11, <2>1
      <4>2. c # "create_renderer"  BY <1>13 DEF HasReply
      <4>3. QED  BY <1>1, <1>4, <4>1, <4>2 DEF Permitted
    <3>2. Venus /\ ip > 14 => contextUp'
      <4>1. ~First("context_init")  BY <1>13 DEF First, HasReply
      <4>2. Venus /\ ip > 14 => contextUp  BY <1>1, <4>1 DEF Permitted
      <4>3. QED  BY <1>3, <4>2
    <3>3. QED  BY <1>8, <2>2, <2>7, <3>1, <3>2 DEF Permitted
  <2>11. RingLife'
    <3>1. consumer' = consumer  BY <1>3, <1>13 DEF HasReply
    <3>2. QED  BY <1>1, <1>8, <2>2, <3>1 DEF RingLife
  <2>12. version' \in Nat /\ consumer' \in {"none", "running", "idle"}  BY <1>3, <2>7 DEF TypeOK
  <2>13. QED  BY <2>6, <2>8, <2>9, <2>10, <2>11, <2>12
<1>14. ASSUME c \notin HasReply
       PROVE  Socketry' /\ RingLife' /\ version' \in Nat /\ consumer' \in {"none", "running", "idle"}
  <2>1. toClient' = toClient
    <3>1. toClient \o << >> = toClient  BY <1>5, ConcatEmptySeq
    <3>2. QED  BY <1>4, <1>9, <1>14, <3>1
  <2>2. ToCome' = ToCome  BY <1>8, <2>1 DEF ToCome
  <2>3. Streams' /\ Course' /\ NeverRefused'
    BY <1>1, <1>3, <1>6, <1>8, <1>11, <1>12, <2>1
    DEF Left, Streams, Course, NeverRefused, RequestRecord
  <2>4. At("recv") => /\ toServer' # << >> /\ toClient = << >> /\ Before(Step.parts) = 0
                      /\ toServer'[Len(toServer')].cmd = Step.cmd
    <3>1. SUFFICES ASSUME At("recv")
                   PROVE  /\ toServer' # << >> /\ toClient = << >> /\ Before(Step.parts) = 0
                          /\ toServer'[Len(toServer')].cmd = Step.cmd
      OBVIOUS
    <3>2. Before(Step.parts) = 0 /\ toClient = << >> /\ toServer[Len(toServer)].cmd = Step.cmd
      BY <1>1, <3>1 DEF Requests
    <3>3. Step.cmd \in HasReply  BY <3>1, Running DEF At, Here, Fits, Reading
    <3>4. Len(toServer) # 1  BY <1>14, <3>2, <3>3
    <3>5. toServer' # << >>
      <4>1. Len(toServer') # 0  BY <1>6, <1>7, <3>4 DEF Left
      <4>2. QED  BY <4>1
    <3>6. QED  BY <1>6, <3>2, <3>5 DEF Left
  <2>5. Reply'
    <3>1. CASE Step.do = "recv" /\ state = "run"
      <4>1. toServer' # << >> /\ toClient' = << >> /\ Len(toClient') = 0  BY <2>1, <2>4, <3>1 DEF At
      <4>2. QED  BY <1>1, <1>3, <1>8, <2>1, <2>2, <3>1, <4>1 DEF Reply
    <3>2. CASE ~(Step.do = "recv" /\ state = "run")  BY <1>8, <2>1, <3>2 DEF Reply
    <3>3. QED  BY <3>1, <3>2
  <2>6. Requests'
    <3>1. \A k \in 1 .. Len(toServer') : toServer'[k].cmd \in HasReply =>
            k = Len(toServer') /\ At("recv") /\ Step.cmd = toServer'[k].cmd
      <4>1. SUFFICES ASSUME NEW k \in 1 .. Len(toServer'), toServer'[k].cmd \in HasReply
                     PROVE  k = Len(toServer') /\ At("recv") /\ Step.cmd = toServer'[k].cmd
        OBVIOUS
      <4>2. k + 1 \in 1 .. Len(toServer) /\ toServer[k + 1] = toServer'[k]  BY <1>6 DEF Left
      <4>3. k + 1 = Len(toServer) /\ At("recv") /\ Step.cmd = toServer[k + 1].cmd
        BY <1>1, <4>1, <4>2 DEF Requests
      <4>4. k = Len(toServer')  BY <1>6, <4>3 DEF Left
      <4>5. QED  BY <4>2, <4>3, <4>4
    <3>2. ~(state = "run" /\ ip > 1 /\ Script(mode)[ip - 1].do = "recv")  BY <1>1 DEF Requests
    <3>3. QED  BY <1>8, <1>10, <2>1, <2>4, <3>1, <3>2 DEF Requests
  <2>7. version' = (IF c = "create_renderer" THEN 1 ELSE version) /\ version' > 0 /\ version' \in Nat
    <3>1. version' = IF c = "create_renderer" THEN 1 ELSE version  BY <1>4, <1>14 DEF HasReply
    <3>2. QED  BY <1>2, <3>1 DEF Allowed, TypeOK
  <2>8. Permitted'
    <3>1. \A k \in 1 .. Len(toServer') : k + 1 \in 1 .. Len(toServer) /\ toServer'[k] = toServer[k + 1]
      BY <1>6 DEF Left
    <3>2. \A k \in 1 .. Len(toServer') : toServer'[k].cmd # "create_renderer"
      <4>1. SUFFICES ASSUME NEW k \in 1 .. Len(toServer'), toServer'[k].cmd = "create_renderer"  PROVE FALSE
        OBVIOUS
      <4>2. k + 1 = 1  BY <1>1, <3>1, <4>1 DEF Permitted
      <4>3. QED  BY <4>2
    <3>3. Venus /\ ip > 6 => version' >= 3
      <4>1. c = "create_renderer" => ip <= 3  BY <1>1, <1>7 DEF Permitted
      <4>2. CASE c = "create_renderer"  BY <1>11, <4>1, <4>2
      <4>3. CASE c # "create_renderer"  BY <1>1, <2>7, <4>3 DEF Permitted
      <4>4. QED  BY <4>2, <4>3
    <3>4. Venus /\ ip > 14 => contextUp'  BY <1>1, <1>3 DEF Permitted, First
    <3>5. \A k \in 1 .. Len(toServer') :
            /\ toServer'[k].cmd \in VenusCmd => Venus /\ ip > 6
            /\ toServer'[k].cmd \in {"create_blob", "submit_cmd2"} => ip > 14
      BY <1>1, <3>1 DEF Permitted
    <3>6. QED  BY <1>8, <2>7, <3>2, <3>3, <3>4, <3>5 DEF Permitted
  <2>9. RingLife'
    <3>1. consumer' # "none" \/ Registering' => consumer # "none" \/ Registering
      <4>1. Registering' => Registering  BY <1>6 DEF Registering, Left
      <4>2. consumer' # "none" => consumer # "none" \/ Registering  BY <1>3, <1>7 DEF Registering
      <4>3. QED  BY <4>1, <4>2
    <3>2. consumer' # "none" \/ Registering' => Venus /\ ip > 21  BY <3>1 DEF RingLife, Registering
    <3>3. QED  BY <1>1, <1>8, <3>2 DEF RingLife, Registering
  <2>10. version' \in Nat /\ consumer' \in {"none", "running", "idle"}  BY <1>3, <2>7 DEF TypeOK
  <2>11. QED  BY <2>3, <2>5, <2>6, <2>8, <2>9, <2>10
<1>15. Owned'
  <2>1. Stack(Mapped)' = Stack(Mapped)  BY <1>8 DEF Stack, Map, Socket
  <2>2. QED  BY <1>8, <1>10, <2>1 DEF Owned, Stack, Map, Socket
<1>16. TypeOK'  BY <1>1, <1>3, <1>8, <1>13, <1>14 DEF TypeOK
<1>17. QED  BY <1>13, <1>14, <1>15, <1>16

\* The server dies, with a part of a reply written.
LEMMA ServerDiesStep ==
  ASSUME TypeOK, Rest, ServerDies  PROVE TypeOK' /\ Rest'
<1> USE DEF Rest, Socketry
<1> DEFINE c == toServer[1].cmd
<1>1. /\ server = "up" /\ server' = "down" /\ consumer' = "none"
      /\ UNCHANGED <<mode, clientVars, toServer, serverMax, version, contextUp, refused, head, tail>>
  BY DEF ServerDies
<1>2. \/ /\ toServer # << >>
         /\ \E r \in Replies(c) : \E k \in 0 .. Len(r) : toClient' = toClient \o SubSeq(r, 1, k)
      \/ toClient' = toClient
  BY DEF ServerDies
<1>3. toServer \in Seq(RequestRecord) /\ toClient \in Seq(ReplyRecord) /\ serverMax \in ServerVersions
  BY DEF Streams, RequestRecord, ReplyRecord
<1>4. /\ mode' = mode /\ ip' = ip /\ state' = state /\ verdict' = verdict /\ lastLen' = lastLen
      /\ held' = held /\ deferred' = deferred /\ headStart' = headStart
      /\ Step' = Step /\ Venus' = Venus /\ Mapped' = Mapped
  BY <1>1 DEF clientVars, Step, Venus, Mapped
<1>5. At("mmap")' = At("mmap")  BY <1>4 DEF At
<1>6. ASSUME toClient' = toClient  PROVE toClient' \in Seq(ReplyRecord) /\ Reply' /\ Course'
  <2>1. ToCome' = ToCome  BY <1>4, <1>6 DEF ToCome
  <2>2. Reply'  BY <1>1, <1>4, <1>6, <2>1 DEF Reply
  <2>3. QED  BY <1>1, <1>3, <1>4, <1>6, <2>2 DEF Course
<1>7. ASSUME toServer # << >>, NEW r \in Replies(c), NEW k \in 0 .. Len(r),
             toClient' = toClient \o SubSeq(r, 1, k)
      PROVE  toClient' \in Seq(ReplyRecord) /\ Reply' /\ Course'
  <2>1. c \in Cmds
    <3>1. 1 \in 1 .. Len(toServer)  BY <1>3, <1>7
    <3>2. toServer[1] \in RequestRecord  BY <1>3, <3>1, ElementOfSeq
    <3>3. QED  BY <3>2 DEF RequestRecord
  <2>2. IF c \in HasReply THEN WholeReply(c, r) ELSE r = << >>  BY <1>3, <2>1, ReplyFacts
  <2>3. CASE c \in HasReply
    <3>1. /\ toClient = << >> /\ state = "run" /\ Step.do = "recv"
          /\ Step.cmd = c /\ Before(Step.parts) = 0
          /\ Step.cmd = "get_capset" => Step.parts = <<"header">>
      BY <1>1, <1>7, <2>3, Awaited
    <3>2. WholeReply(c, r) /\ r \in Seq(ReplyRecord) /\ Len(r) \in Nat  BY <2>2, <2>3 DEF WholeReply
    <3>3. toClient' = SubSeq(r, 1, k)
      <4>1. SubSeq(r, 1, k) \in Seq(ReplyRecord)
        <5>1. 1 \in Int /\ k \in Int /\ \A i \in 1 .. k : r[i] \in ReplyRecord  BY <3>2
        <5>2. QED  BY <5>1, SubSeqProperties
      <4>2. << >> \o SubSeq(r, 1, k) = SubSeq(r, 1, k)  BY <4>1, ConcatEmptySeq
      <4>3. QED  BY <1>7, <3>1, <4>2
    <3>4. Arrives(r, k)
      <4>1. WholeReply(Step.cmd, r) /\ Step.cmd \in HasReply  BY <2>3, <3>1, <3>2
      <4>2. QED  BY <1>4, <3>1, <3>3, <4>1, Arriving
    <3>5. Reply'  BY <1>1, <1>4, <3>1, <3>4 DEF Reply, Arrives
    <3>6. QED  BY <1>1, <1>4, <3>1, <3>4, <3>5 DEF Course, Arrives
  <2>4. CASE c \notin HasReply
    <3>1. SubSeq(r, 1, k) = << >>
      <4>1. r = << >> /\ k = 0  BY <2>2, <2>4
      <4>2. QED  BY <4>1, SubSeqEmpty
    <3>2. toClient' = toClient
      <4>1. toClient \o << >> = toClient  BY <1>3, ConcatEmptySeq
      <4>2. QED  BY <1>7, <3>1, <4>1
    <3>3. QED  BY <1>6, <3>2
  <2>5. QED  BY <2>3, <2>4
<1>8. toClient' \in Seq(ReplyRecord) /\ Reply' /\ Course'  BY <1>2, <1>6, <1>7
<1>9. Streams' /\ NeverRefused'  BY <1>1, <1>3, <1>8 DEF Streams, NeverRefused, RequestRecord, ReplyRecord
<1>10. Requests' /\ Permitted'  BY <1>1 DEF Requests, Permitted
<1>11. RingLife'  BY <1>1, <1>4 DEF RingLife
<1>12. Owned'
  <2>1. Stack(Mapped)' = Stack(Mapped)  BY <1>4 DEF Stack, Map, Socket
  <2>2. QED  BY <1>4, <1>5, <2>1 DEF Owned, Stack, Map, Socket
<1>13. TypeOK'  BY <1>1, <1>4 DEF TypeOK
<1>14. QED  BY <1>8, <1>9, <1>10, <1>11, <1>12, <1>13

-----------------------------------------------------------------------------
(* Replies.                                                                *)

\* Where in a reply its parts are read.
LEMMA Positions ==
  /\ Before(<<"header">>) = 0 /\ Before(<<"pixels">>) = 0 /\ Before(<<"version">>) = 1
  /\ Before(<<"valid", "value">>) = 1 /\ Before(<<"valid">>) = 1 /\ Before(<<"res_id">>) = 1
  /\ Before(<<"body">>) = 2 /\ Before(<<"fd">>) = 2
  BY DEF Before

\* The last read of a reply takes all that is still to come.
LEMMA LastRead ==
  ASSUME Reading(mode, ip, Step, Upcoming), Upcoming.do # "recv", lastLen \in Nat,
         Step.cmd = "get_capset" /\ Step.parts # <<"header">> => lastLen > 0
  PROVE  Needed = ToCome /\ Needed \in Nat /\ (Needed = 0 => Before(Step.parts) = 2)
<1>1. CASE Step.cmd = "ping" /\ Step.parts = <<"header">>  BY <1>1 DEF Needed, ToCome
<1>2. CASE Step.cmd = "transfer_get" /\ Step.parts = <<"pixels">>  BY <1>2 DEF Needed, ToCome
<1>3. CASE Step.cmd = "version" /\ Step.parts = <<"version">>  BY <1>3, Positions DEF Needed, ToCome
<1>4. CASE Step.cmd = "get_param" /\ Step.parts = <<"valid", "value">>  BY <1>4, Positions DEF Needed, ToCome
<1>5. CASE Step.cmd = "get_capset" /\ Step.parts = <<"body">>  BY <1>5, Positions DEF Needed, ToCome
<1>6. CASE Step.cmd = "create_blob" /\ Step.parts = <<"fd">>  BY <1>6, Positions DEF Needed, ToCome
<1>7. QED  BY <1>1, <1>2, <1>3, <1>4, <1>5, <1>6 DEF Reading, ReadsOn

\* Any other read takes one element and leaves the client after it.
LEMMA EarlierRead ==
  ASSUME Reading(mode, ip, Step, Upcoming), Upcoming.do = "recv"
  PROVE  /\ Needed = 1 /\ Upcoming.cmd = Step.cmd /\ Step.parts # <<"fd">>
         /\ Before(Step.parts) \in {0, 1}
         /\ Before(Upcoming.parts) = Before(Step.parts) + 1 /\ Upcoming.parts # <<"header">>
         /\ \/ Step.cmd = "version" /\ Step.parts = <<"header">>
            \/ Step.cmd \in {"get_param", "create_blob"}
            \/ Step.cmd = "get_capset" /\ Step.parts = <<"header">>
            \/ Step.cmd = "get_capset" /\ Step.parts # <<"header">> /\ Before(Step.parts) = 1
<1>1. CASE /\ Step.parts = <<"header">> /\ Step.cmd = "version"
           /\ Upcoming.cmd = Step.cmd /\ Upcoming.parts = <<"version">>
  BY <1>1, Positions DEF Needed
<1>2. CASE /\ Step.parts = <<"header">> /\ Step.cmd = "get_param"
           /\ Upcoming.cmd = Step.cmd /\ Upcoming.parts = <<"valid", "value">>
  BY <1>2, Positions DEF Needed
<1>3. CASE /\ Step.parts = <<"header">> /\ Step.cmd = "get_capset"
           /\ Upcoming.cmd = Step.cmd /\ Upcoming.parts = <<"valid">>
  BY <1>3, Positions DEF Needed
<1>4. CASE /\ Step.parts = <<"valid">> /\ Step.cmd = "get_capset"
           /\ Upcoming.cmd = Step.cmd /\ Upcoming.parts = <<"body">>
  BY <1>4, Positions DEF Needed
<1>5. CASE /\ Step.parts = <<"header">> /\ Step.cmd = "create_blob"
           /\ Upcoming.cmd = Step.cmd /\ Upcoming.parts = <<"res_id">>
  BY <1>5, Positions DEF Needed
<1>6. CASE /\ Step.parts = <<"res_id">> /\ Step.cmd = "create_blob"
           /\ Upcoming.cmd = Step.cmd /\ Upcoming.parts = <<"fd">>
  BY <1>6, Positions DEF Needed
<1>7. QED  BY <1>1, <1>2, <1>3, <1>4, <1>5, <1>6 DEF Reading, ReadsOn

\* What a read takes and what it leaves.
Cut(q, n, g, r) ==
  /\ g \in Seq(ReplyRecord) /\ Len(g) = n /\ DOMAIN g = 1 .. n /\ \A i \in 1 .. n : g[i] = q[i]
  /\ r \in Seq(ReplyRecord) /\ Len(r) = Len(q) - n /\ \A j \in 1 .. Len(r) : r[j] = q[n + j]
  /\ Len(q) = n => r = << >>

\* The two SubSeqs of ClientRecv cut the stream in two.
LEMMA Cutting ==
  ASSUME NEW q \in Seq(ReplyRecord), NEW n \in Nat, n <= Len(q)
  PROVE  Cut(q, n, SubSeq(q, 1, n), SubSeq(q, n + 1, Len(q)))
<1> DEFINE g == SubSeq(q, 1, n)
           r == SubSeq(q, n + 1, Len(q))
<1>1. Len(q) \in Nat /\ \A i \in 1 .. Len(q) : q[i] \in ReplyRecord  OBVIOUS
<1>2. g \in Seq(ReplyRecord) /\ Len(g) = n /\ \A i \in 1 .. n : g[i] = q[i]
  <2>1. n \in Int /\ 1 \in Int /\ \A j \in 1 .. n : q[j] \in ReplyRecord  BY <1>1
  <2>2. /\ g \in Seq(ReplyRecord)
        /\ Len(g) = IF 1 <= n THEN n - 1 + 1 ELSE 0
        /\ \A j \in 1 .. n - 1 + 1 : g[j] = q[1 + j - 1]
    BY <2>1, SubSeqProperties
  <2> HIDE DEF g
  <2>3. \A j \in 1 .. n : 1 + j - 1 = j /\ j \in 1 .. n - 1 + 1  OBVIOUS
  <2>4. Len(g) = n  BY <2>2
  <2>5. QED  BY <2>2, <2>3, <2>4
<1>3. r \in Seq(ReplyRecord) /\ Len(r) = Len(q) - n /\ \A j \in 1 .. Len(q) - n : r[j] = q[n + j]
  <2>1. n + 1 \in Int /\ Len(q) \in Int /\ \A j \in n + 1 .. Len(q) : q[j] \in ReplyRecord  BY <1>1
  <2>2. /\ r \in Seq(ReplyRecord)
        /\ Len(r) = IF n + 1 <= Len(q) THEN Len(q) - (n + 1) + 1 ELSE 0
        /\ \A j \in 1 .. Len(q) - (n + 1) + 1 : r[j] = q[(n + 1) + j - 1]
    BY <2>1, SubSeqProperties
  <2> HIDE DEF r
  <2> DEFINE l == Len(q)
             d == Len(r)
  <2>3. l \in Nat /\ n <= l /\ d = IF n + 1 <= l THEN l - (n + 1) + 1 ELSE 0  BY <1>1, <2>2
  <2> HIDE DEF l, d
  <2>4. d = l - n /\ \A j \in 1 .. l - n : (n + 1) + j - 1 = n + j /\ j \in 1 .. l - (n + 1) + 1  BY <2>3
  <2>5. Len(r) = Len(q) - n  BY <2>4 DEF l, d
  <2>6. \A j \in 1 .. Len(q) - n : r[j] = q[n + j]  BY <2>2, <2>4 DEF l
  <2>7. QED  BY <2>2, <2>5, <2>6
<1> HIDE DEF g, r
<1>4. DOMAIN g = 1 .. n  BY <1>2
<1>5. Len(q) = n => r = << >>  BY <1>1, <1>3
<1>6. Cut(q, n, g, r)  BY <1>2, <1>3, <1>4, <1>5 DEF Cut
<1>7. QED  BY <1>6 DEF g, r

\* What a client that reads finds.
Found ==
  /\ state = "run" /\ Step.do = "recv" /\ Reading(mode, ip, Step, Upcoming)
  /\ lastLen \in Nat /\ (Step.cmd = "get_capset" /\ Step.parts # <<"header">> => lastLen > 0)
  /\ Needed \in Nat /\ Len(toClient) \in Nat /\ Len(toClient) <= ToCome
  /\ \A k \in 1 .. Len(toClient) :
       toClient[k].cmd = Step.cmd /\ toClient[k].part = PartAt(Step.cmd, Before(Step.parts) + k)

\* Whatever the client reads next is a part of the reply it waits for.
LEMMA Finding ==
  ASSUME TypeOK, Socketry, At("recv")
  PROVE  Found
<1> USE DEF Socketry
<1>1. state = "run" /\ Step.do = "recv"  BY DEF At
<1>2. Reading(mode, ip, Step, Upcoming)  BY <1>1, Running DEF Here, Fits
<1>3. lastLen \in Nat  BY DEF TypeOK
<1>4. Step.cmd = "get_capset" /\ Step.parts # <<"header">> => lastLen > 0  BY <1>1 DEF Reply
<1>5. Needed \in Nat
  <2>1. CASE Upcoming.do = "recv"  BY <1>2, <2>1, EarlierRead
  <2>2. CASE Upcoming.do # "recv"  BY <1>2, <1>3, <1>4, <2>2, LastRead
  <2>3. QED  BY <2>1, <2>2
<1>6. Len(toClient) \in Nat
  <2>1. toClient \in Seq(ReplyRecord)  BY DEF Streams, ReplyRecord
  <2>2. QED  BY <2>1
<1>7. /\ Len(toClient) <= ToCome
      /\ \A k \in 1 .. Len(toClient) :
           toClient[k].cmd = Step.cmd /\ toClient[k].part = PartAt(Step.cmd, Before(Step.parts) + k)
  BY <1>1 DEF Reply
<1>8. QED  BY <1>1, <1>2, <1>3, <1>4, <1>5, <1>6, <1>7 DEF Found

\* The client moves on with nothing left of the reply, or with its next part.
LEMMA ReadReply ==
  ASSUME TypeOK, Socketry, Found, NEW g, NEW v, Needed <= Len(toClient),
         Cut(toClient, Needed, g, toClient'), Onward(v),
         UNCHANGED <<mode, toServer, serverVars>>, server = "up" => toServer = << >>,
         lastLen' = IF Step.parts = <<"header">> THEN g[1].val ELSE lastLen
  PROVE  Reply'
<1>1. SUFFICES ASSUME state' = "run"  PROVE Reply'  BY DEF Reply
<1>2. Step' = Upcoming  BY <1>1 DEF Onward
<1>3. server' = server /\ version' = version /\ toServer' = toServer  BY DEF serverVars
<1>4. CASE Upcoming.do # "recv"
  <2>1. Needed = ToCome  BY <1>4, LastRead DEF Found
  <2>2. Len(toClient) = Needed
    <3> DEFINE l == Len(toClient)
               n == Needed
    <3>1. l \in Nat /\ n \in Nat /\ l <= n /\ n <= l  BY <2>1 DEF Found
    <3> HIDE DEF l, n
    <3>2. l = n  BY <3>1
    <3>3. QED  BY <3>2 DEF l, n
  <2>3. toClient' = << >>  BY <2>2 DEF Cut
  <2>4. QED  BY <1>2, <1>4, <2>3 DEF Reply
<1>5. CASE Upcoming.do = "recv"
  <2> DEFINE l == Len(toClient)
             b == Before(Step.parts)
             s == Step.cmd
  <2>1. /\ Needed = 1 /\ Upcoming.cmd = Step.cmd /\ b \in {0, 1}
        /\ Before(Upcoming.parts) = b + 1 /\ Upcoming.parts # <<"header">>
    BY <1>5, EarlierRead DEF Found
  <2>2. /\ l \in Nat /\ 1 <= l /\ Len(toClient') = l - 1
        /\ g[1] = toClient[1] /\ \A j \in 1 .. l - 1 : toClient'[j] = toClient[1 + j]
    <3>1. 1 \in 1 .. 1 /\ Needed = 1  BY <2>1
    <3>2. QED  BY <3>1 DEF Found, Cut
  <2>3. toClient # << >>
    <3>1. l # 0  BY <2>2
    <3>2. QED  BY <3>1
  <2>4. toClient[1].val \in Nat
    <3>1. toClient \in Seq(ReplyRecord)  BY DEF Socketry, Streams, ReplyRecord
    <3>2. 1 \in 1 .. Len(toClient)  BY <2>2
    <3>3. toClient[1] \in ReplyRecord  BY <3>1, <3>2, ElementOfSeq
    <3>4. QED  BY <3>3 DEF ReplyRecord
  <2>5. ToCome' = ToCome - 1 /\ ToCome \in Nat
    <3>1. \/ Step.cmd = "version" /\ Step.parts = <<"header">>
          \/ Step.cmd \in {"get_param", "create_blob"}
          \/ Step.cmd = "get_capset" /\ Step.parts = <<"header">>
          \/ Step.cmd = "get_capset" /\ Step.parts # <<"header">> /\ b = 1
      BY <1>5, EarlierRead DEF Found
    <3>2. lastLen \in Nat  BY DEF Found
    <3>3. CASE Step.cmd = "version" /\ Step.parts = <<"header">>
      <4>1. b = 0  BY <3>3, Positions
      <4>2. ToCome = 2 - 0 /\ ToCome' = 2 - (0 + 1)  BY <1>2, <2>1, <3>3, <4>1 DEF ToCome
      <4>3. QED  BY <4>2
    <3>4. CASE Step.cmd \in {"get_param", "create_blob"}
      <4>1. ToCome = 3 - b /\ ToCome' = 3 - (b + 1)  BY <1>2, <2>1, <3>4 DEF ToCome
      <4>2. b \in {0, 1}  BY <2>1
      <4> HIDE DEF b
      <4>3. QED  BY <4>1, <4>2
    <3>5. CASE Step.cmd = "get_capset" /\ Step.parts = <<"header">>
      <4>1. b = 0  BY <3>5, Positions
      <4>2. lastLen' = toClient[1].val  BY <2>2, <3>5
      <4>3. ToCome = toClient[1].val + 1  BY <2>3, <3>5 DEF ToCome
      <4>4. ToCome' = lastLen' + 1 - (b + 1)  BY <1>2, <2>1, <3>5 DEF ToCome
      <4>5. QED  BY <2>4, <4>1, <4>2, <4>3, <4>4
    <3>6. CASE Step.cmd = "get_capset" /\ Step.parts # <<"header">> /\ b = 1
      <4>1. lastLen' = lastLen  BY <3>6
      <4>2. ToCome = lastLen + 1 - b /\ ToCome' = lastLen' + 1 - (b + 1)  BY <1>2, <2>1, <3>6 DEF ToCome
      <4>3. QED  BY <3>2, <3>6, <4>1, <4>2
    <3>7. QED  BY <3>1, <3>3, <3>4, <3>5, <3>6
  <2>6. Len(toClient') <= ToCome' /\ (l = ToCome => Len(toClient') = ToCome')
    <3>1. l <= ToCome  BY DEF Found
    <3>2. QED  BY <2>2, <2>5, <3>1
  <2>7. ASSUME NEW k \in 1 .. Len(toClient')
        PROVE  toClient'[k].cmd = s /\ toClient'[k].part = PartAt(s, (b + 1) + k)
    <3>1. k \in 1 .. l - 1 /\ 1 + k \in 1 .. l  BY <2>2
    <3>2. toClient[1 + k].cmd = s /\ toClient[1 + k].part = PartAt(s, b + (1 + k))  BY <3>1 DEF Found
    <3>3. b + (1 + k) = (b + 1) + k  BY <2>1
    <3>4. QED  BY <2>2, <3>1, <3>2, <3>3
  <2>8. Step.cmd = "get_capset" => lastLen' > 0
    <3>1. SUFFICES ASSUME Step.cmd = "get_capset"  PROVE lastLen' > 0  OBVIOUS
    <3>2. CASE Step.parts = <<"header">>
      <4>1. lastLen' = toClient[1].val  BY <2>2, <3>2
      <4>2. toClient[1].val > 0  BY <2>3, <3>1, <3>2 DEF Socketry, Reply, Found
      <4>3. QED  BY <4>1, <4>2
    <3>3. CASE Step.parts # <<"header">>
      <4>1. lastLen' = lastLen  BY <3>3
      <4>2. QED  BY <3>1, <3>3, <4>1 DEF Found
    <3>4. QED  BY <3>2, <3>3
  <2>9. server = "up" => l = ToCome  BY DEF Socketry, Reply, Found
  <2>10. server = "up" /\ Step.cmd = "version" =>
           \A k \in 1 .. Len(toClient') : toClient'[k].part = "version" => toClient'[k].val = version
    <3>1. SUFFICES ASSUME server = "up", Step.cmd = "version", NEW k \in 1 .. Len(toClient'),
                          toClient'[k].part = "version"
                   PROVE  toClient'[k].val = version
      OBVIOUS
    <3>2. k \in 1 .. l - 1 /\ 1 + k \in 1 .. l  BY <2>2
    <3>3. toClient'[k] = toClient[1 + k]  BY <2>2, <3>2
    <3>4. QED  BY <3>1, <3>2, <3>3 DEF Socketry, Reply, Found
  <2>11. QED  BY <1>2, <1>3, <1>5, <2>1, <2>6, <2>7, <2>8, <2>9, <2>10 DEF Reply
<1>6. QED  BY <1>4, <1>5

\* A descriptor that arrives is always accepted: were it not, nobody would close it.
LEMMA DescriptorAccepted ==
  ASSUME Found, NEW g, Needed <= Len(toClient), Cut(toClient, Needed, g, toClient'), Step.parts = <<"fd">>
  PROVE  Accepts(g) /\ Upcoming.do = "mmap" /\ Upcoming.blob = Step.blob /\ Step.blob \in Blobs
<1>1. Step.cmd = "create_blob" /\ Upcoming.do = "mmap" /\ Upcoming.blob = Step.blob /\ Step.blob \in Blobs
  BY DEF Found, Reading
<1>2. Needed = 1  BY DEF Needed
<1>3. DOMAIN g = 1 .. 1 /\ 1 \in 1 .. 1 /\ g[1] = toClient[1]  BY <1>2 DEF Cut
<1>4. g[1].cmd = Step.cmd /\ g[1].part = PartAt(Step.cmd, 2 + 1)
  <2>1. 1 \in 1 .. Len(toClient)  BY <1>2 DEF Found
  <2>2. Before(Step.parts) = 2  BY Positions
  <2>3. QED  BY <1>3, <2>1, <2>2 DEF Found
<1>5. g[1].part = "fd"  BY <1>1, <1>4 DEF PartAt
<1>6. \A i \in DOMAIN g : i = 1  BY <1>3
<1>7. Accepts(g)  BY <1>1, <1>4, <1>5, <1>6 DEF Accepts
<1>8. QED  BY <1>1, <1>7

\* A part of a reply is read.
LEMMA ClientRecvStep ==
  ASSUME TypeOK, Rest, ClientRecv  PROVE TypeOK' /\ Rest'
<1> USE DEF Rest, Socketry
<1> DEFINE g == SubSeq(toClient, 1, Needed)
<1>1. /\ At("recv") /\ Len(toClient) >= Needed
      /\ toClient' = SubSeq(toClient, Needed + 1, Len(toClient))
      /\ IF Accepts(g) THEN \E v \in Verdicts : Advance(v) ELSE Fail
      /\ lastLen' = IF Step.parts = <<"header">> THEN g[1].val ELSE lastLen
      /\ held' = IF Step.parts = <<"fd">> THEN held \cup {FD(Step.blob)} ELSE held
      /\ UNCHANGED <<mode, deferred, headStart, toServer, serverVars, ringVars>>
  BY DEF ClientRecv
<1>2. Found  BY <1>1, Finding
<1>3. toClient \in Seq(ReplyRecord)  BY DEF Streams, ReplyRecord
<1>4. Needed <= Len(toClient) /\ Needed \in Nat  BY <1>1, <1>2 DEF Found
<1>5. Cut(toClient, Needed, g, toClient')  BY <1>1, <1>3, <1>4, Cutting
<1> HIDE DEF g
<1>6. /\ state = "run" /\ Step.do = "recv" /\ Reading(mode, ip, Step, Upcoming)
      /\ Step.do \notin {"send", "mmap", "zero", "sample", "write", "poll"}
  BY <1>2 DEF Found
<1>7. server = "up" => toServer = << >>
  <2>1. SUFFICES ASSUME server = "up", toServer # << >>  PROVE FALSE  OBVIOUS
  <2>2. Before(Step.parts) = 0 /\ toClient = << >>  BY <1>1, <2>1 DEF Requests
  <2>3. Needed = 0
    <3>1. Len(toClient) = 0  BY <2>2
    <3>2. QED  BY <1>4, <3>1
  <2>4. CASE Upcoming.do = "recv"  BY <1>6, <2>3, <2>4, EarlierRead
  <2>5. CASE Upcoming.do # "recv"  BY <1>2, <2>2, <2>3, <2>5, LastRead DEF Found
  <2>6. QED  BY <2>4, <2>5
<1>8. PICK v \in {"pass", "fail"} : IF Accepts(g) THEN Advance(v) ELSE Fail
  <2>1. Verdicts \subseteq {"pass", "fail"}  BY DEF Verdicts
  <2>2. QED  BY <1>1, <2>1
<1>9. Advance(v) \/ Fail  BY <1>8
<1>10. toClient' \in Seq([cmd : HasReply, part : Parts, val : Nat])  BY <1>5 DEF Cut, ReplyRecord
<1>11. RingLife'
  <2>1. Registering' => Registering  BY <1>1 DEF Registering
  <2>2. UNCHANGED <<mode, ringVars, headStart>>  BY <1>1
  <2>3. QED  BY <1>6, <1>9, <2>1, <2>2, RingLeftAlone
<1>12. lastLen' \in Nat
  <2>1. CASE Step.parts # <<"header">>  BY <1>1, <2>1 DEF TypeOK
  <2>2. CASE Step.parts = <<"header">>
    <3>1. Needed = 1  BY <2>2 DEF Needed
    <3>2. g \in Seq(ReplyRecord) /\ 1 \in 1 .. Len(g)  BY <1>5, <3>1 DEF Cut
    <3>3. g[1] \in ReplyRecord  BY <3>2, ElementOfSeq
    <3>4. QED  BY <1>1, <2>2, <3>3 DEF ReplyRecord
  <2>3. QED  BY <2>1, <2>2
<1>13. ASSUME Step.parts # <<"fd">>
       PROVE  Owned' /\ held' \subseteq {"socket", "fd", "map"} \X {"none", "ring", "reply", "memory"}
  <2>1. held' = held /\ UNCHANGED <<mode, held, deferred>>  BY <1>1, <1>13
  <2>2. Owned'  BY <1>6, <1>9, <1>13, <2>1, BooksKept
  <2>3. QED  BY <2>1, <2>2 DEF TypeOK
<1>14. ASSUME Step.parts = <<"fd">>
       PROVE  Owned' /\ held' \subseteq {"socket", "fd", "map"} \X {"none", "ring", "reply", "memory"}
  <2>1. Accepts(g) /\ Upcoming.do = "mmap" /\ Upcoming.blob = Step.blob /\ Step.blob \in Blobs
    BY <1>2, <1>4, <1>5, <1>14, DescriptorAccepted
  <2>2. Onward(v)  BY <1>1, <1>6, <1>8, <2>1, Advancing
  <2>3. ip' = ip + 1 /\ state' = "run" /\ Step' = Upcoming  BY <2>1, <2>2 DEF Onward
  <2>4. At("mmap")' /\ FD(Step.blob)' = FD(Step.blob)
    <3>1. At("mmap")'  BY <2>1, <2>3 DEF At
    <3>2. QED  BY <2>1, <2>3, <3>1 DEF FD
  <2>5. ~At("mmap")  BY <1>6 DEF At
  <2>6. held' = held \cup {FD(Step.blob)} /\ deferred' = deferred /\ mode' = mode  BY <1>1, <1>14
  <2>7. mode \in Programs /\ Here /\ ip \in Nat  BY <1>6, Running
  <2>8. Mapped' = Mapped
    <3>1. (Venus => ip # 19) /\ (mode = "clear" => ip # 26 /\ ip # 32)
      BY <1>6, <2>7 DEF Here, Fits, Venus, GLModes
    <3>2. Venus' = Venus  BY <2>6 DEF Venus
    <3>3. Venus /\ mode # "ring" => mode = "clear"  BY <2>7 DEF Venus, Programs, GLModes
    <3>4. QED  BY <2>3, <2>6, <2>7, <3>1, <3>2, <3>3 DEF Mapped
  <2>9. Stack(Mapped)' = Stack(Mapped)  BY <2>8 DEF Stack, Map, Socket
  <2>10. deferred = Stack(Mapped) /\ \E k \in 0 .. 4 : deferred = Stack(k)  BY <1>6 DEF Owned
  <2>11. held = {deferred[i] : i \in DOMAIN deferred}  BY <2>5 DEF Owned
  <2>12. held' = {deferred'[i] : i \in DOMAIN deferred'} \cup {FD(Step.blob)'}  BY <2>4, <2>6, <2>11
  <2>13. Owned'  BY <2>3, <2>4, <2>6, <2>9, <2>10, <2>12 DEF Owned, Stack, Map, Socket
  <2>14. FD(Step.blob) \in {"socket", "fd", "map"} \X {"none", "ring", "reply", "memory"}  BY <2>1 DEF FD, Blobs
  <2>15. QED  BY <2>6, <2>13, <2>14 DEF TypeOK
<1>15. Owned' /\ held' \subseteq {"socket", "fd", "map"} \X {"none", "ring", "reply", "memory"}
  BY <1>13, <1>14
<1>16. TypeOK'
  <2>1. /\ ip' \in 1 .. Len(Script(mode')) + 1
        /\ state' \in {"dial", "run", "unwind", "returned"}
        /\ verdict' \in {"none", "error", "pass", "fail"}
    BY <1>1, <1>6, <1>9, ClientTypes
  <2>2. QED  BY <1>1, <1>12, <1>15, <2>1 DEF TypeOK, serverVars, ringVars
<1>17. ASSUME Fail  PROVE Socketry'
  <2>1. UNCHANGED <<mode, toServer, serverVars>>  BY <1>1
  <2>2. server = "up" => \A k \in 1 .. Len(toServer) : toServer[k].cmd \notin HasReply  BY <1>7
  <2>3. QED  BY <1>6, <1>10, <1>17, <2>1, <2>2, FailStep
<1>18. ASSUME Accepts(g), Advance(v)  PROVE Socketry'
  <2>1. Onward(v)  BY <1>1, <1>6, <1>18, Advancing
  <2>2. ip' = ip + 1 /\ state' \in {"run", "unwind"} /\ (state' = "run" => Step' = Upcoming /\ verdict' = "none"
        /\ ip' <= Len(Script(mode)))
    BY <2>1 DEF Onward
  <2>3. /\ mode' = mode /\ toServer' = toServer /\ server' = server /\ serverMax' = serverMax
        /\ version' = version /\ contextUp' = contextUp /\ refused' = refused
    BY <1>1 DEF serverVars
  <2>4. mode \in Programs /\ Here /\ ip \in Nat /\ ip > 2
    BY <1>6, Running DEF Reading
  <2>5. Streams' /\ NeverRefused'  BY <1>10, <2>3 DEF Streams, NeverRefused
  <2>6. Course'  BY <2>2, <2>3, <2>4 DEF Course
  <2>7. Reply'
    <3>1. UNCHANGED <<mode, toServer, serverVars>>  BY <1>1
    <3>2. QED  BY <1>1, <1>2, <1>4, <1>5, <1>7, <2>1, <3>1, ReadReply
  <2>8. Requests'  BY <1>7, <2>3 DEF Requests
  <2>9. Permitted'
    <3>1. SUFFICES ASSUME server = "up"  PROVE Permitted'  BY <2>3 DEF Permitted
    <3>2. toServer = << >> /\ Len(toServer) = 0  BY <1>7, <3>1
    <3>3. version > 0  BY <2>4, <3>1, <3>2 DEF Permitted, First
    <3>4. Venus /\ ip + 1 > 6 => version >= 3
      <4>1. CASE ip > 6  BY <3>1, <4>1 DEF Permitted
      <4>2. CASE ip = 6 /\ Venus
        <5>1. Step.cmd = "version" /\ Step.parts = <<"version">>  BY <2>4, <4>2 DEF Here, Fits, Venus
        <5>2. Needed = 1 /\ Before(Step.parts) = 1  BY <5>1, Positions DEF Needed
        <5>3. 1 \in 1 .. Len(toClient) /\ g[1] = toClient[1]  BY <1>2, <1>4, <1>5, <5>2 DEF Cut, Found
        <5>4. toClient[1].part = "version"
          <6>1. toClient[1].part = PartAt("version", 1 + 1)  BY <1>2, <5>1, <5>2, <5>3 DEF Found
          <6>2. QED  BY <6>1 DEF PartAt
        <5>5. toClient[1].val = version  BY <1>6, <3>1, <5>1, <5>3, <5>4 DEF Reply
        <5>6. g[1].val >= 3  BY <1>18, <4>2, <5>1 DEF Accepts, Venus
        <5>7. QED  BY <5>3, <5>5, <5>6
      <4>3. QED  BY <2>4, <4>1, <4>2
    <3>5. Venus /\ ip + 1 > 14 => contextUp
      <4>1. Venus => ip # 14  BY <1>6, <2>4 DEF Here, Fits, Venus
      <4>2. QED  BY <2>4, <3>1, <3>2, <4>1 DEF Permitted, First
    <3>6. Venus' = Venus  BY <2>3 DEF Venus
    <3>7. QED  BY <2>2, <2>3, <3>2, <3>3, <3>4, <3>5, <3>6 DEF Permitted
  <2>10. QED  BY <2>5, <2>6, <2>7, <2>8, <2>9
<1>19. QED  BY <1>8, <1>11, <1>15, <1>16, <1>17, <1>18

-----------------------------------------------------------------------------
(* The theorems.                                                           *)

\* The initial states: nothing sent, nothing held.
LEMMA InitInv ==
  ASSUME Init  PROVE SessionInv
<1>1. mode \in Programs  BY SessionAssumption DEF Init, Programs
<1>2. Len(Script(mode)) \in Nat /\ Len(Script(mode)) > 10  BY <1>1, ScriptLength DEF LengthOK
<1>3. /\ ip = 1 /\ state = "dial" /\ verdict = "none" /\ toServer = << >> /\ toClient = << >>
      /\ Len(toServer) = 0 /\ consumer = "none"
  BY DEF Init
<1>4. TypeOK  BY <1>2 DEF Init, TypeOK
<1>5. Streams /\ NeverRefused  BY DEF Init, Streams, NeverRefused
<1>6. Course  BY <1>2, <1>3 DEF Course
<1>7. Reply /\ Requests /\ Permitted  BY <1>3 DEF Reply, Requests, Permitted, At
<1>8. tail \in BOOLEAN  BY DEF Init
<1>9. RingLife  BY <1>3, <1>8 DEF RingLife
<1>10. Owned
  <2>1. deferred = << >> /\ held = {} /\ deferred = Stack(0)  BY DEF Init, Stack
  <2>2. QED  BY <1>3, <2>1 DEF Owned, At
<1>11. QED  BY <1>4, <1>5, <1>6, <1>7, <1>9, <1>10 DEF SessionInv

\* Every step of the client, the server and the ring's consumer.
LEMMA NextInv ==
  ASSUME SessionInv, [Next]_vars  PROVE SessionInv'
<1>1. TypeOK /\ Rest  BY DEF SessionInv, Rest, Socketry
<1>2. SUFFICES TypeOK' /\ Rest'  BY DEF SessionInv, Rest, Socketry
<1>3. CASE Dial  BY <1>1, <1>3, DialStep
<1>4. CASE ClientSend  BY <1>1, <1>4, ClientSendStep
<1>5. CASE ClientRecv  BY <1>1, <1>5, ClientRecvStep
<1>6. CASE ClientEOF  BY <1>1, <1>6, ClientEOFStep
<1>7. CASE Mmap  BY <1>1, <1>7, MmapStep
<1>8. CASE Zero  BY <1>1, <1>8, ZeroStep
<1>9. CASE SampleHead  BY <1>1, <1>9, SampleHeadStep
<1>10. CASE WriteRing  BY <1>1, <1>10, WriteRingStep
<1>11. CASE Poll  BY <1>1, <1>11, PollStep
<1>12. CASE LocalCheck \/ WalkOrTexels  BY <1>1, <1>12, LocalCheckStep
<1>13. CASE RunDeferred  BY <1>1, <1>13, RunDeferredStep
<1>14. CASE Exit  BY <1>1, <1>14, ExitStep
<1>15. CASE Serve  BY <1>1, <1>15, ServeStep
<1>16. CASE ServerDies  BY <1>1, <1>16, ServerDiesStep
<1>17. CASE ConsumeRing  BY <1>1, <1>17, ConsumeRingStep
<1>18. CASE ConsumerIdles  BY <1>1, <1>18, ConsumerIdlesStep
<1>19. CASE UNCHANGED vars  BY <1>1, <1>19, Stutter
<1>20. QED
  BY <1>3, <1>4, <1>5, <1>6, <1>7, <1>8, <1>9, <1>10, <1>11, <1>12, <1>13, <1>14, <1>15, <1>16,
     <1>17, <1>18, <1>19
  DEF Next, Client

\* SessionInv holds throughout every session of cmd/validator, cmd/venusvalidator
\* and cmd/venusclear: replies, requests, the ring's life and the deferred calls.
THEOREM SessionInvariant == Spec => []SessionInv
<1>1. Init => SessionInv  BY InitInv
<1>2. SessionInv /\ [Next]_vars => SessionInv'  BY NextInv
<1>3. QED  BY <1>1, <1>2, PTL DEF Spec

\* The elements a read takes are the ones it names.
LEMMA PartsAgree ==
  ASSUME Found, NEW i \in 1 .. Len(toClient), i <= Needed
  PROVE  PartAt(Step.cmd, Before(Step.parts) + i) = Step.parts[IF Step.parts = <<"body">> THEN 1 ELSE i]
<1>1. Reading(mode, ip, Step, Upcoming) /\ Len(toClient) \in Nat  BY DEF Found
<1>2. CASE Step.parts = <<"body">>
  <2>1. Step.cmd = "get_capset" /\ Before(Step.parts) = 2  BY <1>1, <1>2, Positions DEF Reading
  <2>2. 2 + i # 1 /\ 2 + i # 2  BY <1>1
  <2>3. PartAt("get_capset", 2 + i) = "body"  BY <2>2 DEF PartAt
  <2>4. QED  BY <1>2, <2>1, <2>3
<1>3. CASE Step.parts # <<"body">>
  <2>1. Needed = Len(Step.parts)  BY <1>3 DEF Needed
  <2>2. CASE Step.parts = <<"valid", "value">> /\ Step.cmd = "get_param"
    <3>1. i \in {1, 2}  BY <2>1, <2>2
    <3>2. QED  BY <2>2, <3>1, Positions DEF PartAt
  <2>3. ASSUME Len(Step.parts) = 1  PROVE i = 1  BY <2>1, <2>3
  <2>4. CASE Step.parts = <<"header">> /\ Step.cmd # "transfer_get"  BY <2>3, <2>4, Positions DEF PartAt
  <2>5. CASE Step.parts = <<"pixels">> /\ Step.cmd = "transfer_get"  BY <2>3, <2>5, Positions DEF PartAt
  <2>6. CASE Step.parts = <<"version">> /\ Step.cmd = "version"  BY <2>3, <2>6, Positions DEF PartAt
  <2>7. CASE Step.parts = <<"valid">> /\ Step.cmd = "get_capset"  BY <2>3, <2>7, Positions DEF PartAt
  <2>8. CASE Step.parts = <<"res_id">> /\ Step.cmd = "create_blob"  BY <2>3, <2>8, Positions DEF PartAt
  <2>9. CASE Step.parts = <<"fd">> /\ Step.cmd = "create_blob"  BY <2>3, <2>9, Positions DEF PartAt
  <2>10. QED  BY <1>1, <1>3, <2>2, <2>4, <2>5, <2>6, <2>7, <2>8, <2>9 DEF Reading
<1>4. QED  BY <1>2, <1>3

\* Whenever io.ReadFull or ResourceCreateBlob's recvmsg reads, what comes next in the
\* stream is what the client takes it for (InSync).
THEOREM SessionInSync == Spec => []InSync
<1>1. SessionInv => InSync
  <2>1. SUFFICES ASSUME SessionInv, At("recv"), NEW i \in 1 .. Len(toClient), i <= Needed
                 PROVE  /\ toClient[i].cmd = Step.cmd
                        /\ toClient[i].part = Step.parts[IF Step.parts = <<"body">> THEN 1 ELSE i]
    BY DEF InSync
  <2>2. TypeOK /\ Socketry  BY <2>1 DEF SessionInv, Socketry
  <2>3. Found  BY <2>1, <2>2, Finding
  <2>4. toClient[i].cmd = Step.cmd /\ toClient[i].part = PartAt(Step.cmd, Before(Step.parts) + i)
    BY <2>3 DEF Found
  <2>5. QED  BY <2>1, <2>3, <2>4, PartsAgree
<1>2. QED  BY <1>1, SessionInvariant, PTL

\* The order in which the client sends its requests, and its tests of version and
\* parameters, leave the server nothing to refuse (NeverRefused).
THEOREM SessionNeverRefused == Spec => []NeverRefused
<1>1. SessionInv => NeverRefused  BY DEF SessionInv
<1>2. QED  BY <1>1, SessionInvariant, PTL

\* When the poll of cmd/venusvalidator sees the head advance, the host consumed the
\* command, and the ring is never zeroed under the host (HonestRoundTrip).
THEOREM SessionHonestRoundTrip == Spec => []HonestRoundTrip
<1>1. SessionInv => HonestRoundTrip
  <2>1. SUFFICES ASSUME SessionInv  PROVE HonestRoundTrip  OBVIOUS
  <2>2. mode = "ring" /\ verdict = "pass" => head = 1  BY <2>1 DEF SessionInv, RingLife
  <2>3. ClearedBeforeUse
    <3>1. SUFFICES ASSUME consumer # "none"  PROVE head # Junk /\ ~At("zero")  BY DEF ClearedBeforeUse
    <3>2. Venus /\ ip > 21  BY <2>1, <3>1 DEF SessionInv, RingLife
    <3>3. ip \in Nat
      <4>1. mode \in Programs  BY <2>1, SessionAssumption DEF SessionInv, TypeOK, Programs
      <4>2. Len(Script(mode)) \in Nat  BY <4>1, ScriptLength DEF LengthOK
      <4>3. QED  BY <2>1, <4>2 DEF SessionInv, TypeOK
    <3>4. head # Junk  BY <2>1, <3>2, <3>3 DEF SessionInv, RingLife
    <3>5. ~At("zero")
      <4>1. SUFFICES ASSUME At("zero")  PROVE FALSE  OBVIOUS
      <4>2. Here /\ Step.do = "zero"  BY <2>1, <4>1, Running DEF SessionInv, At
      <4>3. ip = 20  BY <4>2 DEF Here, Fits
      <4>4. QED  BY <3>2, <4>3
    <3>6. QED  BY <3>4, <3>5
  <2>4. QED  BY <2>2, <2>3 DEF HonestRoundTrip
<1>2. QED  BY <1>1, SessionInvariant, PTL

\* Whichever error ends a session, the deferred Close and Unmap calls leave no
\* descriptor and no mapping behind (NoLeak).
THEOREM SessionNoLeak == Spec => []NoLeak
<1>1. SessionInv => NoLeak
  <2>1. SUFFICES ASSUME SessionInv  PROVE NoLeak  OBVIOUS
  <2>2. Owned  BY <2>1 DEF SessionInv
  <2>3. PICK k \in 0 .. 4 : deferred = Stack(k)  BY <2>2 DEF Owned
  <2>4. NoFD(deferred) /\ OnceEach(deferred)  BY <2>3, StackFacts
  <2>5. \A x \in Listed(deferred) : x[1] # "fd"  BY <2>4 DEF Listed, NoFD
  <2>6. held = Listed(deferred) \/ \E b : held = Listed(deferred) \cup {FD(b)}  BY <2>2 DEF Owned, Listed
  <2>7. {x \in held : x[1] # "fd"} = Listed(deferred)
    <3>1. \A b : FD(b)[1] = "fd"  BY DEF FD
    <3>2. QED  BY <2>5, <2>6, <3>1
  <2>8. state = "returned" => held = {}
    <3>1. SUFFICES ASSUME state = "returned"  PROVE held = {}  OBVIOUS
    <3>2. deferred = << >> /\ ~At("mmap")  BY <2>2, <3>1 DEF Owned, At
    <3>3. QED  BY <2>2, <3>2 DEF Owned
  <2>9. QED  BY <2>4, <2>7, <2>8 DEF NoLeak, Listed, OnceEach
<1>2. QED  BY <1>1, SessionInvariant, PTL
=============================================================================
