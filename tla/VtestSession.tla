---------------------------- MODULE VtestSession ----------------------------
(***************************************************************************)
(* One session of a vtest client with virgl_test_server over its Unix      *)
(* stream socket: the three programs of vtest/cmd.                         *)
(*                                                                         *)
(*   "gl0", "gl1", "gl2"   cmd/validator with none, one or both of its     *)
(*                         uploads (-vb, -tex), whatever its -mode         *)
(*   "ring"                cmd/venusvalidator: VenusRingRoundTrip          *)
(*   "clear"               cmd/venusclear: VenusClearImage                 *)
(*                                                                         *)
(* The stream has no message boundaries and the client does not look at    *)
(* the headers of the handshake's replies, so both sides agree on where a  *)
(* reply starts only because every method reads exactly what the server    *)
(* writes for its request.  A blob's file descriptor travels beside one    *)
(* dummy byte of the same stream, and is lost if a plain read takes that   *)
(* byte.  The server may die after any request, in the middle of a reply   *)
(* too; requests that have no reply fail only at the next read.            *)
(*                                                                         *)
(* A session is a script: the steps of the methods the program calls, in   *)
(* order.  The server and the ring's consumer thread are external.         *)
(***************************************************************************)
EXTENDS Naturals, Sequences

CONSTANTS
  Modes,           \* the programs, and the uploads of the first, that may run
  ServerVersions,  \* highest protocol version the server may speak
  CapsetDwords,    \* lengths a Venus capset may have, in dwords
  ServerMayDie     \* may the server close the connection?

ASSUME SessionAssumption ==
  /\ Modes \subseteq {"gl0", "gl1", "gl2", "ring", "clear"}
  /\ ServerVersions \subseteq Nat \ {0}
  /\ CapsetDwords \subseteq Nat
  /\ ServerMayDie \in BOOLEAN

-----------------------------------------------------------------------------
(* The client's methods, as sequences of steps.                            *)

Send(cmd) == [do |-> "send", cmd |-> cmd, parts |-> << >>, blob |-> "none"]
Recv(cmd, parts) == [do |-> "recv", cmd |-> cmd, parts |-> parts, blob |-> "none"]
Local(do, blob) == [do |-> do, cmd |-> "none", parts |-> << >>, blob |-> blob]

\* CREATE_RENDERER has no reply; neither reply header is examined.
Handshake ==
  <<Send("create_renderer"),
    Send("ping"), Recv("ping", <<"header">>),
    Send("version"), Recv("version", <<"header">>), Recv("version", <<"version">>)>>

\* Mutant: the "valid" dword is taken for the value and the value left unread.
GetParamOneDword ==
  <<Send("get_param"), Recv("get_param", <<"header">>), Recv("get_param", <<"valid">>)>>

GetParam ==
  <<Send("get_param"), Recv("get_param", <<"header">>),
    Recv("get_param", <<"valid", "value">>)>>

\* The body is read last, (length-1) dwords of it: see Needed.
GetCapset ==
  <<Send("get_capset"), Recv("get_capset", <<"header">>),
    Recv("get_capset", <<"valid">>), Recv("get_capset", <<"body">>)>>

ResourceCreateBlob(blob) ==
  <<[Send("create_blob") EXCEPT !.blob = blob],
    Recv("create_blob", <<"header">>), Recv("create_blob", <<"res_id">>),
    [Recv("create_blob", <<"fd">>) EXCEPT !.blob = blob]>>

\* No reply: a failure on the server shows as EOF at a later read.  A stream that
\* SubmitCmd2 refuses itself is ClientSend's concern.
ContextInit == <<Send("context_init")>>
SubmitCmd2 == <<Send("submit_cmd2")>>
CreateResource == <<Send("resource_create")>>
TransferPut == <<Send("transfer_put")>>

\* A buffer that is no whole number of dwords is not sent.
SubmitCmd == <<Local("check", "none"), Send("submit_cmd")>>

\* The pixels have no header.
TransferGet == <<Send("transfer_get"), Recv("transfer_get", <<"pixels">>)>>

\* GET_PARAM, GET_CAPSET, CONTEXT_INIT, then the ring's blob and its mapping.
VenusBringUp ==
  Handshake \o GetParam \o GetCapset \o ContextInit
  \o ResourceCreateBlob("ring") \o <<Local("mmap", "ring")>>

\* Mutant: HeadStart is sampled before the mapping is cleared.
VenusRingRoundTripEarlySample ==
  VenusBringUp
  \o <<Local("sample", "ring"), Local("zero", "ring")>> \o SubmitCmd2
  \o <<Local("write", "ring"), Local("poll", "ring")>>

VenusRingRoundTrip ==
  VenusBringUp
  \o <<Local("zero", "ring")>> \o SubmitCmd2
  \o <<Local("sample", "ring"), Local("write", "ring"), Local("poll", "ring")>>

\* The twenty commands sent over the ring are one step here ("walk").
VenusClearImage ==
  VenusBringUp
  \o <<Local("zero", "ring")>> \o SubmitCmd2
  \o ResourceCreateBlob("reply") \o <<Local("mmap", "reply"), Local("walk", "ring")>>
  \o ResourceCreateBlob("memory") \o <<Local("mmap", "memory"), Local("texels", "memory")>>

\* A vertex buffer (-vb) and a texture (-tex) are created and uploaded between
\* the render target and the command buffer.  The flags do not depend on -mode,
\* and the steps of the two uploads are the same.
ValidatorMain(m) ==
  LET upload == <<Local("check", "none")>> \o CreateResource \o TransferPut
  IN Handshake \o CreateResource
     \o (IF m \in {"gl1", "gl2"} THEN upload ELSE << >>)
     \o (IF m = "gl2" THEN upload ELSE << >>)
     \o SubmitCmd \o TransferGet

GLModes == {"gl0", "gl1", "gl2"}
Script(m) ==
  IF m \in GLModes THEN ValidatorMain(m)
  ELSE IF m = "ring" THEN VenusRingRoundTrip ELSE VenusClearImage

Requested(m) == IF m \in GLModes THEN 2 ELSE 3

-----------------------------------------------------------------------------

VARIABLES
  mode,            \* the program
  ip,              \* index of the client's next step in Script(mode)
  state,           \* client: dial, run, unwind (deferred calls), returned
  verdict,         \* none, error, pass or fail
  lastLen,         \* "length" of the reply header read last
  held,            \* the client's open connection, descriptors and mappings
  deferred,        \* stack of deferred calls: Close of the socket, Unmap
  headStart,       \* what "sample" saw in the ring's head word
  toServer, toClient,          \* the two directions of the socket
  server,          \* up or down
  serverMax,       \* highest version it speaks
  version,         \* version in force; 0 before the context exists
  contextUp,       \* CONTEXT_INIT done
  refused,         \* history: the server met a request it does not allow
  head,            \* the ring's head word: junk, 0 or 1 (the command consumed)
  tail,            \* the client has stored a tail
  consumer         \* the ring's thread: none, running or idle

clientVars == <<ip, state, verdict, lastLen, held, deferred, headStart>>
serverVars == <<server, serverMax, version, contextUp, refused>>
ringVars == <<head, tail, consumer>>
vars == <<mode, clientVars, toServer, toClient, serverVars, ringVars>>

Socket == <<"socket", "none">>
FD(blob) == <<"fd", blob>>
Map(blob) == <<"map", blob>>
Junk == 9          \* what an uncleared head word may read as

Init ==
  /\ mode \in Modes
  /\ ip = 1 /\ state = "dial" /\ verdict = "none"
  /\ lastLen = 0 /\ held = {} /\ deferred = << >> /\ headStart = 0
  /\ toServer = << >> /\ toClient = << >>
  /\ server = "up" /\ serverMax \in ServerVersions
  /\ version = 0 /\ contextUp = FALSE /\ refused = FALSE
  /\ head \in {0, Junk} /\ tail = FALSE /\ consumer = "none"

-----------------------------------------------------------------------------
(* The client.                                                             *)

Step == Script(mode)[ip]
At(do) == state = "run" /\ Step.do = do

\* Go on to the next step, or return with the verdict the program reached.
Advance(v) ==
  /\ ip' = ip + 1
  /\ IF ip = Len(Script(mode))
     THEN state' = "unwind" /\ verdict' = v
     ELSE UNCHANGED <<state, verdict>>

Fail == state' = "unwind" /\ verdict' = "error" /\ UNCHANGED ip

\* Dial, DialRaw: a failed connect leaves nothing open.
Dial ==
  /\ state = "dial"
  /\ IF server = "up"
     THEN /\ state' = "run" /\ held' = {Socket} /\ deferred' = <<Socket>>
          /\ UNCHANGED verdict
     ELSE /\ state' = "returned" /\ verdict' = "error"
          /\ UNCHANGED <<held, deferred>>
  /\ UNCHANGED <<mode, ip, lastLen, headStart, toServer, toClient, serverVars, ringVars>>

\* Write: a closed peer makes it fail; and SubmitCmd2 sends nothing when its
\* command stream is no whole number of dwords.
ClientSend ==
  /\ At("send")
  /\ \/ /\ server = "up"
        /\ Advance("pass") /\ toServer' = Append(toServer, [cmd |-> Step.cmd, blob |-> Step.blob])
     \/ /\ server = "down" \/ Step.cmd = "submit_cmd2"
        /\ Fail /\ UNCHANGED toServer
  /\ UNCHANGED <<mode, lastLen, held, deferred, headStart, toClient, serverVars, ringVars>>

\* How many elements of the stream the next ReadFull takes.
Needed == IF Step.parts = <<"body">> THEN lastLen - 1 ELSE Len(Step.parts)

\* Mutant: the negotiated version is not examined.
AcceptsAnyVersion(got) ==
  \/ Step.cmd \in {"ping", "version", "transfer_get"}
  \/ /\ \A i \in DOMAIN got : got[i].cmd = Step.cmd
     /\ \A i \in DOMAIN got : got[i].part \in {"valid", "value"} => got[i].val # 0

\* The checks a method or its caller makes on what was read.
Accepts(got) ==
  \/ Step.cmd \in {"ping", "transfer_get"}
  \/ Step.cmd = "version" /\ Step.parts = <<"header">>
  \/ Step.cmd = "version" /\ (mode \in GLModes \/ got[1].val >= 3)
  \/ /\ Step.cmd \in {"get_param", "get_capset", "create_blob"}
     /\ \A i \in DOMAIN got : got[i].cmd = Step.cmd
     /\ Step.parts = <<"header">> /\ Step.cmd = "get_param" => got[1].val = 2
     /\ Step.parts = <<"header">> /\ Step.cmd = "create_blob" => got[1].val = 1
     /\ \A i \in DOMAIN got : got[i].part \in {"valid", "value"} => got[i].val # 0

\* Whether the pixels of cmd/validator are right is RefCompare's subject.
Verdicts == IF Step.cmd = "transfer_get" THEN {"pass", "fail"} ELSE {"pass"}

\* Mutant: the body's length is computed when the header is read.
ClientRecvStoresBody ==
  LET got == SubSeq(toClient, 1, Needed)
  IN /\ At("recv")
     /\ Len(toClient) >= Needed
     /\ toClient' = SubSeq(toClient, Needed + 1, Len(toClient))
     /\ IF Accepts(got) THEN \E v \in Verdicts : Advance(v) ELSE Fail
     /\ lastLen' = IF Step.parts = <<"header">> THEN got[1].val - 1 ELSE lastLen
     /\ held' = IF Step.parts = <<"fd">> THEN held \cup {FD(Step.blob)} ELSE held
     /\ UNCHANGED <<mode, deferred, headStart, toServer, serverVars, ringVars>>

\* readHeader, readDwords, ReadFull, recvFD.
ClientRecv ==
  LET got == SubSeq(toClient, 1, Needed)
  IN /\ At("recv")
     /\ Len(toClient) >= Needed
     /\ toClient' = SubSeq(toClient, Needed + 1, Len(toClient))
     /\ IF Accepts(got) THEN \E v \in Verdicts : Advance(v) ELSE Fail
     /\ lastLen' = IF Step.parts = <<"header">> THEN got[1].val ELSE lastLen
     /\ held' = IF Step.parts = <<"fd">> THEN held \cup {FD(Step.blob)} ELSE held
     /\ UNCHANGED <<mode, deferred, headStart, toServer, serverVars, ringVars>>

\* Mutant: a read of zero bytes is not an error, so the loop reads on.
ClientEOFRetries ==
  /\ At("recv")
  /\ Len(toClient) < Needed
  /\ server = "down"
  /\ UNCHANGED vars

\* EOF: less is left than the read needs and the peer has closed.
ClientEOF ==
  /\ At("recv")
  /\ Len(toClient) < Needed
  /\ server = "down"
  /\ Fail
  /\ UNCHANGED <<mode, lastLen, held, deferred, headStart, toServer, toClient, serverVars, ringVars>>

\* Mutant: the descriptor is closed only when the mapping succeeded.
MmapClosesOnSuccess ==
  /\ At("mmap")
  /\ \/ /\ Advance("pass")
        /\ held' = (held \ {FD(Step.blob)}) \cup {Map(Step.blob)}
        /\ deferred' = <<Map(Step.blob)>> \o deferred
     \/ Fail /\ UNCHANGED <<held, deferred>>
  /\ UNCHANGED <<mode, lastLen, headStart, toServer, toClient, serverVars, ringVars>>

\* Mmap, then Close of the descriptor whatever Mmap returned; the Unmap is
\* deferred.
Mmap ==
  /\ At("mmap")
  /\ \/ /\ Advance("pass")
        /\ held' = (held \ {FD(Step.blob)}) \cup {Map(Step.blob)}
        /\ deferred' = <<Map(Step.blob)>> \o deferred
     \/ Fail /\ held' = held \ {FD(Step.blob)} /\ UNCHANGED deferred
  /\ UNCHANGED <<mode, lastLen, headStart, toServer, toClient, serverVars, ringVars>>

\* for i := range mem { mem[i] = 0 }
Zero ==
  /\ At("zero")
  /\ head' = 0 /\ tail' = FALSE
  /\ Advance("pass")
  /\ UNCHANGED <<mode, lastLen, held, deferred, headStart, toServer, toClient, serverVars, consumer>>

\* res.HeadStart = ring.Head()
SampleHead ==
  /\ At("sample")
  /\ headStart' = head
  /\ Advance("pass")
  /\ UNCHANGED <<mode, lastLen, held, deferred, toServer, toClient, serverVars, ringVars>>

\* writeCmd of the one vkCreateInstance.
WriteRing ==
  /\ At("write")
  /\ tail' = TRUE
  /\ Advance("pass")
  /\ UNCHANGED <<mode, lastLen, held, deferred, headStart, toServer, toClient, serverVars, head, consumer>>

\* The poll sees another head than HeadStart, or its deadline passes.
Poll ==
  /\ At("poll")
  /\ Advance(IF head # headStart THEN "pass" ELSE "fail")
  /\ UNCHANGED <<mode, lastLen, held, deferred, headStart, toServer, toClient, serverVars, ringVars>>

\* A local condition: os.ReadFile of the vertex or texture data succeeds, the
\* command buffer is a whole number of dwords.
LocalCheck ==
  /\ At("check")
  /\ Advance("pass") \/ Fail
  /\ UNCHANGED <<mode, lastLen, held, deferred, headStart, toServer, toClient, serverVars, ringVars>>

\* The walk over the ring (modelled on its own) and the check of the texels
\* succeed or end the program with an error.
WalkOrTexels ==
  /\ At("walk") \/ At("texels")
  /\ Advance("pass") \/ Fail
  /\ UNCHANGED <<mode, lastLen, held, deferred, headStart, toServer, toClient, serverVars, ringVars>>

\* os.Exit of cmd/validator: the deferred Close does not run, the end of the
\* process closes the socket.
Exit ==
  /\ state = "unwind" /\ mode \in GLModes
  /\ state' = "returned" /\ held' = {} /\ deferred' = << >>
  /\ UNCHANGED <<mode, ip, verdict, lastLen, headStart, toServer, toClient, serverVars, ringVars>>

\* The deferred calls of the Venus functions, last in first out.
RunDeferred ==
  /\ state = "unwind" /\ mode \notin GLModes
  /\ IF deferred = << >>
     THEN state' = "returned" /\ UNCHANGED <<held, deferred>>
     ELSE /\ held' = held \ {deferred[1]} /\ deferred' = Tail(deferred)
          /\ UNCHANGED state
  /\ UNCHANGED <<mode, ip, verdict, lastLen, headStart, toServer, toClient, serverVars, ringVars>>

Client ==
  \/ Dial \/ ClientSend \/ ClientRecv \/ ClientEOF \/ Mmap \/ Zero
  \/ SampleHead \/ WriteRing \/ Poll \/ LocalCheck \/ WalkOrTexels \/ RunDeferred \/ Exit

-----------------------------------------------------------------------------
(* The server (external): one request at a time, in order.                 *)

Elem(cmd, part, val) == [cmd |-> cmd, part |-> part, val |-> val]
VenusCmd == {"get_param", "get_capset", "context_init", "create_blob", "submit_cmd2"}

\* The first command must create the context; Venus opcodes exist from
\* protocol 3 on; blobs and submissions need the initialised context.
Allowed(cmd) ==
  /\ cmd # "create_renderer" => version > 0
  /\ cmd \in VenusCmd => version >= 3
  /\ cmd \in {"create_blob", "submit_cmd2"} => contextUp

\* What it may write for a request.
Replies(cmd) ==
  CASE cmd = "ping" -> {<<Elem(cmd, "header", 0)>>}
    [] cmd = "version" ->
         {<<Elem(cmd, "header", 1),
            Elem(cmd, "version", IF Requested(mode) < serverMax THEN Requested(mode) ELSE serverMax)>>}
    [] cmd = "get_param" ->
         {<<Elem(cmd, "header", 2), Elem(cmd, "valid", v), Elem(cmd, "value", n)>> :
            v \in {0, 1}, n \in {0, 1}}
    [] cmd = "get_capset" ->
         {<<Elem(cmd, "header", 1 + n), Elem(cmd, "valid", v)>>
            \o [i \in 1 .. n |-> Elem(cmd, "body", 0)] : v \in {0, 1}, n \in CapsetDwords}
    [] cmd = "create_blob" ->
         {<<Elem(cmd, "header", 1), Elem(cmd, "res_id", 1), Elem(cmd, "fd", 0)>>}
    [] cmd = "transfer_get" -> {<<Elem(cmd, "pixels", 0)>>}
    [] OTHER -> {<< >>}

Serve ==
  LET cmd == toServer[1].cmd
  IN /\ server = "up" /\ toServer # << >>
     /\ toServer' = Tail(toServer)
     /\ IF Allowed(cmd)
        THEN /\ \E r \in Replies(cmd) :
                  /\ toClient' = toClient \o r
                  /\ version' = IF cmd = "version" THEN r[2].val
                                ELSE IF cmd = "create_renderer" THEN 1 ELSE version
             /\ contextUp' = (contextUp \/ cmd = "context_init")
             /\ consumer' = IF cmd = "submit_cmd2" THEN "running" ELSE consumer
             /\ UNCHANGED <<server, refused>>
        ELSE /\ server' = "down" /\ refused' = TRUE
             /\ UNCHANGED <<toClient, version, contextUp, consumer>>
     /\ UNCHANGED <<mode, clientVars, serverMax, head, tail>>

\* It fails at a request, after writing a part of the reply.
ServerDies ==
  /\ ServerMayDie /\ server = "up" /\ state \in {"dial", "run"}
  /\ server' = "down"
  /\ IF toServer # << >> /\ Allowed(toServer[1].cmd)
     THEN \E r \in Replies(toServer[1].cmd) : \E k \in 0 .. Len(r) :
            toClient' = toClient \o SubSeq(r, 1, k)
     ELSE UNCHANGED toClient
  /\ consumer' = "none"
  /\ UNCHANGED <<mode, clientVars, toServer, serverMax, version, contextUp, refused, head, tail>>

\* The ring's consumer thread reads the command once it sees the tail, or goes
\* idle after idleTimeout.
ConsumeRing ==
  /\ consumer = "running" /\ tail /\ head # 1
  /\ head' = 1
  /\ UNCHANGED <<mode, clientVars, toServer, toClient, serverVars, tail, consumer>>

ConsumerIdles ==
  /\ consumer = "running" /\ (tail => head = 1)
  /\ consumer' = "idle"
  /\ UNCHANGED <<mode, clientVars, toServer, toClient, serverVars, head, tail>>

-----------------------------------------------------------------------------

Next == Client \/ Serve \/ ServerDies \/ ConsumeRing \/ ConsumerIdles

Spec == Init /\ [][Next]_vars

\* The client runs on, mmap and the walk return; the server serves what it is
\* sent or closes the connection.  Nothing bounds the time a read may take.
FairSpec == Spec /\ WF_vars(Client) /\ WF_vars(Serve)

-----------------------------------------------------------------------------
(* Properties.                                                             *)

\* The session's state has its type.
TypeOK ==
  /\ mode \in Modes
  /\ ip \in 1 .. Len(Script(mode)) + 1
  /\ state \in {"dial", "run", "unwind", "returned"}
  /\ verdict \in {"none", "error", "pass", "fail"}
  /\ lastLen \in Nat
  /\ held \subseteq {"socket", "fd", "map"} \X {"none", "ring", "reply", "memory"}
  /\ deferred \in Seq({"socket", "map"} \X {"none", "ring", "reply", "memory"})
  /\ server \in {"up", "down"} /\ consumer \in {"none", "running", "idle"}
  /\ version \in Nat
  /\ head \in {0, 1, Junk} /\ headStart \in {0, 1, Junk}

\* Whenever the client is about to read, what comes next on the stream is what
\* it takes it for, although Handshake (client.go:245, 252) drops the headers
\* unseen and GetCapset (venus.go:184) leaves an invalid capset's body unread.
\* In particular a blob's descriptor is only ever taken by recvFD.
InSync ==
  At("recv") =>
    \A i \in 1 .. Len(toClient) : i <= Needed =>
      /\ toClient[i].cmd = Step.cmd
      /\ toClient[i].part = Step.parts[IF Step.parts = <<"body">> THEN 1 ELSE i]

\* The server never has to refuse a request: the context is created first, no
\* Venus opcode is sent below protocol 3 (venusring_linux.go:280) and no blob
\* before CONTEXT_INIT.
NeverRefused == ~refused

\* The client never clears the mapping under a consumer that is using it: a
\* registered ring's head and tail are cleared words or later values.
ClearedBeforeUse == consumer # "none" => head # Junk /\ ~At("zero")

\* "A head advance past 0 is the host actually consuming our ring bytes"
\* (venusring_linux.go:257): the mapping is cleared first, and the round trip
\* passes only if the consumer read the command.
HonestRoundTrip ==
  /\ ClearedBeforeUse
  /\ mode = "ring" /\ verdict = "pass" => head = 1

\* However a session ends, no connection, descriptor or mapping is left: what
\* is held has one deferred call (venusring_linux.go:269, 326), except a blob's
\* descriptor, which does not outlive its mmap.
NoLeak ==
  /\ state = "returned" => held = {}
  /\ {deferred[i] : i \in DOMAIN deferred} = {x \in held : x[1] # "fd"}
  /\ \A i, j \in DOMAIN deferred : i # j => deferred[i] # deferred[j]

\* A server that answers or closes lets every session return.
SessionEnds == <>(state = "returned")

-----------------------------------------------------------------------------
(* The inductive invariant.  Positions in the scripts: the version is read *)
(* at step 6; in the Venus programs CONTEXT_INIT is step 14, the ring is   *)
(* mapped at 19, cleared at 20, registered at 21, and then sampled,        *)
(* written and polled at 22 to 24, or the reply blob is mapped at 26 and   *)
(* the image's memory at 32.                                               *)

Venus == mode \notin GLModes
HasReply == {"ping", "version", "get_param", "get_capset", "create_blob", "transfer_get"}
Cmds == HasReply \cup {"create_renderer", "context_init", "submit_cmd2", "resource_create",
                      "transfer_put", "submit_cmd"}
Parts == {"header", "version", "valid", "value", "body", "res_id", "fd", "pixels"}

Streams ==
  /\ toServer \in Seq([cmd : Cmds, blob : {"none", "ring", "reply", "memory"}])
  /\ toClient \in Seq([cmd : HasReply, part : Parts, val : Nat])
  /\ serverMax \in ServerVersions

\* Where the client is, and what it has to show for it.
Course ==
  /\ state = "dial" => ip = 1 /\ toServer = << >> /\ toClient = << >>
  /\ state \in {"dial", "run"} => ip <= Len(Script(mode)) /\ verdict = "none"
  /\ ip = 1 => toServer = << >>

\* The k-th element of a reply; get_capset's body is all that follows.
PartAt(cmd, k) ==
  CASE k = 1 -> IF cmd = "transfer_get" THEN "pixels" ELSE "header"
    [] k = 2 -> IF cmd = "version" THEN "version" ELSE IF cmd = "create_blob" THEN "res_id" ELSE "valid"
    [] OTHER -> IF cmd = "get_param" THEN "value" ELSE IF cmd = "create_blob" THEN "fd" ELSE "body"

\* How many elements of its reply the client has when it comes to read parts.
Before(parts) ==
  IF parts \in {<<"header">>, <<"pixels">>} THEN 0 ELSE IF parts \in {<<"body">>, <<"fd">>} THEN 2 ELSE 1

\* How many are still to come.
ToCome ==
  CASE Step.cmd \in {"ping", "transfer_get"} -> 1
    [] Step.cmd = "version" -> 2 - Before(Step.parts)
    [] Step.cmd = "get_capset" /\ Step.parts # <<"header">> -> lastLen + 1 - Before(Step.parts)
    [] Step.cmd = "get_capset" /\ Step.parts = <<"header">> ->
         IF toClient = << >> THEN 2 ELSE toClient[1].val + 1
    [] OTHER -> 3 - Before(Step.parts)

\* What is on its way to a client that reads is the rest of one reply, all of it
\* if the server is alive; nothing is on its way to one that does not.
Reply ==
  state = "run" =>
    IF Step.do = "recv"
    THEN /\ Len(toClient) <= ToCome
         /\ \A k \in 1 .. Len(toClient) :
              toClient[k].cmd = Step.cmd /\ toClient[k].part = PartAt(Step.cmd, Before(Step.parts) + k)
         /\ Step.cmd = "get_capset" =>
              IF Step.parts = <<"header">> THEN toClient # << >> => toClient[1].val > 0 ELSE lastLen > 0
         /\ server = "up" /\ toServer = << >> => Len(toClient) = ToCome
         /\ server = "up" /\ Step.cmd = "version" =>
              \A k \in 1 .. Len(toClient) : toClient[k].part = "version" => toClient[k].val = version
    ELSE toClient = << >>

\* What is on its way to a server that is up: requests without a reply, and at
\* the end the one whose reply the client awaits.
Requests ==
  server = "up" =>
    /\ \A k \in 1 .. Len(toServer) : toServer[k].cmd \in HasReply =>
         k = Len(toServer) /\ At("recv") /\ Step.cmd = toServer[k].cmd
    /\ state = "run" /\ ip > 1 /\ Script(mode)[ip - 1].do = "recv" => toServer = << >>
    /\ At("recv") /\ toServer # << >> =>
         Before(Step.parts) = 0 /\ toClient = << >> /\ toServer[Len(toServer)].cmd = Step.cmd

\* The first request on its way.
First(cmd) == toServer # << >> /\ toServer[1].cmd = cmd

\* Every request on its way will be allowed when its turn comes.
Permitted ==
  server = "up" =>
    /\ ip > 1 => version > 0 \/ First("create_renderer")
    /\ \A k \in 1 .. Len(toServer) : toServer[k].cmd = "create_renderer" => k = 1 /\ ip <= 3
    /\ Venus /\ ip > 6 => version >= 3
    /\ Venus /\ ip > 14 => contextUp \/ First("context_init")
    /\ \A k \in 1 .. Len(toServer) :
         /\ toServer[k].cmd \in VenusCmd => Venus /\ ip > 6
         /\ toServer[k].cmd \in {"create_blob", "submit_cmd2"} => ip > 14

\* The ring is registered after it was cleared, and sampled before it is written.
RingLife ==
  /\ tail \in BOOLEAN
  /\ consumer # "none" \/ (\E k \in 1 .. Len(toServer) : toServer[k].cmd = "submit_cmd2") =>
       Venus /\ ip > 21
  /\ Venus /\ ip > 20 => head # Junk
  /\ Venus /\ ip \in 21 .. 23 => ~tail /\ head = 0
  /\ mode = "ring" /\ ip > 22 => headStart = 0
  /\ mode = "ring" /\ verdict = "pass" => head = 1

\* What the client holds is what it has deferred, and a descriptor about to be
\* mapped.
Stack(k) ==
  CASE k = 0 -> << >>
    [] k = 1 -> <<Socket>>
    [] k = 2 -> <<Map("ring"), Socket>>
    [] k = 3 -> <<Map("reply"), Map("ring"), Socket>>
    [] OTHER -> <<Map("memory"), Map("reply"), Map("ring"), Socket>>
Mapped == IF ~Venus \/ ip <= 19 THEN 1 ELSE IF mode = "ring" \/ ip <= 26 THEN 2
          ELSE IF ip <= 32 THEN 3 ELSE 4
Owned ==
  /\ \E k \in 0 .. 4 : deferred = Stack(k)
  /\ held = {deferred[i] : i \in DOMAIN deferred} \cup (IF At("mmap") THEN {FD(Step.blob)} ELSE {})
  /\ state \in {"dial", "returned"} => deferred = << >>
  /\ state = "run" => deferred = Stack(Mapped)

\* The session as a whole.  What Handshake, GetParam, GetCapset and
\* ResourceCreateBlob find on the socket is the rest of the one reply they asked
\* for; the requests on their way are in an order the server allows; the ring is
\* zeroed before it is registered and sampled before it is written; and the
\* deferred Close and Unmap calls are those of everything the client holds.
SessionInv ==
  /\ TypeOK /\ Streams /\ Course /\ Reply /\ Requests /\ Permitted /\ NeverRefused
  /\ RingLife /\ Owned
=============================================================================
