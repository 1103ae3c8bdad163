----------------------------- MODULE GuestPeers -----------------------------
(***************************************************************************)
(* The guests of the run-*.sh harnesses and their host peers, composed     *)
(* with the scripts of HostScript.                                         *)
(*                                                                         *)
(* A guest validator prints one verdict line and then spins for ever; it   *)
(* runs only while QEMU does.  Its polls of a device are bounded, so it    *)
(* may give up at any moment at which nothing has arrived.  The devices,   *)
(* the drivers and the wires are external: they may refuse, lose, damage   *)
(* or delay what they are given.  The validators without a peer are        *)
(* modelled in GuestChecks; here they just reach a verdict.                *)
(***************************************************************************)
EXTENDS HostScript, Sequences

CONSTANTS
  Token            \* the console's token, without zeros and with unequal neighbours

ASSUME TokenAssumption ==
  /\ Token \in Seq(Nat) /\ Len(Token) > 1
  /\ \A i \in 1 .. Len(Token) : Token[i] # 0
  /\ \A i \in 1 .. Len(Token) - 1 : Token[i] # Token[i + 1]

VARIABLES
  g,               \* where the guest is
  emitted,         \* ghost, net: what the device sent: "none", "intact", "outside" (damaged
                   \* outside the ethertype and the payload) or "damaged"
  tx, rx,          \* console: bytes on the way to the peer, and back
  got,             \* console: what the guest has read
  bent,            \* ghost, console: directions whose bytes were damaged
  reply            \* vsock: the packet for the guest; "none" if there is none

consoleVars == <<tx, rx, got, bent>>
guestVars == <<emitted, consoleVars, reply>>
vars == <<hostVars, g, guestVars>>

Init ==
  /\ ScriptInit
  /\ g = "open"
  /\ emitted = "none"
  /\ tx = << >> /\ rx = << >> /\ got = << >> /\ bent = {}
  /\ reply = "none"

GuestRuns(k, pc) == qemu = "up" /\ kind = k /\ g = pc

\* Every verdict is the last thing the guest does: halt() follows it.
Report(line) ==
  /\ serial' = serial \cup {line}
  /\ g' = "halted"
  /\ UNCHANGED <<kind, scriptVars, procVars, observed, ppm>>

Blame(what) == trouble' = trouble \cup {what}

\* What the guests leave alone between verdicts.
Quiet == UNCHANGED <<kind, scriptVars, procVars, logVars, ppm>>

\* pci.Probe, transport.New and OpenVirtio*: any of them may fail.
GuestOpen ==
  /\ qemu = "up" /\ g = "open" /\ kind # "venus"
  /\ \/ g' = "run" /\ Quiet /\ UNCHANGED trouble
     \/ Report("FAIL") /\ Blame("driver")
  /\ UNCHANGED <<frame, inbox, guestVars>>

\* The validators without a peer.
PlainVerdict ==
  /\ GuestRuns("plain", "run") \/ GuestRuns("balloon", "run")
  /\ \/ Report("PASS") /\ UNCHANGED trouble
     \/ Report("FAIL") /\ Blame("driver")
  /\ UNCHANGED <<frame, inbox, guestVars>>

\* gpuvalidate: the cube is rendered and flushed before DONE is printed.  A
\* faulty device accepts the flush and shows anything.
GpuRender ==
  /\ GuestRuns("gpu", "run")
  /\ \/ Report("DONE") /\ UNCHANGED trouble /\ frame' = "colourful"
     \/ Report("DONE") /\ Blame("device") /\ frame' \in {"blank", "sparse", "colourful"}
     \/ Report("FAIL") /\ Blame("driver") /\ UNCHANGED frame
  /\ UNCHANGED <<inbox, guestVars>>

-----------------------------------------------------------------------------
(* venusclear-guest.sh: its report, the end marker, poweroff.              *)

VenusReport ==
  /\ GuestRuns("venus", "open")
  /\ \/ serial' = serial \cup {"PASS"} /\ UNCHANGED trouble
     \/ serial' = serial \cup {"FAIL"} /\ Blame("driver")
     \/ Blame("nopeer") /\ UNCHANGED serial
  /\ g' = "marked"
  /\ UNCHANGED <<kind, scriptVars, procVars, observed, frame, ppm, inbox, guestVars>>

VenusEnd ==
  /\ GuestRuns("venus", "marked")
  /\ Report("END")
  /\ UNCHANGED <<frame, inbox, trouble, guestVars>>

PowerOff ==
  /\ GuestRuns("venus", "halted")
  /\ qemu' = "dead"
  /\ UNCHANGED <<kind, scriptVars, peer, term, sock, logVars, frame, ppm, inbox, trouble, g, guestVars>>

-----------------------------------------------------------------------------
(* netvalidate and the raw-frame peer of run-net.sh.                       *)

\* TransmitFrame: refused, or accepted by the device.  A frame on the wire
\* reaches the peer's socket if the peer has bound it and UDP does not lose it.
NetTransmit ==
  /\ GuestRuns("net", "run")
  /\ \/ Report("FAIL") /\ Blame("driver") /\ UNCHANGED <<emitted, inbox>>
     \/ /\ g' = "rx"
        /\ Quiet
        /\ emitted' \in {"none", "intact", "outside", "damaged"}
        /\ \/ emitted' = "intact" /\ peer = "up" /\ inbox' = emitted' /\ UNCHANGED trouble
           \/ emitted' = "intact" /\ Blame("lost") /\ UNCHANGED inbox
           \/ emitted' \in {"outside", "damaged"} /\ peer = "up" /\ inbox' = emitted' /\ Blame("device")
           \/ emitted' # "intact" /\ Blame("device") /\ UNCHANGED inbox
  /\ UNCHANGED <<frame, consoleVars, reply>>

\* ReceiveFrame returns any frame, unexamined, or gives up: a pass either way.
NetReceive ==
  /\ GuestRuns("net", "rx")
  /\ Report("PASS")
  /\ UNCHANGED <<frame, inbox, trouble, guestVars>>

\* The peer compares the ethertype and the payload only: a frame with other
\* addresses, without its padding or with another one is the magic frame too.
NetPeerRecv ==
  /\ kind = "net" /\ peer = "up" /\ inbox # "none" /\ ~observed
  /\ observed' = (inbox \in {"intact", "outside"})
  /\ inbox' = "none"
  /\ UNCHANGED <<kind, scriptVars, procVars, serial, frame, ppm, trouble, g, guestVars>>

\* ... answers it once and exits.  The answer is not followed further: with it
\* or without, NetReceive passes.
NetPeerReply ==
  /\ kind = "net" /\ peer = "up" /\ observed
  /\ peer' = "gone"
  /\ UNCHANGED <<kind, scriptVars, qemu, term, sock, logVars, frame, ppm, inbox, trouble, g, guestVars>>

\* Its socket times out after 50 s, the script's polls after 60.
NetPeerExpires ==
  /\ kind = "net" /\ peer = "up" /\ inbox = "none" /\ ~observed
  /\ peer' = "gone"
  /\ Blame("expired")
  /\ UNCHANGED <<kind, scriptVars, qemu, term, sock, logVars, frame, ppm, inbox, g, guestVars>>

-----------------------------------------------------------------------------
(* consolevalidate and the echo peer of run-console.sh.                    *)

\* What a faulty data path makes of a chunk: it is cut, shifted or swapped.
Damaged(s) == {Tail(s), <<0>> \o s} \cup (IF Len(s) > 1 THEN {<<s[2], s[1]>> \o SubSeq(s, 3, Len(s))} ELSE {})

ConsoleWrite ==
  /\ GuestRuns("console", "run")
  /\ \/ Report("FAIL") /\ Blame("driver") /\ UNCHANGED <<tx, bent>>
     \/ g' = "read" /\ Quiet /\ tx' = Token /\ UNCHANGED <<bent, trouble>>
     \/ /\ g' = "read" /\ Quiet /\ Blame("device")
        /\ tx' \in Damaged(Token)
        /\ bent' = bent \cup {"tx"}
  /\ UNCHANGED <<frame, inbox, emitted, rx, got, reply>>

\* The echo peer ends with its connection.
EchoPeerEnds ==
  /\ kind = "console" /\ peer = "up" /\ sock = "joined" /\ qemu = "dead"
  /\ peer' = "gone"
  /\ UNCHANGED <<kind, scriptVars, qemu, term, sock, logVars, frame, ppm, inbox, trouble, g, guestVars>>

\* recv takes any part of what has arrived; sendall returns all of it.
EchoPeer ==
  /\ kind = "console" /\ peer = "up" /\ qemu = "up" /\ tx # << >>
  /\ \E n \in 1 .. Len(tx) :
       /\ rx' = rx \o SubSeq(tx, 1, n)
       /\ tx' = SubSeq(tx, n + 1, Len(tx))
  /\ UNCHANGED <<hostVars, g, emitted, got, bent, reply>>

Short == Len(got) < Len(Token)

\* Read returns any part of what has come back, or gives up on nothing.
ConsoleRead ==
  /\ GuestRuns("console", "read") /\ Short
  /\ \/ /\ rx # << >>
        /\ \E n \in 1 .. Len(rx) :
             /\ rx' = SubSeq(rx, n + 1, Len(rx))
             /\ \/ got' = got \o SubSeq(rx, 1, n) /\ UNCHANGED <<bent, trouble>>
                \/ /\ \E c \in Damaged(SubSeq(rx, 1, n)) : got' = got \o c
                   /\ bent' = bent \cup {"rx"}
                   /\ Blame("device")
        /\ Quiet /\ UNCHANGED g
     \/ rx = << >> /\ Report("FAIL") /\ Blame("silence") /\ UNCHANGED <<rx, got, bent>>
  /\ UNCHANGED <<frame, inbox, emitted, tx, reply>>

\* The first Len(Token) bytes are compared; more of them are ignored.
ConsoleCompare ==
  /\ GuestRuns("console", "read") /\ ~Short
  /\ Report(IF SubSeq(got, 1, Len(Token)) = Token THEN "PASS" ELSE "FAIL")
  /\ UNCHANGED <<frame, inbox, trouble, guestVars>>

-----------------------------------------------------------------------------
(* vsockvalidate and the listener of run-vsock.sh.                         *)

\* A reserved CID or a failed send is a FAIL.  The host's kernel answers the
\* request: with a response if a listener is bound, with a reset if not.
VsockSend ==
  /\ GuestRuns("vsock", "run")
  /\ \/ Report("FAIL") /\ Blame("driver") /\ UNCHANGED reply
     \/ /\ g' = "recv" /\ Quiet
        /\ \/ reply' = (IF peer = "up" THEN "response" ELSE "reset") /\ UNCHANGED trouble
           \/ reply' \in {"none", "misaddressed"} /\ Blame("device")
  /\ UNCHANGED <<frame, inbox, emitted, consoleVars>>

\* Only the destination of the packet is examined.
VsockReceive ==
  /\ GuestRuns("vsock", "recv")
  /\ Report(IF reply \in {"response", "reset"} THEN "PASS" ELSE "FAIL")
  /\ UNCHANGED <<frame, inbox, trouble, guestVars>>

-----------------------------------------------------------------------------
Guest ==
  \/ GuestOpen \/ PlainVerdict \/ GpuRender
  \/ VenusReport \/ VenusEnd
  \/ NetTransmit \/ NetReceive
  \/ ConsoleWrite \/ ConsoleRead \/ ConsoleCompare
  \/ VsockSend \/ VsockReceive

Peers ==
  \/ (PeerBinds \/ PeerListens) /\ UNCHANGED <<g, guestVars>>
  \/ NetPeerRecv \/ NetPeerReply \/ NetPeerExpires \/ EchoPeer \/ EchoPeerEnds

Monitor == MonitorReplies /\ UNCHANGED <<g, guestVars>>
Signals == Terminates /\ UNCHANGED <<g, guestVars>>

ScriptStep == Script /\ UNCHANGED <<g, guestVars>>

Finished == sh = "done" /\ UNCHANGED vars

Next ==
  \/ ScriptStep \/ Guest \/ Peers \/ PowerOff
  \/ Monitor \/ Signals
  \/ (QemuDies \/ QemuDumps) /\ UNCHANGED <<g, guestVars>>
  \/ Finished

\* The script is an ordinary process of the host.  It waits without a deadline
\* in three places, and these assumptions are what ends the waits: QEMU's
\* monitor answers while QEMU lives, SIGTERM ends a process, and poweroff, which
\* follows the end marker unconditionally, ends QEMU.  Neither the validators
\* nor the peers owe anybody progress.
Spec ==
  /\ Init /\ [][Next]_vars
  /\ WF_vars(ScriptStep) /\ WF_vars(Monitor) /\ WF_vars(Signals) /\ WF_vars(PowerOff)

-----------------------------------------------------------------------------
(* Properties.                                                             *)

HostTypes ==
  /\ kind \in Kinds /\ polls \in 0 .. PollMax + AwaitMax
  /\ exit \in {0, 1, 2, 3, 4, 64, Running}
  /\ qemu \in {"off", "up", "dead"} /\ peer \in {"off", "starting", "up", "gone"}
  /\ term \subseteq {"qemu", "peer"}
  /\ sock \in {"none", "bound", "listening", "joined"}
DataTypes ==
  /\ serial \subseteq {"PASS", "FAIL", "DONE", "END"}
  /\ inbox \in {"none", "intact", "outside", "damaged"}
  /\ ppm \in {"none", "ordered", "header", "blank", "colourful", "sparse"}
  /\ Len(got) <= 2 * Len(Token) + 1
  /\ bent \subseteq {"tx", "rx"}

\* The state of script, processes and guest has its type.
TypeOK == HostTypes /\ DataTypes /\ observed \in BOOLEAN

\* A guest reports once: no path of a validator prints PASS and FAIL, so the
\* scripts may look for PASS first (main.go of the guests: halt after each).
OneVerdict == ~({"PASS", "FAIL"} \subseteq serial)

\* What exit code 0 shows.  run-net.sh: the device sent a frame with the
\* ethertype and the payload it was given (run-net.sh:56-60), not that the rest
\* of it was intact.  run-console.sh: no single direction cut, shifted or swapped
\* bytes (consolevalidate/main.go:45-48), however the stream was split.  run.sh:
\* the scanout had at least four colours (run.sh:110), not that it was the cube;
\* not even that no colour covered it, if the dump was cut short.
PassIsEarned ==
  exit = 0 => /\ kind = "net" => emitted \in {"intact", "outside"}
              /\ kind = "console" => Cardinality(bent) # 1
              /\ kind = "gpu" => frame # "blank"

\* A verdict that the guest prints after the last poll, but before it is
\* killed, still counts (run-net.sh:115-133).
LateLineCounts ==
  sh = "done" /\ kind \notin {"gpu", "venus"} /\ serial # {} => exit # 2

\* What an exit code other than 0 may be put down to.
Causes(code) ==
  CASE code = 64 -> {"absent"}
    [] code = 4 -> {"device", "lost", "expired", "unread", "nopeer"}
    [] kind = "venus" -> IF code = 2 THEN {"driver"} ELSE {"died", "late", "nopeer"}
    [] kind = "gpu" -> {"died", "undumped"} \cup (IF code = 2 THEN {"driver", "late"}
                                                  ELSE IF code = 3 THEN {"device"} ELSE {})
    [] OTHER -> IF code = 2 THEN {"died", "late", "nopeer"} ELSE {"driver", "device", "silence"}

\* No script blames without a reason, late lines included: FAIL has a driver, a device or a silent
\* echo behind it, WALL (run-net.sh:128-131) a frame that did not get through, and "no
\* verdict" a guest that died or was late.  run.sh's picture may also be
\* unfinished, since nothing waits for QEMU to write it.
VerdictHasCause ==
  /\ LateLineCounts
  /\ sh = "done" /\ exit # 0 => trouble \cap Causes(exit) # {}

\* Nothing is left running when a script ends, on its early exits too, except
\* an echo peer on its way out: run-console.sh:68 does not wait for it.
NoStrays == sh = "done" => qemu # "up" /\ (peer \in {"off", "gone"} \/ "peer" \in term)

\* What the exit code was chosen from does not change afterwards: the writers
\* of the logs are dead before they are searched.
LogStays == exit # Running => UNCHANGED <<logVars, ppm>>
LogFrozen == [][LogStays]_vars

\* Every script ends, though the guest's validator and the peer may hang and QEMU
\* may run on or die at any moment: as far as QEMU's monitor answers, SIGTERM
\* works and a guest that has said poweroff is switched off (see Spec).
ScriptEnds == <>(sh = "done")

-----------------------------------------------------------------------------
(* The inductive invariant.                                                *)

Loop == {"pass?", "fail?", "alive?"}
Ending == {"dump", "banner", "asked", "after", "kill", "wait", "reap", "reaped", "verdict"}
Quitting == {"wait", "reap", "reaped", "verdict", "done"}

\* Where each script can be, and how far its loops have come.
ScriptPlace ==
  /\ sh \in {"start", "await", "boot", "before", "watch", "done"} \cup Loop \cup Ending
  /\ sh = "await" => kind = "console" /\ polls <= AwaitMax
  /\ sh \in {"start", "boot", "before"} => polls = 0
  /\ sh \in Loop \cup {"watch"} => polls < PollMax
  /\ sh = "watch" => kind = "venus"
  /\ sh \in Loop \cup {"dump", "kill"} => kind # "venus"
  /\ sh \in {"dump", "banner", "asked"} => kind = "gpu"
  /\ sh \in {"before", "after"} => kind = "balloon"
  /\ sh \in {"reap", "reaped"} => HasPeer
  /\ exit = Running <=> sh # "done"

\* Which processes there are at each place.
ProcessLife ==
  /\ sh \in {"start", "await", "boot"} => qemu = "off"
  /\ sh \in Loop \cup {"before", "watch", "dump", "kill", "wait"} \cup InMonitor => qemu # "off"
  /\ sh \in {"reap", "reaped", "verdict"} => qemu = "dead"
  /\ sh = "start" \/ ~HasPeer => peer = "off"
  /\ sh = "verdict" => peer \in {"off", "gone"}
  /\ "qemu" \in term => sh \in Quitting
  /\ "peer" \in term => sh \in {"reaped", "verdict", "done"}

\* The guest prints nothing before its verdict, and each kind its own lines.
GuestLines ==
  /\ g \in {"open", "run", "rx", "read", "recv", "marked", "halted"}
  /\ qemu = "off" => g = "open"
  /\ g \notin {"marked", "halted"} => serial = {}
  /\ kind = "venus" => g \in {"open", "marked", "halted"} /\ "DONE" \notin serial
  /\ kind = "gpu" => serial \subseteq {"DONE", "FAIL"}
  /\ kind \notin {"venus", "gpu"} => serial \subseteq {"PASS", "FAIL"}

\* What a line, a dead QEMU and the end of a loop are due to.
EndHasCause ==
  /\ "FAIL" \in serial =>
       \/ "driver" \in trouble
       \/ kind \in {"console", "vsock"} /\ trouble \cap {"device", "silence"} # {}
  /\ kind # "venus" /\ qemu = "dead" => "died" \in trouble \/ "qemu" \in term
  /\ kind = "venus" /\ "qemu" \in term => "late" \in trouble
  /\ kind = "venus" /\ g \in {"marked", "halted"} =>
       serial \cap {"PASS", "FAIL"} # {} \/ "nopeer" \in trouble
  /\ kind = "venus" /\ qemu = "dead" => g = "halted" \/ trouble \cap {"died", "late"} # {}
  /\ kind # "venus" /\ sh \in Ending =>
       GoodLine \in serial \/ "FAIL" \in serial \/ trouble \cap {"died", "late"} # {}

\* The dump is on its way to the picture of a finished guest, or there is a
\* reason for its absence or for what is missing in it.
Picture ==
  /\ frame \in {"blank", "sparse", "colourful"}
  /\ kind # "gpu" => ppm = "none"
  /\ sh \in {"banner", "asked"} \/ ppm # "none" => "DONE" \in serial
  /\ ppm = "colourful" => frame # "blank"
  /\ ppm = "sparse" => frame = "sparse"
  /\ "DONE" \in serial /\ frame # "colourful" => "device" \in trouble
  /\ qemu = "dead" /\ ppm \notin {"none", frame} => trouble \cap {"died", "undumped"} # {}
  /\ kind = "gpu" /\ sh \in {"kill", "wait", "verdict"} /\ ppm = "none" =>
       trouble \cap {"driver", "died", "late"} # {}
  /\ sh = "asked" => ppm # "none"

\* What became of the frame of run-net.sh.
FrameFate ==
  /\ g \in {"open", "run"} => emitted = "none"
  /\ inbox # "none" => inbox = emitted /\ peer \notin {"off", "starting"} /\ ~observed
  /\ observed => emitted \in {"intact", "outside"}
  /\ kind = "net" /\ (g = "rx" \/ "PASS" \in serial) =>
       trouble \cap {"device", "lost"} # {} \/ inbox = "intact" \/ observed
  /\ kind = "net" /\ peer = "gone" /\ inbox # "none" => "unread" \in trouble

\* What became of the token of run-console.sh: the bytes read and on their way
\* are the token, or it was damaged in a way that the rest cannot make good.
Stream == (got \o rx) \o tx
TokenFate ==
  /\ tx \in Seq(Nat) /\ rx \in Seq(Nat) /\ got \in Seq(Nat)
  /\ Len(rx) + Len(tx) <= Len(Token) + 1
  /\ g \in {"open", "run"} => tx = << >> /\ rx = << >> /\ got = << >> /\ bent = {}
  /\ bent # {} => "device" \in trouble
  /\ g = "read" /\ bent = {} => Stream = Token
  /\ g = "read" /\ bent = {"tx"} => Len(Stream) < Len(Token) \/ Stream[1] # Token[1]
  /\ g = "read" /\ bent = {"rx"} =>
       \/ Len(Stream) < Len(Token)
       \/ \E i \in 1 .. Len(Token) : i <= Len(got) /\ got[i] # Token[i]
  /\ kind = "console" /\ "PASS" \in serial => bent \notin {{"tx"}, {"rx"}}

\* What a script exited with.
ExitFate ==
  sh = "done" =>
    \/ exit = 64 /\ kind = "vsock" /\ qemu = "off" /\ peer = "off" /\ "absent" \in trouble
    \/ exit = 2 /\ kind = "console" /\ qemu = "off" /\ "nopeer" \in trouble
    \/ /\ exit = Code /\ (exit = 0 \/ trouble \cap Causes(exit) # {})
       /\ qemu = "dead" /\ peer \in {"off", "gone"}

\* A packet that will not do has a device behind it.
PacketFate == g = "recv" /\ reply \notin {"response", "reset"} => "device" \in trouble

\* The life of script, guest, peer and processes: types, one verdict at most,
\* no strays, and how each came to where it is.
HarnessInv ==
  /\ TypeOK /\ OneVerdict /\ NoStrays
  /\ ScriptPlace /\ ProcessLife /\ GuestLines /\ EndHasCause
  /\ Picture /\ FrameFate /\ TokenFate /\ PacketFate /\ ExitFate

-----------------------------------------------------------------------------
(* What the repository says of the harness and the code does not do.       *)

\* run-vsock.sh:12-16: "the guest sends an OpRequest and the host listener
\* replies, and the guest asserts the reply".
ListenerReplied == kind = "vsock" /\ exit = 0 => reply = "response"
=============================================================================
