----------------------------- MODULE HostScript -----------------------------
(***************************************************************************)
(* The host side of the run-*.sh harnesses: a script starts a peer, boots  *)
(* a guest under QEMU, polls the serial log for a verdict, kills what it   *)
(* started and reads the logs once more to choose its exit code.           *)
(*                                                                         *)
(*   "plain"    run-blk.sh, run-rng.sh: no peer                            *)
(*   "balloon"  run-balloon.sh: no peer, but queries of QEMU's monitor      *)
(*   "net"      run-net.sh: a datagram peer must have seen the frame       *)
(*   "console"  run-console.sh: an echo peer on a Unix socket              *)
(*   "vsock"    run-vsock.sh: an AF_VSOCK listener, if the host has one    *)
(*   "gpu"      run.sh: waits for DONE and takes a screendump              *)
(*   "venus"    vtest/run-venus.sh: the guest powers itself off            *)
(*                                                                         *)
(* The three tests of a poll are separate steps, since the guest goes on   *)
(* printing between them.  The guest and the peers are in GuestPeers; here *)
(* is the life of their processes.  Time is nondeterminism: a guest may    *)
(* take any number of polls, a peer any time to come up.  A signal is sent *)
(* in one step and takes effect in another, and the script's reads of the  *)
(* monitor and its waits for a process have no deadline.                   *)
(***************************************************************************)
EXTENDS Naturals, FiniteSets

CONSTANTS
  Kinds,           \* the scripts that may run
  PollMax,         \* polls of the serial log (120 or 240; for "venus" the deadline)
  AwaitMax         \* looks for the echo peer's socket (40)

ASSUME ScriptAssumption ==
  /\ Kinds \subseteq {"plain", "balloon", "net", "console", "vsock", "gpu", "venus"}
  /\ PollMax \in Nat \ {0} /\ AwaitMax \in Nat \ {0}

VARIABLES
  kind,            \* which script
  sh,              \* where the script is
  polls,           \* iterations of its current loop
  exit,            \* its exit code; 255 while it runs
  qemu,            \* the QEMU process: "off", "up" or "dead"
  peer,            \* the peer process: "off", "starting", "up" or "gone"
  term,            \* the processes, of "qemu" and "peer", that were sent SIGTERM
  sock,            \* the echo peer's socket: "none", "bound", "listening" or "joined"
  serial,          \* verdict lines in the serial log
  observed,        \* TX-OBSERVED is in the peer's log
  frame,           \* what the scanout shows: "blank" (fewer than four colours), "sparse"
                   \* (one colour on 98% of it) or "colourful"
  ppm,             \* the screendump: "none", "ordered", "header" (no pixel yet), or what
                   \* the pixels written so far look like
  inbox,           \* the datagram in the net peer's socket: "none", "intact", "outside"
                   \* (damaged outside what the peer compares) or "damaged"
  trouble          \* ghost: what went wrong or came late

scriptVars == <<sh, polls, exit>>
procVars == <<qemu, peer, term, sock>>
logVars == <<serial, observed>>
hostVars == <<kind, scriptVars, procVars, logVars, frame, ppm, inbox, trouble>>

HasPeer == kind \in {"net", "console", "vsock"}
Running == 255

ScriptInit ==
  /\ kind \in Kinds
  /\ sh = "start" /\ polls = 0 /\ exit = Running
  /\ qemu = "off" /\ peer = "off" /\ term = {} /\ sock = "none"
  /\ serial = {} /\ observed = FALSE
  /\ frame = "blank" /\ ppm = "none" /\ inbox = "none"
  /\ trouble = {}

Finish(code) == sh' = "done" /\ exit' = code

-----------------------------------------------------------------------------
(* Starting the peer and the guest.                                        *)

\* After the build: the old logs are removed and the peer is put in the
\* background.  run-vsock.sh gives up if the host has no vhost-vsock.
Start ==
  /\ sh = "start"
  /\ \/ /\ kind \in {"plain", "balloon", "gpu", "venus"}
        /\ sh' = "boot"
        /\ UNCHANGED <<exit, peer, trouble>>
     \/ /\ HasPeer
        /\ peer' = "starting"
        /\ sh' = IF kind = "console" THEN "await" ELSE "boot"
        /\ UNCHANGED <<exit, trouble>>
     \/ /\ kind = "vsock"
        /\ Finish(64)
        /\ trouble' = trouble \cup {"absent"}
        /\ UNCHANGED peer
  /\ UNCHANGED <<kind, polls, qemu, term, sock, logVars, frame, ppm, inbox>>

\* Mutant: the early exit leaves the peer running.
AwaitSocketLeavesPeer ==
  /\ sh = "await"
  /\ \/ /\ sock # "none"
        /\ sh' = "boot"
        /\ polls' = 0
        /\ UNCHANGED <<exit, term, trouble>>
     \/ /\ sock = "none" /\ polls < AwaitMax
        /\ polls' = polls + 1
        /\ UNCHANGED <<sh, exit, term, trouble>>
     \/ /\ sock = "none" /\ polls = AwaitMax
        /\ Finish(2)
        /\ trouble' = trouble \cup {"nopeer"}
        /\ UNCHANGED <<polls, term>>
  /\ UNCHANGED <<kind, qemu, peer, sock, logVars, frame, ppm, inbox>>

\* The loop that waits for the echo peer's socket file, which is there as soon
\* as the socket is bound.  The early exit sends the peer a signal and does not
\* wait for its end.
AwaitSocket ==
  /\ sh = "await"
  /\ \/ /\ sock # "none"
        /\ sh' = "boot"
        /\ polls' = 0
        /\ UNCHANGED <<exit, term, trouble>>
     \/ /\ sock = "none" /\ polls < AwaitMax
        /\ polls' = polls + 1
        /\ UNCHANGED <<sh, exit, term, trouble>>
     \/ /\ sock = "none" /\ polls = AwaitMax
        /\ Finish(2)
        /\ trouble' = trouble \cup {"nopeer"}
        /\ term' = term \cup {"peer"}
        /\ UNCHANGED polls
  /\ UNCHANGED <<kind, qemu, peer, sock, logVars, frame, ppm, inbox>>

\* QEMU connects to the echo peer's socket as it starts, and exits if nobody
\* listens on it.
Boot ==
  /\ sh = "boot"
  /\ sh' = IF kind = "venus" THEN "watch" ELSE IF kind = "balloon" THEN "before" ELSE "pass?"
  /\ IF kind = "console" /\ sock # "listening"
     THEN qemu' = "dead" /\ trouble' = trouble \cup {"died"} /\ UNCHANGED sock
     ELSE /\ qemu' = "up"
          /\ sock' = IF kind = "console" THEN "joined" ELSE sock
          /\ UNCHANGED trouble
  /\ UNCHANGED <<kind, polls, exit, peer, term, logVars, frame, ppm, inbox>>

\* The peer binds its socket, or cannot.
PeerBinds ==
  /\ peer = "starting" /\ sock = "none"
  /\ \/ kind = "console" /\ sock' = "bound" /\ UNCHANGED <<peer, trouble>>
     \/ kind # "console" /\ peer' = "up" /\ UNCHANGED <<sock, trouble>>
     \/ peer' = "gone" /\ trouble' = trouble \cup {"nopeer"} /\ UNCHANGED sock
  /\ UNCHANGED <<kind, scriptVars, qemu, term, logVars, frame, ppm, inbox>>

\* The echo peer calls listen after bind: in between, a connection is refused.
PeerListens ==
  /\ peer = "starting" /\ sock = "bound"
  /\ peer' = "up" /\ sock' = "listening"
  /\ UNCHANGED <<kind, scriptVars, qemu, term, logVars, frame, ppm, inbox, trouble>>

\* QEMU exits on its own: an unusable device, a triple fault with -no-reboot.
QemuDies ==
  /\ qemu = "up"
  /\ qemu' = "dead"
  /\ trouble' = trouble \cup {"died"}
  /\ UNCHANGED <<kind, scriptVars, peer, term, sock, logVars, frame, ppm, inbox>>

\* SIGTERM ends a process, some time after it was sent.  QEMU leaves a dump
\* unfinished; a datagram the peer has not read is lost.
Terminates ==
  /\ \/ /\ "qemu" \in term /\ qemu = "up"
        /\ qemu' = "dead"
        /\ trouble' = IF ppm \notin {"none", frame} THEN trouble \cup {"undumped"} ELSE trouble
        /\ UNCHANGED peer
     \/ /\ "peer" \in term /\ peer \in {"starting", "up"}
        /\ peer' = "gone"
        /\ trouble' = IF inbox # "none" THEN trouble \cup {"unread"} ELSE trouble
        /\ UNCHANGED qemu
  /\ UNCHANGED <<kind, scriptVars, term, sock, logVars, frame, ppm, inbox>>

-----------------------------------------------------------------------------
(* Talking to QEMU's monitor.                                              *)

\* Where a script reads from the monitor: run-balloon.sh before its loop and
\* after it, run.sh for the banner and for the answer to its command.
InMonitor == {"before", "after", "banner", "asked"}

\* QEMU answers, or (before) the script gives up connecting; after the banner
\* the screendump is ordered.
MonitorReplies ==
  /\ sh \in InMonitor /\ qemu = "up"
  /\ sh' = CASE sh = "before" -> "pass?" [] sh = "banner" -> "asked" [] OTHER -> "kill"
  /\ ppm' = IF sh = "banner" THEN "ordered" ELSE ppm
  /\ UNCHANGED <<kind, polls, exit, procVars, logVars, frame, inbox, trouble>>

\* A monitor that is gone ends the read, and in run.sh the whole exchange.
MonitorGone ==
  /\ sh \in InMonitor /\ qemu = "dead"
  /\ sh' = IF sh = "before" THEN "pass?" ELSE "kill"
  /\ UNCHANGED <<kind, polls, exit, procVars, logVars, frame, ppm, inbox, trouble>>

\* What a dump looks like as it grows.  Its colours become more, and the share
\* of the commonest one is taken of the whole picture's size.
Stages == [ordered |-> "header", header |-> "blank", blank |-> "colourful", colourful |-> "sparse"]

\* QEMU writes the file on its own time; its answer does not wait for it.
QemuDumps ==
  /\ qemu = "up" /\ ppm \notin {"none", frame}
  /\ ppm' = Stages[ppm]
  /\ UNCHANGED <<kind, scriptVars, procVars, logVars, frame, inbox, trouble>>

-----------------------------------------------------------------------------
(* Waiting for the verdict.                                                *)

\* Only run.sh and run-balloon.sh do something before they kill QEMU.
LoopEnd == CASE kind = "gpu" -> "dump" [] kind = "balloon" -> "after" [] OTHER -> "kill"

GoodLine == IF kind = "gpu" THEN "DONE" ELSE "PASS"

Goto(place) == sh' = place /\ UNCHANGED <<kind, exit, procVars, logVars, frame, ppm, inbox>>

PollPass ==
  /\ sh = "pass?"
  /\ Goto(IF GoodLine \in serial THEN LoopEnd ELSE "fail?")
  /\ UNCHANGED <<polls, trouble>>

PollFail ==
  /\ sh = "fail?"
  /\ Goto(IF "FAIL" \in serial THEN LoopEnd ELSE "alive?")
  /\ UNCHANGED <<polls, trouble>>

\* Mutant: the loop runs until QEMU is gone.
PollAliveForever ==
  /\ sh = "alive?"
  /\ Goto(IF qemu = "dead" THEN LoopEnd ELSE "pass?")
  /\ UNCHANGED <<polls, trouble>>

PollAlive ==
  /\ sh = "alive?"
  /\ \/ /\ qemu = "dead"
        /\ Goto(LoopEnd)
        /\ UNCHANGED <<polls, trouble>>
     \/ /\ qemu # "dead" /\ polls + 1 < PollMax
        /\ Goto("pass?")
        /\ polls' = polls + 1
        /\ UNCHANGED trouble
     \/ /\ qemu # "dead" /\ polls + 1 = PollMax
        /\ Goto(LoopEnd)
        /\ polls' = polls + 1
        /\ trouble' = trouble \cup {"late"}

\* run-venus.sh: the loop ends with QEMU, at RESULTS-END or at the deadline;
\* only the deadline kills QEMU.
Watch ==
  /\ sh = "watch"
  /\ \/ /\ qemu = "dead" \/ "END" \in serial
        /\ sh' = "wait"
        /\ UNCHANGED <<polls, term, trouble>>
     \/ /\ qemu = "up" /\ "END" \notin serial /\ polls + 1 < PollMax
        /\ polls' = polls + 1
        /\ UNCHANGED <<sh, term, trouble>>
     \/ /\ qemu = "up" /\ "END" \notin serial /\ polls + 1 = PollMax
        /\ sh' = "wait"
        /\ term' = term \cup {"qemu"}
        /\ trouble' = trouble \cup {"late"}
        /\ UNCHANGED polls
  /\ UNCHANGED <<kind, exit, qemu, peer, sock, logVars, frame, ppm, inbox>>

-----------------------------------------------------------------------------
(* Tearing down, and the verdict.                                          *)

\* run.sh's check of the picture: at least four colours, and none of them on
\* 98% of it.  Without a pixel the check itself fails.
PictureCode ==
  CASE ppm \in {"none", "ordered"} -> 2
    [] ppm = "header" -> 1
    [] ppm = "colourful" -> 0
    [] OTHER -> 3

\* Mutant: the guest's word is enough for run-net.sh.
CodeGuestOnly ==
  CASE kind = "venus" -> IF "PASS" \in serial THEN 0 ELSE IF "FAIL" \in serial THEN 2 ELSE 3
    [] kind = "gpu" -> PictureCode
    [] OTHER -> IF "PASS" \in serial THEN 0 ELSE IF "FAIL" \in serial THEN 3 ELSE 2

\* Mutant: a poll loop that ran out means that there is no verdict.
CodeNoLateLine ==
  CASE kind = "venus" -> IF "PASS" \in serial THEN 0 ELSE IF "FAIL" \in serial THEN 2 ELSE 3
    [] kind = "gpu" -> PictureCode
    [] kind = "net" -> IF "PASS" \in serial /\ observed THEN 0
                       ELSE IF "FAIL" \in serial THEN 3
                       ELSE IF "PASS" \in serial THEN 4 ELSE 2
    [] OTHER -> IF polls = PollMax THEN 2
                ELSE IF "PASS" \in serial THEN 0 ELSE IF "FAIL" \in serial THEN 3 ELSE 2

\* The logs are searched again, so a line printed after the last poll counts.
\* run.sh looks at the picture only.
Code ==
  CASE kind = "venus" -> IF "PASS" \in serial THEN 0 ELSE IF "FAIL" \in serial THEN 2 ELSE 3
    [] kind = "gpu" -> PictureCode
    [] kind = "net" -> IF "PASS" \in serial /\ observed THEN 0
                       ELSE IF "FAIL" \in serial THEN 3
                       ELSE IF "PASS" \in serial THEN 4 ELSE 2
    [] OTHER -> IF "PASS" \in serial THEN 0 ELSE IF "FAIL" \in serial THEN 3 ELSE 2

\* run.sh asks for a screendump of a guest that is done, if it gets a connection.
Screendump ==
  /\ sh = "dump"
  /\ Goto(IF "DONE" \in serial /\ qemu = "up" THEN "banner" ELSE "kill")
  /\ UNCHANGED <<polls, trouble>>

Signal(process) == term' = term \cup {process}

\* Mutant: the script does not wait for QEMU's end.
KillQemuNoWait ==
  /\ sh = "kill"
  /\ Signal("qemu")
  /\ sh' = IF HasPeer THEN "reap" ELSE "verdict"
  /\ UNCHANGED <<kind, polls, exit, qemu, peer, sock, logVars, frame, ppm, inbox, trouble>>

KillQemu ==
  /\ sh = "kill"
  /\ Signal("qemu")
  /\ sh' = "wait"
  /\ UNCHANGED <<kind, polls, exit, qemu, peer, sock, logVars, frame, ppm, inbox, trouble>>

\* The wait has no deadline.
WaitQemu ==
  /\ sh = "wait" /\ qemu = "dead"
  /\ Goto(IF HasPeer THEN "reap" ELSE "verdict")
  /\ UNCHANGED <<polls, trouble>>

KillPeer ==
  /\ sh = "reap"
  /\ Signal("peer")
  /\ sh' = "reaped"
  /\ UNCHANGED <<kind, polls, exit, qemu, peer, sock, logVars, frame, ppm, inbox, trouble>>

WaitPeer ==
  /\ sh = "reaped" /\ peer = "gone"
  /\ Goto("verdict")
  /\ UNCHANGED <<polls, trouble>>

Verdict ==
  /\ sh = "verdict"
  /\ Finish(Code)
  /\ UNCHANGED <<kind, polls, procVars, logVars, frame, ppm, inbox, trouble>>

Script ==
  \/ Start \/ AwaitSocket \/ Boot
  \/ PollPass \/ PollFail \/ PollAlive \/ Watch
  \/ Screendump \/ MonitorGone
  \/ KillQemu \/ WaitQemu \/ KillPeer \/ WaitPeer \/ Verdict
=============================================================================
