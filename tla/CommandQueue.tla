---------------------------- MODULE CommandQueue ----------------------------
(***************************************************************************)
(* What a command ring promises its users, with no shared memory in it: an *)
(* unbounded FIFO of dwords.                                               *)
(*                                                                         *)
(*   - whole commands enter at the tail, in the order they are submitted;  *)
(*   - the consumer takes dwords from the front, each exactly once;        *)
(*   - an acknowledgement given to the producer covers only dwords that    *)
(*     the consumer has taken.                                             *)
(*                                                                         *)
(* MappedRing implements this specification (PROPERTY Queue!Spec).         *)
(***************************************************************************)
EXTENDS Naturals, Sequences

CONSTANT Command   \* the nonempty dword sequences that may be submitted

VARIABLES
  stream,          \* every dword submitted so far, in order
  taken,           \* every dword the consumer has taken so far, in order
  acked            \* how many dwords the producer knows to be consumed

vars == <<stream, taken, acked>>

Init ==
  /\ stream = << >>
  /\ taken = << >>
  /\ acked = 0

Send ==
  /\ \E c \in Command : stream' = stream \o c
  /\ UNCHANGED <<taken, acked>>

Take ==
  /\ Len(taken) < Len(stream)
  /\ taken' = Append(taken, stream[Len(taken) + 1])
  /\ UNCHANGED <<stream, acked>>

Acknowledge ==
  /\ acked' \in acked .. Len(taken)
  /\ UNCHANGED <<stream, taken>>

Next == Send \/ Take \/ Acknowledge

Spec == Init /\ [][Next]_vars
=============================================================================
