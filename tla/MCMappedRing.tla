---------------------------- MODULE MCMappedRing ----------------------------
(* A four-dword ring: a batch of two commands may fill it exactly, and the  *)
(* cursor passes the end of the buffer at every offset of a command.        *)
EXTENDS MappedRing

\* One-dword set-reply command, and commands of one, two and three dwords.
SetReply == <<1>>
Commands == {<<2>>, <<2, 3>>, <<3, 2, 3>>}
MCBatch == {<<SetReply, c>> : c \in Commands} \cup {<<c>> : c \in Commands}
=============================================================================
