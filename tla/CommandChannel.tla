--------------------------- MODULE CommandChannel ---------------------------
(***************************************************************************)
(* What the authenticated radio link promises to the application, without  *)
(* sessions, nonces or keys: the desktop submits numbered commands and the *)
(* device obeys some of them, each at most once and in the order they were *)
(* submitted.  Commands may be lost: the code has no acknowledgement and   *)
(* no retransmission of commands.                                          *)
(***************************************************************************)
EXTENDS Naturals, Sequences

VARIABLES
  submitted,   \* how many commands the application has handed over
  obeyed       \* numbers of the commands the device has acted on

channelVars == <<submitted, obeyed>>

ChannelInit ==
  /\ submitted = 0
  /\ obeyed = <<>>

Submit ==
  /\ submitted' = submitted + 1
  /\ UNCHANGED obeyed

Obey(n) ==
  /\ n \in 1..submitted
  /\ \A i \in 1..Len(obeyed) : obeyed[i] < n
  /\ obeyed' = Append(obeyed, n)
  /\ UNCHANGED submitted

ChannelNext == Submit \/ \E n \in 1..submitted : Obey(n)

ChannelSpec == ChannelInit /\ [][ChannelNext]_channelVars
=============================================================================
