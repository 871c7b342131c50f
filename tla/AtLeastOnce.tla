----------------------------- MODULE AtLeastOnce -----------------------------
(***************************************************************************)
(* What the consumer runtime promises to the services built on it: every  *)
(* message after the point where consumption began is either handled or   *)
(* dead-lettered before the group's acknowledgement passes it.  A message *)
(* may be handled again, and the acknowledgement may fall back.            *)
(***************************************************************************)
EXTENDS Integers

CONSTANT MaxMessages  \* bound of the model: messages published

VARIABLES
  published,  \* the last published message
  start,      \* consumption began after this message
  handled,    \* messages whose handler succeeded
  dead,       \* messages given up to the dead-letter topic
  acked       \* all messages up to here are acknowledged; -1: none ever was

vars == <<published, start, handled, dead, acked>>

Messages == 1..MaxMessages
Covered(n) == \A m \in 1..n : m <= start \/ m \in handled \cup dead

Init ==
  /\ published = 0
  /\ start = 0
  /\ handled = {}
  /\ dead = {}
  /\ acked = -1

Publish ==
  /\ published < MaxMessages
  /\ published' = published + 1
  /\ UNCHANGED <<start, handled, dead, acked>>

\* As long as nothing is acknowledged, consumption (re)starts at the log's end.
StartAtEnd ==
  /\ acked = -1
  /\ start' = published
  /\ UNCHANGED <<published, handled, dead, acked>>

Handle(m) ==
  /\ m <= published
  /\ handled' = handled \cup {m}
  /\ UNCHANGED <<published, start, dead, acked>>

GiveUp(m) ==
  /\ m <= published
  /\ dead' = dead \cup {m}
  /\ UNCHANGED <<published, start, handled, acked>>

Acknowledge(n) ==
  /\ n <= published
  /\ Covered(n)
  /\ acked' = n
  /\ UNCHANGED <<published, start, handled, dead>>

Next ==
  \/ Publish
  \/ StartAtEnd
  \/ \E m \in Messages : Handle(m) \/ GiveUp(m) \/ Acknowledge(m)

Spec == Init /\ [][Next]_vars

=============================================================================
