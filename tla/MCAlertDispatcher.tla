-------------------------- MODULE MCAlertDispatcher --------------------------
(* A pod of two workers, two routable events, an unroutable and a malformed   *)
(* one.                                                                       *)
EXTENDS AlertDispatcher

CONSTANTS first, second, unroutable, malformed, w1, w2

MCEvents == {first, second, unroutable, malformed}
MCPods == {{w1, w2}}

\* Two partitions: the second routable event comes after the malformed one, the
\* unroutable event after the first routable one.
MCEarlier ==
  [e \in MCEvents |-> CASE e = unroutable -> {first}
                       [] e = second -> {malformed}
                       [] OTHER -> {}]

=============================================================================
