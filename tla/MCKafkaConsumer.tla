--------------------------- MODULE MCKafkaConsumer ---------------------------
(* Instance of KafkaConsumer: a pod with two readers and a pod with one.      *)
EXTENDS KafkaConsumer, TLC

CONSTANTS r1, r2, r3, p1, p2

MCProc == r1 :> p1 @@ r2 :> p1 @@ r3 :> p2

=============================================================================
