------------------------------- MODULE MCWsHub -------------------------------
(* A user who opens two connections.                                          *)
EXTENDS WsHub

CONSTANTS c1, c2, alice

MCUser == [c \in Conns |-> alice]

=============================================================================
