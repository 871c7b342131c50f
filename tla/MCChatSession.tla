--------------------------- MODULE MCChatSession ---------------------------
(* One user with two streams; limits and window are small.                  *)
EXTENDS ChatSession, TLC

CONSTANTS u1, s1, s2

MCUserOf == s1 :> u1 @@ s2 :> u1
Symmetric == Permutations(Conversations) \cup Permutations(Streams)
=============================================================================
