--------------------------- MODULE MCStripeBilling ---------------------------
(* Two pods, one of which serves two concurrent webhook requests.             *)
EXTENDS StripeBilling

CONSTANTS p1, p2, h1, h2

MCPodOf == [h \in Handlers |-> p1]

=============================================================================
