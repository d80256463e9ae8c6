--------------------------- MODULE MCAgentServer ---------------------------
(* AgentServer with up to four connections, requests and descriptors.     *)
EXTENDS AgentServer, TLC

Symmetry == Permutations(Conn) \cup Permutations(Request) \cup Permutations(Fd)
=============================================================================
