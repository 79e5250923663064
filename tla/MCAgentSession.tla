--------------------------- MODULE MCAgentSession ---------------------------
(* Small instances of AgentSession for TLC.                                 *)
EXTENDS AgentSession

CONSTANTS F, G, A, B

\* One of the two files holds a record larger than a pipe.
LargeInG == {<<G, A>>}

=============================================================================
