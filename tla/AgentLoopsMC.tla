---------------------------- MODULE AgentLoopsMC ----------------------------
(* A small instance of AgentLoops. *)
EXTENDS AgentLoops

\* No rounds but the demand's; more rounds than the cap.
MCRequests    == {<<-1, NoInt>>, <<2, 0>>}
MCSubRequests == {<<1, 0>>}
=============================================================================
