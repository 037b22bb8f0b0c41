-------------------------- MODULE MCAgentSessions --------------------------
(* Two runs of at most two steps each on one session.                       *)
EXTENDS AgentSessions

CONSTANTS a, b

MCWorkers == {a, b}
=============================================================================
