--------------------------- MODULE MCAgentSession ---------------------------
(* Agent "a" is run at once, agent "b" asks for inputs first. *)
EXTENDS AgentSession

MCAgents == {"a", "b"}
MCWithInputs == {"b"}

(* One agent, run at once. *)
MCOneAgent == {"a"}
MCNoInputs == {}
=============================================================================
