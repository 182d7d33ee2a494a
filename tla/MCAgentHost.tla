----------------------------- MODULE MCAgentHost -----------------------------
(***************************************************************************)
(* Small instances of AgentHost for TLC.                                   *)
(***************************************************************************)
EXTENDS AgentHost

TwoAgents == <<"scout", "fixer">>
ThreeAgents == <<"scout", "fixer", "critic">>
Unedited == {{}}
AnyEdit == SUBSET {"scout", "fixer"}
OneEdit == {{}, {"fixer"}}
=============================================================================
