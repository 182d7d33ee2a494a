----------------------------- MODULE MCChildren -----------------------------
(***************************************************************************)
(* A small instance of Children for TLC: a mission with a command-line     *)
(* worker and a gate of a command and a probe, which is interrupted while  *)
(* the server may stop at any time.                                        *)
(***************************************************************************)
EXTENDS Children

CONSTANTS first, agent, helper, command, probe

Owners == [c \in Calls |-> first]
InOrder == [c \in Checks |-> IF c = probe THEN Checks \ {probe} ELSE {}]
=============================================================================
