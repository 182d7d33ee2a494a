---------------------------- MODULE MCClaimLedger ----------------------------
(***************************************************************************)
(* A small instance of ClaimLedger for TLC: two agents that share a file   *)
(* and hold another apiece in their partitions.                            *)
(***************************************************************************)
EXTENDS ClaimLedger

OwnsOf == [scout |-> {"shared", "mine"}, fixer |-> {"shared"}]
ScoutAmended == {{}, {"scout"}}
=============================================================================
