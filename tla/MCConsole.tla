------------------------------ MODULE MCConsole ------------------------------
(***************************************************************************)
(* Small instances of Console for TLC.                                     *)
(***************************************************************************)
EXTENDS Console, TLC

AllRequests == {"launch", "delete", "resume", "replay", "wave"}
Interchangeable == Permutations(Handlers)
=============================================================================
