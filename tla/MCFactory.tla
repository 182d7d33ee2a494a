------------------------------ MODULE MCFactory ------------------------------
(***************************************************************************)
(* A small instance of Factory for TLC: one factory of two waves.          *)
(***************************************************************************)
EXTENDS Factory, TLC

TwoWaves == {<<"build", "polish">>}
Interchangeable == Permutations(Runners) \cup Permutations(Handlers)
=============================================================================
