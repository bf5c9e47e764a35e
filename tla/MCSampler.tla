------------------------------ MODULE MCSampler ------------------------------
(***************************************************************************)
(* Instances of Sampler for TLC: job slots and processes are               *)
(* interchangeable where no liveness is checked.                           *)
(***************************************************************************)
EXTENDS Sampler, TLC

Symmetry == Permutations(Job) \cup Permutations(Instance)
=============================================================================
