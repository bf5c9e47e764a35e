------------------------------ MODULE MCRoutes ------------------------------
(***************************************************************************)
(* Instances of Routes for TLC: operators, nodes and routes of a kind are  *)
(* interchangeable.                                                        *)
(***************************************************************************)
EXTENDS Routes, TLC

Symmetry == Permutations(Operator) \cup Permutations(Node)
              \cup Permutations(Subnet) \cup Permutations(Default)
=============================================================================
