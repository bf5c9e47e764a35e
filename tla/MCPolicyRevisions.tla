-------------------------- MODULE MCPolicyRevisions --------------------------
(***************************************************************************)
(* Instances of PolicyRevisions for TLC: documents, operators and Node     *)
(* processes are interchangeable.                                          *)
(***************************************************************************)
EXTENDS PolicyRevisions, TLC

Symmetry == Permutations(Doc) \cup Permutations(Operator) \cup Permutations(Instance)

=============================================================================
