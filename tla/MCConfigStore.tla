---------------------------- MODULE MCConfigStore ----------------------------
(***************************************************************************)
(* Instances of ConfigStore for TLC: operators and processes are           *)
(* interchangeable, and the pages of the connection and of the agent are   *)
(* not mixed, as their sections share no row.                              *)
(***************************************************************************)
EXTENDS ConfigStore, TLC

Symmetry == Permutations(Operator) \cup Permutations(Instance)

Settings ==
  {[pages |-> {"setup", "connection", "clearOidc"}, rows |-> {"url", "key"}],
   [pages |-> {"agent", "toggle", "clearOidc"}, rows |-> {"issuer", "agentUrl", "agentSecret"}]}

WizardOnly == {[pages |-> {"setup", "clearOidc"}, rows |-> {}]}
=============================================================================
