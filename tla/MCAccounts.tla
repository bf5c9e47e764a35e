----------------------------- MODULE MCAccounts -----------------------------
(***************************************************************************)
(* Instances of Accounts for TLC.  The ids, subjects, browsers and Node    *)
(* processes are interchangeable, so safety runs use their symmetry.       *)
(***************************************************************************)
EXTENDS Accounts, TLC

Symmetry == Permutations(Account) \cup Permutations(Session) \cup
            Permutations(Subject) \cup Permutations(Browser) \cup Permutations(Instance)
=============================================================================
