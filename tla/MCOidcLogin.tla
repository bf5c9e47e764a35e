---------------------------- MODULE MCOidcLogin -----------------------------
(* OidcLogin for TLC: the names of tabs, rows, clients and secrets *)
(* are interchangeable.                                                    *)
EXTENDS OidcLogin, TLC

Symmetry == Permutations(Id) \cup Permutations(Tab)
              \cup Permutations(Master)
=============================================================================
