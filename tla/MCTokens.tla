------------------------------ MODULE MCTokens ------------------------------
(***************************************************************************)
(* The tokens of the instances of PolicyTest: some of every form,          *)
(* addresses of three bits, and directories of groups that contain each    *)
(* other and themselves, and of aliases of every kind.                     *)
(***************************************************************************)
EXTENDS PolicyEval, TLC

Forms ==
  [t \in {"*", "group:a", "group:b", "tag:t", "autogroup:internet", "autogroup:member",
          "autogroup:tagged", "autogroup:self", "tag:u",
          "alice@", "Alice@", "bob@", "alice", "web", "db", "0/0", "4/1", "5/3", "2/3", "fd::", "fe::",
          "tag:t:22"} |->
     CASE t = "*" -> "wildcard"
       [] t \in {"group:a", "group:b"} -> "group"
       [] t \in {"tag:t", "tag:u", "tag:t:22"} -> "tag"
       [] t \in {"autogroup:internet", "autogroup:member", "autogroup:tagged", "autogroup:self"} -> "autogroup"
       [] t \in {"alice@", "Alice@", "bob@"} -> "user"
       [] t \in {"0/0", "4/1", "5/3", "2/3"} -> "cidr"
       [] t \in {"fd::", "fe::"} -> "v6"
       [] OTHER -> "word"]
Lowered == [t \in {"alice@", "Alice@", "bob@"} |-> IF t = "bob@" THEN t ELSE "alice@"]
Bares == [t \in {"alice@", "Alice@", "bob@", "alice", "web", "db"} |->
            CASE t = "bob@" -> "bob" [] t \in {"web", "db"} -> t [] OTHER -> "alice"]
Nets == [t \in {"0/0", "4/1", "5/3", "2/3"} |->
           CASE t = "0/0" -> [addr |-> <<0, 1, 1>>, bits |-> 0]
             [] t = "4/1" -> [addr |-> <<1, 0, 0>>, bits |-> 1]
             [] t = "5/3" -> [addr |-> <<1, 0, 1>>, bits |-> 3]
             [] t = "2/3" -> [addr |-> <<0, 1, 0>>, bits |-> 3]]
WithSuffix == [t \in {"tag:t"} |-> "tag:t:22"]

Vocabulary == {"group:a", "group:b", "tag:t", "autogroup:internet", "autogroup:member",
               "alice@", "Alice@", "web", "4/1", "5/3", "2/3", "0/0", "fd::", "fe::", "*"}

\* Groups that contain each other and themselves, and aliases of every kind.
Directories ==
  {("groups" :> g) @@ ("hosts" :> h) :
     g \in {[n \in {"group:a", "group:b"} |->
               IF n = "group:a" THEN <<"group:b", m>> ELSE <<"group:a", "Alice@">>]
              : m \in {"tag:t", "autogroup:member", "5/3", "group:a"}},
     h \in {[n \in {"web", "db"} |-> IF n = "web" THEN c ELSE "2/3"]
              : c \in {"4/1", "db", Nameless}}}
=============================================================================
