---------------------------- MODULE MCPolicyTest ----------------------------
(***************************************************************************)
(* Instances of PolicyTest for TLC.  Sessions are of two kinds: in one the *)
(* operator edits, loads and saves a few documents; in the others a policy *)
(* of many is linted and put to the questions of the Test tab, and little  *)
(* is edited.                                                              *)
(***************************************************************************)
EXTENDS PolicyTest, MCTokens

-----------------------------------------------------------------------------
(* Policies to ask *)

To(host) == [host |-> host, ports |-> Null]
At(host, port) == [host |-> host, ports |-> {{port}}]
Acl(action, src, dst) == [action |-> <<action>>, src |-> src, dst |-> dst]
Grant(src, dst, ip) == [src |-> src, dst |-> dst, ip |-> ip]
Question(src, dst, port, protocol) ==
  [src |-> src, dst |-> dst, port |-> port, protocol |-> protocol]

\* Sessions that edit nothing.
ReadOnly ==
  [typed |-> {}, stored |-> {}, others |-> {}, names |-> << >>, values |-> << >>,
   fields |-> << >>, exitNodes |-> {}, maxRows |-> 0, maxLive |-> 1,
   capabilities |-> {}, maxCapabilities |-> 1, tokens |-> << >>]

\* Every pair of tokens, under a directory: does the one reach the other?
Pairs ==
  {[documents |-> {TextOf(("acls" :> <<Acl("accept", <<s>>, <<To("2/3"), To(d)>>)>>) @@ directory)},
    questions |-> {Question(q, d, Null, Null) : q \in Vocabulary},
    known |-> {}] @@ ReadOnly
     : s \in Vocabulary \ {"*"}, d \in {"group:a", "web", "fd::"}, directory \in Directories}

\* Ports, protocols, actions, order and grants.
Rules ==
  {<<Acl(a, <<"alice@">>, <<At("tag:t", 22), e>>) @@ p>>
     : a \in {"accept", "drop"}, p \in {"proto" :> "any", "proto" :> "17"},
       e \in {To("web"), At("tag:t", 80), To("autogroup:member")}}
Grants ==
  {<<Grant(<<"autogroup:member", "alice@">>, <<d>>, ip)>>
     : d \in {To("tag:t"), At("tag:t", 22)},
       ip \in {<< >>, <<[proto |-> "tcp", ports |-> {{22}}]>>,
               <<[proto |-> "*", ports |-> {{80}}], [proto |-> "udp", ports |-> {AnyPorts}]>>}}
Ports ==
  {[documents |-> {TextOf(("acls" :> r) @@ ("grants" :> g))},
    questions |-> {Question("Alice@", "tag:t", port, protocol)
                     : port \in {Null, 22, 80}, protocol \in {Null, "6", "udp"}},
    known |-> {}] @@ ReadOnly
     : r \in Rules, g \in Grants}

-----------------------------------------------------------------------------
(* Policies to lint: a Taildrive grant between any tokens, and attributes. *)

Selectors == {"group:a", "group:b", "tag:t", "tag:u", "autogroup:member", "autogroup:tagged",
              "autogroup:self", "alice@", "Alice@", "bob@", "web", "4/1", "*"}
DriveGrant(src, dst) == [src |-> src, dst |-> dst, app |-> <<Drive>>]
Attribute(attr, target) == [target |-> target, attr |-> <<attr>>]

Lints ==
  {[documents |-> {TextOf(("groups" :> g)
                     @@ ("grants" :> <<DriveGrant(<<s, t>>, <<To(s), At("tag:t", 22)>>)>>)
                     @@ ("nodeAttrs" :> <<Attribute("drive:access", <<a, b>>),
                                          Attribute("drive:share", <<b>>)>>))
                     : s \in Selectors, a \in Selectors},
    questions |-> {}, known |-> {"alice"}] @@ ReadOnly
     : t \in {"tag:t", "bob@", "group:a"}, b \in {"tag:u", "group:b", "autogroup:tagged", "autogroup:member"},
       g \in {("group:a" :> <<"alice">>) @@ ("group:b" :> <<m>>) : m \in {"bob@", "autogroup:tagged"}}}

-----------------------------------------------------------------------------
(* Policies to edit *)

Plain == TextOf(("groups" :> ("group:a" :> <<"alice@">>))
           @@ ("acls" :> <<("proto" :> "udp") @@ Acl("accept", <<"group:a">>, <<To("tag:t")>>)>>)
           @@ ("randomize" :> TRUE))
Other == TextOf("hosts" :> ("web" :> "4/1"))

Editing(names, values, fields, exitNodes) ==
  [documents |-> {Plain}, typed |-> {Broken}, questions |-> {}, maxRows |-> 2, known |-> {"alice"},
   names |-> names, values |-> values, fields |-> fields, exitNodes |-> exitNodes] @@ ReadOnly

\* The builder against the raw editor, one section at a time; then the
\* builder against fetches, saves and other writers.
Edits ==
  {Editing("groups" :> {"group:a", Nameless}, "groups" :> {<<"Alice@">>}, << >>, {}),
   Editing(<< >>, << >>, "acls" :> ("src" :> {<<"*">>}), {}),
   [Editing(<< >>, << >>, << >>, {<<"tag:t">>}) EXCEPT
      !.documents = {Plain, Blank, Broken}, !.stored = {Other}, !.others = {Plain}, !.maxLive = 3]}

\* The fields of the builder against removed rows and revisions that arrive.
Granted(app) ==
  TextOf("grants" :> <<[src |-> <<"*">>, dst |-> <<To("*")>>, app |-> app],
                       [src |-> <<"alice@">>, dst |-> <<To("*")>>]>>)
Fielding ==
  {[Editing(<< >>, << >>, "grants" :> << >>, {}) EXCEPT
      !.documents = {Granted(<<"a">>)}, !.stored = {Granted(<<"b">>)}, !.typed = {},
      !.maxRows = 0, !.capabilities = {"a"}],
   [Editing(<< >>, << >>, "acls" :> << >>, {}) EXCEPT
      !.stored = {Other}, !.others = {Other}, !.typed = {}, !.maxRows = 0, !.maxLive = 2,
      !.tokens = "acls" :> ("src" :> {"group:a", "bob@"})]}

-----------------------------------------------------------------------------
(* Policies to walk *)

Walked == Vocabulary \cup {"db", "bob@", Nameless}

\* Groups that contain each other, one group twice, themselves or a group that
\* nobody declared, and blank entries.
Nested ==
  {("group:a" :> <<m, "group:b">>) @@ ("group:b" :> <<n, "group:a">>)
     : m \in {"tag:t", "5/3", "web", Nameless}, n \in {"Alice@", "autogroup:member", "web"}}
  \cup {("group:a" :> <<"group:b", m, "group:b">>) @@ ("group:b" :> <<"web", n>>)
     : m \in {"tag:t", "5/3", "*"}, n \in {"Alice@", "autogroup:internet"}}
  \cup {"group:a" :> <<"group:b", "Alice@", "group:a">>}

\* Aliases of an address, of another alias and of nothing.
Hosts == {("web" :> w) @@ ("db" :> "2/3") : w \in {"4/1", "db", Nameless}}

Walks == {("groups" :> g) @@ ("hosts" :> h) : g \in Nested, h \in Hosts}

-----------------------------------------------------------------------------
Sessions == Pairs \cup Ports \cup Lints \cup Edits \cup Fielding

\* UntouchedSurvive is asked of documents the builder writes as they are.
ASSUME SessionsAreNormal == NormalDocuments
=============================================================================
