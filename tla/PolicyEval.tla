----------------------------- MODULE PolicyEval -----------------------------
(***************************************************************************)
(* evaluateReachability (lib/policy/eval.ts, lib/policy/tokens.ts) as an   *)
(* operator, and what it should say, as a reference of its own.  Addresses *)
(* are their Width bits.  What a selector stands for is given by the       *)
(* tokens it leads to; SelectorWalk has the recursive calls that find them *)
(***************************************************************************)
EXTENDS PolicyTokens

CONSTANTS
  Width,      \* 32 in the code
  Net         \* "cidr" token -> [addr, bits] as written

Internet == "autogroup:internet"
AnyPorts == 0 .. 65535         \* the range a "*" stands for
Address == [1 .. Width -> {0, 1}]   \* the highest bit first

ASSUME EvalAssumption ==
  /\ Width \in Nat
  /\ Null \notin {"1", "6", "17"}
  /\ FormOf(Internet) = "autogroup"
  /\ \A t \in Token : FormOf(t) = "cidr" => Net[t].bits \in 0 .. Width /\ Net[t].addr \in Address

-----------------------------------------------------------------------------
(* tokens.ts *)

\* What is left of an address under its mask.  A mutant: a shift by the whole
\* width is no shift in this language, so a mask of no bits keeps them all.
Masked_Shifts(addr, bits) ==
  IF bits = 0 THEN addr ELSE [i \in 1 .. Width |-> IF i <= bits THEN addr[i] ELSE 0]
Masked(addr, bits) == [i \in 1 .. Width |-> IF i <= bits THEN addr[i] ELSE 0]

ParseIpv4Range(t) == [base |-> Masked(Net[t].addr, Net[t].bits), bits |-> Net[t].bits]

Ipv4RangesOverlap(a, b) ==
  LET bits == IF a.bits <= b.bits THEN a.bits ELSE b.bits
  IN Masked(a.base, bits) = Masked(b.base, bits)

\* A port spec is Null ("any port"), or the set of its ranges.
PortMatches(spec, port) ==
  port = Null \/ spec = Null \/ \E range \in spec : port \in range

-----------------------------------------------------------------------------
(* eval.ts: what a selector stands for *)

Nothing == [wildcard |-> FALSE, atoms |-> {}, nets |-> {}, notes |-> {}]
MergeAll(parts) ==
  [wildcard |-> \E x \in parts : x.wildcard, atoms |-> UNION {x.atoms : x \in parts},
   nets |-> UNION {x.nets : x \in parts}, notes |-> UNION {x.notes : x \in parts}]
Atom(kind, t) == [Nothing EXCEPT !.atoms = {<<kind, t>>}]
Caveat_Silent(t) == IF FormOf(t) = "v6" THEN {} ELSE {t}
Caveat(t) == {t}

\* What a token says by itself.
Leaf(t, aliases) ==
  LET kind == Classify(t, aliases)
  IN CASE kind = "wildcard" -> [Nothing EXCEPT !.wildcard = TRUE]
       [] kind \in {"group", "tag"} -> Atom("is", t)
       [] kind = "host" -> Nothing
       [] kind = "cidr" -> [Nothing EXCEPT !.nets = {ParseIpv4Range(t)}]
       [] kind = "v6" -> [Atom("lit", t) EXCEPT !.notes = Caveat(t)]
       [] kind = "autogroup" ->
            [(IF t = Internet THEN Atom("is", t) ELSE Nothing) EXCEPT !.notes = Caveat(t)]
       [] kind = "user" -> Atom("u", Lower[t])
       [] kind = "word" -> Atom("lit", t)

\* What expand goes on to from a token: a group's members, what an alias is for.
Onward(t, model) ==
  LET kind == Classify(t, Aliases(model))
      cidr == model.hosts[Declaration(model.hosts, t)].values
  IN CASE kind = "group" /\ Declaration(model.groups, t) # 0 ->
            model.groups[Declaration(model.groups, t)].values
       [] kind = "host" /\ cidr # Nameless -> <<cidr>>
       [] OTHER -> << >>

Links(model) ==
  [t \in Names(model.groups) \cup Aliases(model) |-> Entries(Onward(t, model))]

\* A token and all it leads to: next gives names their tokens, and the names
\* met are in every set of names with the token's own that is closed under next.
Reach(t, next) ==
  LET names == DOMAIN next
      closed == {S \in SUBSET names : \A u \in S : next[u] \cap names \subseteq S}
      met == {u \in names : \A S \in closed : t \in S \/ t \notin names => u \in S}
  IN {t} \cup UNION {next[u] : u \in met}

Meaning(t, model) ==
  MergeAll({Leaf(u, Aliases(model)) : u \in Reach(t, Links(model)) \ {Nameless}})

Covers(query, entry) ==
  \/ query.wildcard \/ entry.wildcard
  \/ query.atoms \cap entry.atoms # {}
  \/ \E a \in query.nets, b \in entry.nets : Ipv4RangesOverlap(a, b)

-----------------------------------------------------------------------------
(* eval.ts: the verdict *)

\* PROTO_ALIASES, and the words for any protocol at all; capitals and blanks
\* around a protocol are left out.
ProtoAliases == [tcp |-> "6", udp |-> "17", icmp |-> "1"]
NormalizeProto(value) ==
  IF value \in {Null, Nameless, "any", "*"} THEN Null
  ELSE IF value \in DOMAIN ProtoAliases THEN ProtoAliases[value] ELSE value

Protocol(row) == Get(row.raw, "proto", Null)
ProtoOk(protocol, wanted) ==
  LET p == NormalizeProto(protocol)
      w == NormalizeProto(wanted)
  IN p = Null \/ w = Null \/ p = w
IpEntryAllows(ip, query) == PortMatches(ip.ports, query.port) /\ ProtoOk(ip.proto, query.protocol)

\* The places of a list that are read when reading stops at the first hit.
Upto(list, hits) == {k \in DOMAIN list : \A hit \in hits : k <= hit}

\* One rule or grant: whether it admits, and the caveats met while reading it.
Try(rule, model, query, isGrant) ==
  LET source == Meaning(query.src, model)
      target == Meaning(query.dst, model)
      src == rule.known.src
      dst == rule.known.dst
      host(e) == IF isGrant THEN Whole(e) ELSE e.host
      srcHits == {k \in DOMAIN src : Covers(source, Meaning(src[k], model))}
      dstHits == {k \in DOMAIN dst : /\ Covers(target, Meaning(host(dst[k]), model))
                                     /\ isGrant \/ PortMatches(dst[k].ports, query.port)}
      goesOn == srcHits # {} /\ (isGrant \/ ProtoOk(Protocol(rule), query.protocol))
      admits == \/ ~isGrant
                \/ \E k \in DOMAIN rule.known.ip : IpEntryAllows(rule.known.ip[k], query)
      read == {src[k] : k \in Upto(src, srcHits)}
                \cup IF goesOn THEN {host(dst[k]) : k \in Upto(dst, dstHits)} ELSE {}
  IN IF ~isGrant /\ rule.known.action # <<"accept">> THEN [allows |-> FALSE, notes |-> {}]
     ELSE [allows |-> goesOn /\ dstHits # {} /\ admits,
           notes |-> UNION {Meaning(t, model).notes : t \in read}]

\* The rules in order, then the grants, to the first that admits.
EvaluateReachability(model, query) ==
  LET acls == [i \in DOMAIN model.acls |-> Try(model.acls[i], model, query, FALSE)]
      grants == [i \in DOMAIN model.grants |-> Try(model.grants[i], model, query, TRUE)]
      hits(tries) == {i \in DOMAIN tries : tries[i].allows}
      met(tries) == UNION {tries[i].notes : i \in Upto(tries, hits(tries))}
      asked == UNION {Meaning(t, model).notes : t \in {query.src, query.dst}}
  IN IF Nameless \in {query.src, query.dst} THEN [decision |-> "deny", notes |-> {Nameless}]
     ELSE [decision |-> IF hits(acls) \cup hits(grants) = {} THEN "deny" ELSE "allow",
           notes |-> asked \cup met(acls) \cup IF hits(acls) = {} THEN met(grants) ELSE {}]

-----------------------------------------------------------------------------
(* The reference: what a document says, without an order of reading. *)

AliasesOf(document) ==
  {h \in DOMAIN Get(document, "hosts", NoObject) \ {Nameless} :
     FormOf(h) \notin {"wildcard", "group", "tag", "autogroup"}}
GroupsOf(document) ==
  {g \in DOMAIN Get(document, "groups", NoObject) \ {Nameless} : FormOf(g) = "group"}

\* What its groups and aliases are for.
LinksOf(document) ==
  [t \in GroupsOf(document) \cup AliasesOf(document) |->
     IF t \in GroupsOf(document) THEN Entries(document.groups[t])
     ELSE {document.hosts[t]} \ {Nameless}]

\* Everything a token stands for, through groups and aliases.
Closure(document, t) == Reach(t, LinksOf(document)) \ (AliasesOf(document) \cup {Nameless})

Within(address, t) == \A i \in 1 .. Net[t].bits : address[i] = Net[t].addr[i]

Same(a, b) ==
  \/ a = b /\ (FormOf(a) = "autogroup" => a = Internet)
  \/ FormOf(a) = "user" /\ FormOf(b) = "user" /\ Lower[a] = Lower[b]
  \/ /\ FormOf(a) = "cidr" /\ FormOf(b) = "cidr"
     /\ \E address \in Address : Within(address, a) /\ Within(address, b)

\* What two tokens could have in common as far as the evaluator can tell.
Opaque(a, b) ==
  \/ FormOf(a) = "autogroup" /\ a # Internet
  \/ a = Internet /\ FormOf(b) = "cidr"
  \/ FormOf(a) = "v6" /\ FormOf(b) = "v6"

Meet(document, t, u, loosely) ==
  LET ts == Closure(document, t)
      us == Closure(document, u)
  IN \/ \E a \in ts \cup us : FormOf(a) = "wildcard"
     \/ \E a \in ts, b \in us : \/ Same(a, b)
                                \/ loosely /\ (Opaque(a, b) \/ Opaque(b, a))

Some(rule, f) == Entries(Get(rule, f, << >>))

\* A protocol is written by its name or by its number, or is any.
Spellings == {{"tcp", "6"}, {"udp", "17"}, {"icmp", "1"}}
AnyProtocol == {Null, Nameless, "any", "*"}
SameProtocol(p, q) ==
  {p, q} \cap AnyProtocol # {} \/ p = q \/ \E S \in Spellings : {p, q} \subseteq S

Open(ports, port) == Null \in {ports, port} \/ port \in UNION ports

AclAllows(document, acl, query, loosely) ==
  /\ Get(acl, "action", <<"accept">>) = <<"accept">>
  /\ SameProtocol(Get(acl, "proto", Null), query.protocol)
  /\ \E s \in Some(acl, "src") : Meet(document, query.src, s, loosely)
  /\ \E d \in Some(acl, "dst") : /\ Meet(document, query.dst, d.host, loosely)
                                 /\ Open(d.ports, query.port)

GrantAllows(document, grant, query, loosely) ==
  /\ \E s \in Some(grant, "src") : Meet(document, query.src, s, loosely)
  /\ \E d \in Some(grant, "dst") : Meet(document, query.dst, Whole(d), loosely)
  /\ \E p \in Some(grant, "ip") : Open(p.ports, query.port) /\ SameProtocol(p.proto, query.protocol)

Allows(document, query, loosely) ==
  /\ Nameless \notin {query.src, query.dst}
  /\ \/ \E a \in Some(document, "acls") : AclAllows(document, a, query, loosely)
     \/ \E g \in Some(document, "grants") : GrantAllows(document, g, query, loosely)
=============================================================================
