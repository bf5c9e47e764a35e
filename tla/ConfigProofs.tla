---------------------------- MODULE ConfigProofs ----------------------------
(***************************************************************************)
(* Theorems about ConfigStore for any addresses, secrets and environments, *)
(* any number of operators and a single Node process: what is saved is     *)
(* what is read, one save's URL never meets another's key, and the agent   *)
(* stays as it was switched.                                               *)
(***************************************************************************)
EXTENDS ConfigStore, SequenceTheorems, TLAPS

-----------------------------------------------------------------------------
(* Types                                                                   *)

AnyText == Url \cup Key \cup Provider \cup BOOLEAN
SecretRow == {"key", "secret", "agentSecret"}
OidcRow == {"issuer", "client", "secret"}
HeadscaleRow == {"url", "key", "login"}
AgentRow == {"agentUrl", "agentSecret", "agentOn"}
HeadscaleOp == {"setup", "connection"}
AgentOp == {"agent", "toggle"}
Op == HeadscaleOp \cup AgentOp \cup {"clearOidc"}

Under(row) == IF row \in SecretRow THEN Master \cup {None} ELSE {None}

Stored == [text : AnyText, under : Master \cup {None}]
Statement == [row : Row, text : AnyText \cup {None}, under : Master \cup {None}] \cup {Throw}

\* A statement on a row stores what the row holds, or deletes it.
Fits(w) == w.text = None \/ (w.text \in Text(w.row) /\ w.under \in Under(w.row))

Triple == {<<p, p, p>> : p \in Provider \cup {Bad}} \cup (Provider \X Provider \X Provider)
WantHeadscale == [url : Url \cup {Bad}, key : Key, login : Url \cup {Bad},
                  oidc : Triple \cup {None}]
WantAgent == [url : Url \cup {Bad}, secret : Key \cup {None}, on : BOOLEAN]
WantOidc == [oidc : Triple \cup {None}]

Want(op) == IF op \in HeadscaleOp THEN WantHeadscale
            ELSE IF op \in AgentOp THEN WantAgent ELSE WantOidc

Request == [pc : {"write"}, at : Instance, op : Op, todo : Seq(Statement),
            want : WantHeadscale \cup WantAgent \cup WantOidc, wrote : BOOLEAN]

Writing(r) == req[r].pc = "write"

TypeOK ==
  /\ store \in [Row -> Stored \cup {None}]
  /\ \A row \in Row : store[row] # None =>
       store[row].text \in Text(row) /\ store[row].under \in Under(row)
  /\ setting \in Setting
  /\ env \in Environments /\ master \in Master \cup {None}
  /\ req \in [Operator -> Request \cup {Idle}]
  /\ \A r \in Operator : Writing(r) => req[r].want \in Want(req[r].op)
  /\ torn \subseteq {"headscale", "oidc", "agent"}
  /\ given \in ((Url \cup {Bad}) \X Key) \cup {None}
  /\ choice \in BOOLEAN \cup {None}

-----------------------------------------------------------------------------
(* The inductive invariant: what a save under way still has to write, and  *)
(* what it has written.                                                    *)

Pending(s) == {s[k].row : k \in 1 .. Len(s)}

\* What a row is to read as, given what the save is to have read afterwards.
Meets(want, row, x) ==
  CASE row \in {"url", "agentUrl"} -> x = want.url
    [] row = "key" -> x = want.key
    [] row = "login" -> (IF x \in {None, Bad} THEN want.url ELSE x) = want.login
    [] row = "issuer" -> x = IF want.oidc = None THEN None ELSE want.oidc[1]
    [] row = "client" -> x = IF want.oidc = None THEN None ELSE want.oidc[2]
    [] row = "secret" -> x = IF want.oidc = None THEN None ELSE want.oidc[3]
    [] row = "agentSecret" -> x = want.secret
    [] row = "agentOn" -> x = want.on

Goals(op) ==
  CASE op = "setup" -> HeadscaleRow \cup OidcRow
    [] op = "connection" -> HeadscaleRow
    [] op \in AgentOp -> AgentRow
    [] op = "clearOidc" -> OidcRow

\* A statement is on a row of the save and gives it what is wanted; only the
\* login-server URL, the provider and the agent's secret are ever cleared.
Apt(op, want, w) ==
  w.row # "throw" =>
    /\ w.row \in Goals(op) /\ Fits(w)
    /\ w.text # None => w.under \in {None, master}
    /\ w.row \in {"url", "key", "agentOn"} => w.text # None
    /\ Meets(want, w.row, IF w.text = None THEN env[w.row] ELSE w.text)

Delivers(op, want, s) == \A k \in 1 .. Len(s) : Apt(op, want, s[k])

\* The URL is written first and the key right after it.
Ordered(s) ==
  \A j, k \in 1 .. Len(s) : j < k =>
    s[k].row # "url" /\ (s[k].row = "key" => s[j].row = "url")

Covered(op, want, s) ==
  \A row \in Goals(op) : row \in Pending(s) \/ "throw" \in Pending(s) \/ Meets(want, row, Read(row))

\* An input whose URL fails is refused before anything is written.
RefusedFirst(q) ==
  q.op # "clearOidc" /\ q.want.url = Bad =>
    ~q.wrote /\ q.todo # <<>> /\ Head(q.todo) = Throw

PairWritten(q) ==
  q.op \in HeadscaleOp /\ q.want.url # Bad =>
    /\ "url" \in Pending(q.todo) => ~q.wrote /\ "key" \in Pending(q.todo)
    /\ "url" \notin Pending(q.todo) => store["url"] = [text |-> q.want.url, under |-> None]
    /\ "key" \notin Pending(q.todo) =>
         /\ "url" \notin Pending(q.todo)
         /\ store["key"] # None /\ store["key"].text = q.want.key
         /\ given = <<q.want.url, q.want.key>>

Underway(q) ==
  /\ Delivers(q.op, q.want, q.todo)
  /\ Ordered(q.todo)
  /\ Covered(q.op, q.want, q.todo)
  /\ q.op = "connection" => q.want.oidc = Oidc
  /\ q.op \in AgentOp => ("throw" \in Pending(q.todo) => q.want.url = Bad)
  /\ RefusedFirst(q)
  /\ PairWritten(q)

OneWriter == \A r, s \in Operator : Writing(r) /\ Writing(s) => r = s

\* Between two saves the stored URL and key are one save's, or neither is stored.
Settled ==
  \/ store["url"] = None /\ store["key"] = None
  \/ /\ store["url"] # None /\ store["key"] # None
     /\ given = <<store["url"].text, store["key"].text>>

HeadscaleHolds ==
  \/ "headscale" \in torn \/ Settled
  \/ \E r \in Operator : /\ Writing(r) /\ req[r].op \in HeadscaleOp
                         /\ req[r].wrote /\ "key" \in Pending(req[r].todo)

SwitchHolds ==
  \/ "agent" \in torn \/ choice = None
  \/ store["agentOn"] = [text |-> choice, under |-> None]
  \/ \E r \in Operator : Writing(r) /\ req[r].op \in AgentOp /\ req[r].wrote

Invariant ==
  /\ OneWriter
  /\ \A r \in Operator : Writing(r) => Underway(req[r])
  /\ HeadscaleHolds
  /\ SwitchHolds

-----------------------------------------------------------------------------
(* Values                                                                  *)

LEMMA SameEnvironments == ASSUME UNCHANGED setting PROVE Environments' = Environments
  BY DEF Environments, EnvOf

LEMMA NoneIsNoRow ==
  ASSUME NEW text \in AnyText, NEW under \in Master \cup {None}
  PROVE  [text |-> text, under |-> under] # None
<1>1. [text |-> text, under |-> under] \in Stored /\ None \notin Stored
  BY ConfigAssumption DEF Stored, AnyText
<1> QED
  BY <1>1

LEMMA NoneIsNoConnection ==
  ASSUME NEW url \in Url, NEW key \in Key, NEW login \in Url
  PROVE  [url |-> url, key |-> key, login |-> login] # None
<1>1. [url |-> url, key |-> key, login |-> login] \in [url : Url, key : Key, login : Url]
  OBVIOUS
<1>2. None \notin [url : Url, key : Key, login : Url]
  BY ConfigAssumption
<1> QED
  BY <1>1, <1>2

LEMMA NoneIsNoProvider ==
  ASSUME NEW p \in Provider, NEW q \in Provider, NEW r \in Provider
  PROVE  <<p, q, r>> # None
<1>1. <<p, q, r>> \in Provider \X Provider \X Provider
  OBVIOUS
<1>2. None \notin Provider \X Provider \X Provider
  BY ConfigAssumption
<1> QED
  BY <1>1, <1>2

LEMMA EnvValues ==
  ASSUME setting \in Setting, NEW e \in Environments
  PROVE  /\ e["url"] \in Url \cup {Bad, None} /\ e["agentUrl"] \in Url \cup {Bad, None}
         /\ e["key"] \in Key \cup {None} /\ e["agentSecret"] \in Key \cup {None}
         /\ e["issuer"] \in Provider \cup {None}
         /\ e["client"] = e["issuer"] /\ e["secret"] = e["issuer"]
         /\ e["login"] = None /\ e["agentOn"] = None
<1>1. EnvOf("url") \subseteq Url \cup {Bad, None} /\ EnvOf("agentUrl") \subseteq Url \cup {Bad, None}
  BY DEF EnvOf, Text
<1>2. EnvOf("key") \subseteq Key \cup {None} /\ EnvOf("agentSecret") \subseteq Key \cup {None}
  BY DEF EnvOf, Text
<1>3. EnvOf("issuer") \subseteq Provider \cup {None}
  BY DEF EnvOf, Text
<1>4. PICK p \in EnvOf("issuer"), u \in EnvOf("url"), k \in EnvOf("key"),
           a \in EnvOf("agentUrl"), x \in EnvOf("agentSecret") :
        e = [row \in Row |-> CASE row \in {"issuer", "client", "secret"} -> p
                               [] row = "url" -> u [] row = "key" -> k
                               [] row = "agentUrl" -> a [] row = "agentSecret" -> x
                               [] OTHER -> None]
  BY DEF Environments
<1>5. /\ e["url"] = u /\ e["agentUrl"] = a /\ e["key"] = k /\ e["agentSecret"] = x
      /\ e["issuer"] = p /\ e["client"] = p /\ e["secret"] = p
      /\ e["login"] = None /\ e["agentOn"] = None
  BY <1>4 DEF Row
<1> QED
  BY <1>1, <1>2, <1>3, <1>5

\* What getConfig can find in each row.
LEMMA ReadValues ==
  ASSUME TypeOK
  PROVE  /\ Read("url") \in Url \cup {Bad, None} /\ Read("agentUrl") \in Url \cup {Bad, None}
         /\ Read("login") \in Url \cup {None}
         /\ Read("key") \in Key \cup {None} /\ Read("agentSecret") \in Key \cup {None}
         /\ Read("issuer") \in Provider \cup {None} /\ Read("client") \in Provider \cup {None}
         /\ Read("secret") \in Provider \cup {None}
         /\ Read("agentOn") \in BOOLEAN \cup {None}
<1>1. \A row \in Row : Read(row) \in Text(row) \cup {None, env[row]}
  BY DEF TypeOK, Read
<1>2. /\ env["url"] \in Url \cup {Bad, None} /\ env["agentUrl"] \in Url \cup {Bad, None}
      /\ env["key"] \in Key \cup {None} /\ env["agentSecret"] \in Key \cup {None}
      /\ env["issuer"] \in Provider \cup {None}
      /\ env["client"] = env["issuer"] /\ env["secret"] = env["issuer"]
      /\ env["login"] = None /\ env["agentOn"] = None
  BY EnvValues DEF TypeOK
<1> QED
  BY <1>1, <1>2 DEF Row, Text

-----------------------------------------------------------------------------
(* Sequences of statements                                                 *)

LEMMA PendingTail ==
  ASSUME NEW s \in Seq(Statement), s # <<>>
  PROVE  Pending(s) = {Head(s).row} \cup Pending(Tail(s))
<1>1. /\ Len(s) \in Nat \ {0} /\ Len(Tail(s)) = Len(s) - 1 /\ Head(s) = s[1]
      /\ \A k \in 1 .. Len(Tail(s)) : Tail(s)[k] = s[k + 1]
  BY HeadTailProperties, EmptySeq
<1>2. \A k \in 1 .. Len(s) : k = 1 \/ (k - 1 \in 1 .. Len(Tail(s)) /\ s[k] = Tail(s)[k - 1])
  BY <1>1
<1>3. \A k \in 1 .. Len(Tail(s)) : k + 1 \in 1 .. Len(s)
  BY <1>1
<1>4. 1 \in 1 .. Len(s)
  BY <1>1
<1>5. Pending(s) \subseteq {Head(s).row} \cup Pending(Tail(s))
  BY <1>1, <1>2 DEF Pending
<1>6. {Head(s).row} \cup Pending(Tail(s)) \subseteq Pending(s)
  BY <1>1, <1>3, <1>4 DEF Pending
<1> QED
  BY <1>5, <1>6

LEMMA TailKeeps ==
  ASSUME NEW s \in Seq(Statement), s # <<>>, NEW op, NEW want, Delivers(op, want, s), Ordered(s)
  PROVE  /\ Tail(s) \in Seq(Statement)
         /\ Delivers(op, want, Tail(s)) /\ Ordered(Tail(s))
         /\ "url" \notin Pending(Tail(s))
         /\ Head(s).row # "url" => "key" \notin Pending(Tail(s))
<1>1. /\ Len(s) \in Nat \ {0} /\ Len(Tail(s)) = Len(s) - 1 /\ Head(s) = s[1]
      /\ Tail(s) \in Seq(Statement)
      /\ \A k \in 1 .. Len(Tail(s)) : Tail(s)[k] = s[k + 1]
  BY HeadTailProperties, EmptySeq
<1>2. \A k \in 1 .. Len(Tail(s)) : k + 1 \in 1 .. Len(s) /\ 1 \in 1 .. Len(s) /\ 1 < k + 1
  BY <1>1
<1>3. Delivers(op, want, Tail(s))
  BY <1>1, <1>2 DEF Delivers
<1>4. Ordered(Tail(s))
  BY <1>1, <1>2 DEF Ordered
<1>5. \A k \in 1 .. Len(Tail(s)) :
        Tail(s)[k].row # "url" /\ (Tail(s)[k].row = "key" => Head(s).row = "url")
  BY <1>1, <1>2 DEF Ordered
<1>6. "url" \notin Pending(Tail(s)) /\ ("key" \in Pending(Tail(s)) => Head(s).row = "url")
  BY <1>5 DEF Pending
<1> QED
  BY <1>1, <1>3, <1>4, <1>6

LEMMA PendingConcat ==
  ASSUME NEW s \in Seq(Statement), NEW t \in Seq(Statement)
  PROVE  Pending(s \o t) = Pending(s) \cup Pending(t)
<1>1. /\ Len(s) \in Nat /\ Len(t) \in Nat /\ Len(s \o t) = Len(s) + Len(t)
      /\ \A i \in 1 .. Len(s) + Len(t) :
           (s \o t)[i] = IF i <= Len(s) THEN s[i] ELSE t[i - Len(s)]
  BY ConcatProperties, LenProperties
<1>2. \A i \in 1 .. Len(s) : i \in 1 .. Len(s \o t) /\ (s \o t)[i] = s[i]
  BY <1>1
<1>3. \A i \in 1 .. Len(t) : i + Len(s) \in 1 .. Len(s \o t) /\ (s \o t)[i + Len(s)] = t[i]
  BY <1>1
<1>4. \A i \in 1 .. Len(s \o t) :
        \/ i \in 1 .. Len(s) /\ (s \o t)[i] = s[i]
        \/ i - Len(s) \in 1 .. Len(t) /\ (s \o t)[i] = t[i - Len(s)]
  BY <1>1
<1>5. Pending(s) \cup Pending(t) \subseteq Pending(s \o t)
  BY <1>2, <1>3 DEF Pending
<1>6. Pending(s \o t) \subseteq Pending(s) \cup Pending(t)
  BY <1>4 DEF Pending
<1> QED
  BY <1>5, <1>6

LEMMA HeadConcat ==
  ASSUME NEW s \in Seq(Statement), NEW t \in Seq(Statement), s # <<>>
  PROVE  s \o t # <<>> /\ Head(s \o t) = Head(s)
<1>1. /\ Len(s) \in Nat \ {0} /\ Len(t) \in Nat /\ Len(s \o t) = Len(s) + Len(t)
      /\ s \o t \in Seq(Statement) /\ (s \o t)[1] = s[1]
  BY ConcatProperties, LenProperties, EmptySeq
<1> QED
  BY <1>1

LEMMA DeliversConcat ==
  ASSUME NEW s \in Seq(Statement), NEW t \in Seq(Statement), NEW op, NEW want,
         Delivers(op, want, s), Delivers(op, want, t)
  PROVE  Delivers(op, want, s \o t)
<1>1. /\ Len(s) \in Nat /\ Len(t) \in Nat /\ Len(s \o t) = Len(s) + Len(t)
      /\ \A i \in 1 .. Len(s) + Len(t) :
           (s \o t)[i] = IF i <= Len(s) THEN s[i] ELSE t[i - Len(s)]
  BY ConcatProperties, LenProperties
<1>2. \A i \in 1 .. Len(s \o t) :
        \/ i \in 1 .. Len(s) /\ (s \o t)[i] = s[i]
        \/ i - Len(s) \in 1 .. Len(t) /\ (s \o t)[i] = t[i - Len(s)]
  BY <1>1
<1> QED
  BY <1>2 DEF Delivers

LEMMA OrderedConcat ==
  ASSUME NEW s \in Seq(Statement), NEW t \in Seq(Statement), Ordered(s),
         "url" \notin Pending(t), "key" \notin Pending(t)
  PROVE  Ordered(s \o t)
<1>1. /\ Len(s) \in Nat /\ Len(t) \in Nat /\ Len(s \o t) = Len(s) + Len(t)
      /\ \A i \in 1 .. Len(s) + Len(t) :
           (s \o t)[i] = IF i <= Len(s) THEN s[i] ELSE t[i - Len(s)]
  BY ConcatProperties, LenProperties
<1>2. \A i \in 1 .. Len(t) : t[i].row # "url" /\ t[i].row # "key"
  BY DEF Pending
<1> QED
  BY <1>1, <1>2 DEF Ordered

LEMMA Concatenation ==
  ASSUME NEW s \in Seq(Statement), NEW t \in Seq(Statement), NEW op, NEW want,
         Delivers(op, want, s), Delivers(op, want, t), Ordered(s),
         "url" \notin Pending(t), "key" \notin Pending(t)
  PROVE  /\ s \o t \in Seq(Statement) /\ Pending(s \o t) = Pending(s) \cup Pending(t)
         /\ Delivers(op, want, s \o t) /\ Ordered(s \o t)
  BY PendingConcat, DeliversConcat, OrderedConcat, ConcatProperties

-----------------------------------------------------------------------------
(* One statement                                                           *)

LEMMA WriterFacts ==
  ASSUME TypeOK, Invariant, NEW r \in Operator, req[r].todo # <<>> \/ Writing(r)
  PROVE  /\ Writing(r) /\ req[r] \in Request /\ req[r].want \in Want(req[r].op)
         /\ Underway(req[r])
         /\ \A s \in Operator \ {r} : ~Writing(s)
<1>1. req[r] \in Request /\ Writing(r)
  BY DEF TypeOK, Idle, Request, Writing
<1> QED
  BY <1>1 DEF TypeOK, Invariant, OneWriter

LEMMA WriteFacts ==
  ASSUME TypeOK, Invariant, NEW r \in Operator, Write(r)
  PROVE  LET q == req[r]  w == Head(req[r].todo)
         IN /\ q.todo # <<>> /\ w \in Statement /\ w.row \in Goals(q.op) /\ Fits(w)
            /\ Goals(q.op) \subseteq Row
            /\ Meets(q.want, w.row, IF w.text = None THEN env[w.row] ELSE w.text)
            /\ w.text # None => w.under \in {None, master}
            /\ w.row \in {"url", "key", "agentOn"} => w.text # None
            /\ req' = [req EXCEPT ![r] = [q EXCEPT !.todo = Tail(q.todo),
                                                   !.wrote = q.wrote \/ store' # store]]
            /\ store'[w.row] = IF w.text = None THEN None ELSE [text |-> w.text, under |-> w.under]
            /\ \A row \in Row \ {w.row} : store'[row] = store[row]
            /\ UNCHANGED <<env, master, setting, torn, choice>>
<1> DEFINE q == req[r]  w == Head(req[r].todo)
<1>1. q \in Request /\ Underway(q) /\ q.todo # <<>> /\ w # Throw
  BY WriterFacts DEF Write
<1>2. w \in Statement /\ w = q.todo[1] /\ 1 \in 1 .. Len(q.todo)
  BY <1>1, HeadTailProperties, EmptySeq DEF Request
<1>3. w.row # "throw"
  BY <1>1, <1>2 DEF Statement, Row
<1>4. /\ w.row \in Goals(q.op) /\ Fits(w)
      /\ w.text # None => w.under \in {None, master}
      /\ w.row \in {"url", "key", "agentOn"} => w.text # None
      /\ Meets(q.want, w.row, IF w.text = None THEN env[w.row] ELSE w.text)
  BY <1>1, <1>2, <1>3 DEF Underway, Delivers, Apt
<1>5. Goals(q.op) \subseteq Row
  BY <1>1 DEF Request, Op, Goals, HeadscaleOp, AgentOp, HeadscaleRow, OidcRow, AgentRow, Row
<1>6. /\ store'[w.row] = IF w.text = None THEN None ELSE [text |-> w.text, under |-> w.under]
      /\ \A row \in Row \ {w.row} : store'[row] = store[row]
  BY <1>4, <1>5 DEF Write, TypeOK
<1>7. req' = [req EXCEPT ![r] = [q EXCEPT !.todo = Tail(q.todo),
                                          !.wrote = q.wrote \/ store' # store]]
  BY <1>1 DEF Write, TypeOK, Request
<1> QED
  BY <1>1, <1>2, <1>4, <1>5, <1>6, <1>7 DEF Write

\* The row reads from now on as the statement has it, and no other row changes.
LEMMA WriteReads ==
  ASSUME TypeOK, Invariant, NEW r \in Operator, Write(r)
  PROVE  LET w == Head(req[r].todo)
         IN \A row \in Row :
              Read(row)' = IF row # w.row THEN Read(row)
                           ELSE IF w.text = None THEN env[row] ELSE w.text
<1> DEFINE w == Head(req[r].todo)
<1>1. /\ w \in Statement /\ Fits(w) /\ w.row \in Row
      /\ w.text # None => w.under \in {None, master}
      /\ store'[w.row] = IF w.text = None THEN None ELSE [text |-> w.text, under |-> w.under]
      /\ \A row \in Row \ {w.row} : store'[row] = store[row]
      /\ UNCHANGED <<env, master>>
  BY WriteFacts
<1>2. w.text # None => [text |-> w.text, under |-> w.under] # None
  BY <1>1, NoneIsNoRow DEF Statement, Throw
<1> HIDE DEF w
<1>4. \A row \in Row \ {w.row} : Read(row)' = Read(row)
  BY <1>1 DEF Read
<1>5. \A row \in Row : row = w.row => Read(row)' = IF w.text = None THEN env[row] ELSE w.text
  BY <1>1, <1>2 DEF Read
<1> QED
  BY <1>4, <1>5 DEF w

LEMMA WriteType ==
  ASSUME TypeOK, Invariant, NEW r \in Operator, Write(r)
  PROVE  TypeOK'
<1> DEFINE q == req[r]  w == Head(req[r].todo)
           n == [q EXCEPT !.todo = Tail(q.todo), !.wrote = q.wrote \/ store' # store]
<1>1. q \in Request /\ q.want \in Want(q.op) /\ q.todo # <<>> /\ w \in Statement
  BY WriterFacts, WriteFacts
<1>2. /\ w.row \in Goals(q.op) /\ w.row \in Row /\ Fits(w)
      /\ store'[w.row] = IF w.text = None THEN None ELSE [text |-> w.text, under |-> w.under]
      /\ \A row \in Row \ {w.row} : store'[row] = store[row]
      /\ req' = [req EXCEPT ![r] = n]
      /\ UNCHANGED <<env, master, setting, torn, choice>>
  BY WriteFacts
<1>3. store'[w.row] \in Stored \cup {None}
  BY <1>1, <1>2 DEF Statement, Stored, Throw
<1>4. store' \in [Row -> Stored \cup {None}]
  BY <1>2, <1>3 DEF Write, TypeOK
<1>5. \A row \in Row : store'[row] # None =>
        store'[row].text \in Text(row) /\ store'[row].under \in Under(row)
  BY <1>1, <1>2 DEF TypeOK, Fits
<1>6. Tail(q.todo) \in Seq(Statement)
  BY <1>1, HeadTailProperties DEF Request
<1>7. n \in Request /\ n.want = q.want /\ n.op = q.op
  BY <1>1, <1>6 DEF Request
<1>8. req' \in [Operator -> Request \cup {Idle}]
  BY <1>2, <1>7 DEF TypeOK
<1>9. \A s \in Operator : Writing(s)' => req'[s].want \in Want(req'[s].op)
  BY <1>1, <1>2, <1>7 DEF TypeOK, Writing
<1>10. given' \in ((Url \cup {Bad}) \X Key) \cup {None}
  <2>1. CASE w.row = "key"
    <3>1. q.op \in HeadscaleOp
      BY <1>1, <1>2, <2>1 DEF Request, Op, Goals, HeadscaleOp, AgentOp, AgentRow, OidcRow
    <3>2. q.want.url \in Url \cup {Bad} /\ q.want.key \in Key
      BY <1>1, <3>1 DEF Want, WantHeadscale
    <3> QED
      BY <2>1, <3>2 DEF Write
  <2>2. CASE w.row # "key"
    BY <2>2 DEF Write, TypeOK
  <2> QED
    BY <2>1, <2>2
<1>11. env' \in Environments'
  BY <1>2, SameEnvironments DEF TypeOK
<1> QED
  BY <1>2, <1>4, <1>5, <1>8, <1>9, <1>10, <1>11 DEF TypeOK

\* What the save still has to write shrinks by the row just written.
LEMMA WriteRest ==
  ASSUME TypeOK, Invariant, NEW r \in Operator, Write(r)
  PROVE  LET q == req[r]  w == Head(req[r].todo)
         IN /\ Tail(q.todo) \in Seq(Statement)
            /\ Pending(q.todo) = {w.row} \cup Pending(Tail(q.todo))
            /\ Delivers(q.op, q.want, Tail(q.todo)) /\ Ordered(Tail(q.todo))
            /\ "url" \notin Pending(Tail(q.todo))
            /\ w.row # "url" => "key" \notin Pending(Tail(q.todo))
            /\ w.row # "throw"
<1> DEFINE q == req[r]  w == Head(req[r].todo)
<1>1. q \in Request /\ Underway(q) /\ q.todo # <<>>
  BY WriterFacts, WriteFacts
<1>2. q.todo \in Seq(Statement) /\ Delivers(q.op, q.want, q.todo) /\ Ordered(q.todo)
  BY <1>1 DEF Request, Underway
<1>3. w.row # "throw"
  BY WriteFacts DEF Row
<1> QED
  BY <1>1, <1>2, <1>3, PendingTail, TailKeeps

LEMMA WriteUnderway ==
  ASSUME TypeOK, Invariant, NEW r \in Operator, Write(r)
  PROVE  Underway(req[r])'
<1> DEFINE q == req[r]  w == Head(req[r].todo)  rest == Tail(req[r].todo)
<1>1. /\ q \in Request /\ q.want \in Want(q.op) /\ Underway(q)
      /\ q.todo # <<>> /\ w \in Statement /\ w.row \in Goals(q.op) /\ w.row \in Row
      /\ Meets(q.want, w.row, IF w.text = None THEN env[w.row] ELSE w.text)
      /\ w.row \in {"url", "key", "agentOn"} => w.text # None
      /\ Fits(w) /\ Goals(q.op) \subseteq Row
  BY WriterFacts, WriteFacts
<1>2. /\ store'[w.row] = IF w.text = None THEN None ELSE [text |-> w.text, under |-> w.under]
      /\ \A row \in Row \ {w.row} : store'[row] = store[row]
      /\ UNCHANGED <<env, master>>
      /\ req'[r] = [q EXCEPT !.todo = rest, !.wrote = q.wrote \/ store' # store]
  BY WriteFacts DEF TypeOK
<1>3. /\ req'[r].op = q.op /\ req'[r].want = q.want /\ req'[r].todo = rest
      /\ req'[r].wrote = (q.wrote \/ store' # store)
  BY <1>1, <1>2 DEF Request
<1>4. /\ Pending(q.todo) = {w.row} \cup Pending(rest)
      /\ Delivers(q.op, q.want, rest) /\ Ordered(rest)
      /\ "url" \notin Pending(rest)
      /\ w.row # "url" => "key" \notin Pending(rest)
      /\ w.row # "throw"
  BY WriteRest
<1>5. \A row \in Row : Read(row)' = IF row # w.row THEN Read(row)
                                    ELSE IF w.text = None THEN env[row] ELSE w.text
  BY WriteReads
<1>6. /\ q.todo # <<>> /\ w # Throw
      /\ given' = IF w.row = "key" THEN <<q.want.url, q.want.key>> ELSE given
  BY DEF Write
<1>7. q.op # "clearOidc" => q.want.url # Bad
  BY <1>1, <1>6 DEF Underway, RefusedFirst
<1> HIDE DEF q, w, rest
<1>8. \A op, want, s : Delivers(op, want, s) => Delivers(op, want, s)'
  BY <1>2 DEF Delivers, Apt
<1>9. \A row \in Goals(q.op) :
        row \in Pending(rest) \/ "throw" \in Pending(rest) \/ Meets(q.want, row, Read(row)')
  <2> SUFFICES ASSUME NEW row \in Goals(q.op), row \notin Pending(rest),
                      "throw" \notin Pending(rest)
               PROVE  Meets(q.want, row, Read(row)')
    OBVIOUS
  <2>1. CASE row = w.row
    BY <1>1, <1>5, <2>1
  <2>2. CASE row # w.row
    <3>1. row \notin Pending(q.todo) /\ "throw" \notin Pending(q.todo) /\ row \in Row
      BY <1>1, <1>4, <2>2
    <3> QED
      BY <1>1, <1>5, <2>2, <3>1 DEF Underway, Covered
  <2> QED
    BY <2>1, <2>2
<1>10. q.op = "connection" => q.want.oidc = Oidc'
  <2> HAVE q.op = "connection"
  <2>1. w.row \notin OidcRow
    BY <1>1 DEF Goals, HeadscaleRow, OidcRow, AgentOp
  <2>2. \A row \in OidcRow : Read(row)' = Read(row)
    BY <1>5, <2>1 DEF OidcRow, Row
  <2> QED
    BY <1>1, <2>2 DEF Underway, Oidc, OidcRow
<1>11. q.op \in AgentOp => ("throw" \in Pending(rest) => q.want.url = Bad)
  BY <1>1, <1>4 DEF Underway
<1>12. q.op \in HeadscaleOp =>
         /\ store'["url"] = [text |-> q.want.url, under |-> None]
         /\ "key" \notin Pending(rest) =>
              /\ store'["key"] # None /\ store'["key"].text = q.want.key
              /\ given' = <<q.want.url, q.want.key>>
  <2> HAVE q.op \in HeadscaleOp
  <2>1. q.want.url # Bad /\ PairWritten(q)
    BY <1>1, <1>7 DEF HeadscaleOp, Underway
  <2>2. CASE w.row = "url"
    BY <1>1, <1>2, <1>4, <2>1, <2>2 DEF PairWritten, Meets, Fits, Under, SecretRow, Row
  <2>3. CASE w.row = "key"
    <3>1. [text |-> w.text, under |-> w.under] # None
      BY <1>1, <2>3, NoneIsNoRow DEF Statement, Throw
    <3>2. store'["url"] = store["url"] /\ "url" \notin Pending(q.todo)
      BY <1>2, <1>4, <2>3 DEF Row
    <3> QED
      BY <1>1, <1>2, <1>4, <1>6, <2>1, <2>3, <3>1, <3>2 DEF PairWritten, Meets
  <2>4. CASE w.row \notin {"url", "key"}
    <3>1. "url" \notin Pending(q.todo) /\ "key" \notin Pending(q.todo)
      BY <1>4, <2>4
    <3>2. store'["url"] = store["url"] /\ store'["key"] = store["key"]
      BY <1>2, <2>4 DEF Row
    <3> QED
      BY <1>6, <2>1, <2>4, <3>1, <3>2 DEF PairWritten
  <2> QED
    BY <2>2, <2>3, <2>4
<1>13. /\ Delivers(req[r].op, req[r].want, req[r].todo)'
       /\ Covered(req[r].op, req[r].want, req[r].todo)'
  BY <1>3, <1>4, <1>8, <1>9 DEF Covered
<1>14. PairWritten(req[r])' /\ RefusedFirst(req[r])'
  BY <1>3, <1>4, <1>7, <1>12 DEF PairWritten, RefusedFirst, HeadscaleOp
<1> QED
  BY <1>3, <1>4, <1>10, <1>11, <1>13, <1>14 DEF Underway

LEMMA WriteInvariant ==
  ASSUME TypeOK, Invariant, NEW r \in Operator, Write(r)
  PROVE  Invariant'
<1> DEFINE q == req[r]  w == Head(req[r].todo)  rest == Tail(req[r].todo)
<1>1. /\ Writing(r) /\ q \in Request /\ Underway(q)
      /\ \A s \in Operator \ {r} : ~Writing(s)
      /\ q.todo # <<>> /\ w.row \in Goals(q.op) /\ Goals(q.op) \subseteq Row
  BY WriterFacts, WriteFacts
<1>2. /\ \A row \in Row \ {w.row} : store'[row] = store[row]
      /\ UNCHANGED <<torn, choice>>
      /\ req' = [req EXCEPT ![r] = [q EXCEPT !.todo = rest, !.wrote = q.wrote \/ store' # store]]
  BY WriteFacts
<1>3. /\ req'[r].op = q.op /\ req'[r].todo = rest /\ req'[r].pc = "write"
      /\ req'[r].wrote = (q.wrote \/ store' # store)
      /\ \A s \in Operator \ {r} : req'[s] = req[s]
  BY <1>1, <1>2 DEF Request, Writing, TypeOK
<1>4. /\ Pending(q.todo) = {w.row} \cup Pending(rest)
      /\ "url" \notin Pending(rest)
      /\ w.row # "url" => "key" \notin Pending(rest)
  BY WriteRest
<1>5. /\ w # Throw
      /\ w.row # "key" => given' = given
  BY DEF Write
<1>6. OneWriter' /\ \A s \in Operator : Writing(s)' => Underway(req[s])'
  BY <1>1, <1>3, WriteUnderway DEF OneWriter, Writing
<1>7. q.op \in HeadscaleOp => PairWritten(q) /\ PairWritten(req[r])' /\ q.want.url # Bad
                              /\ req'[r].want = q.want
  BY <1>1, <1>2, <1>5, WriteUnderway DEF Underway, RefusedFirst, HeadscaleOp, Request, TypeOK
<1>8. HeadscaleHolds'
  <2>1. CASE q.op \in HeadscaleOp /\ "key" \in Pending(rest)
    <3>1. w.row = "url" /\ ~q.wrote
      BY <1>4, <1>7, <2>1 DEF PairWritten
    <3>2. CASE store' = store
      BY <1>1, <1>2, <1>3, <1>5, <3>1, <3>2 DEF Invariant, HeadscaleHolds, Settled, Writing
    <3>3. CASE store' # store
      BY <1>3, <2>1, <3>3 DEF HeadscaleHolds, Writing
    <3> QED
      BY <3>2, <3>3
  <2>2. CASE q.op \in HeadscaleOp /\ "key" \notin Pending(rest)
    <3>1. /\ store'["url"] = [text |-> q.want.url, under |-> None]
          /\ store'["key"] # None /\ store'["key"].text = q.want.key
          /\ given' = <<q.want.url, q.want.key>>
      BY <1>3, <1>4, <1>7, <2>2 DEF PairWritten
    <3>2. q.want.url \in Url
      BY <1>7, <2>2, WriterFacts, <1>1 DEF Want, WantHeadscale
    <3>3. [text |-> q.want.url, under |-> None] # None
      BY <3>2, NoneIsNoRow DEF AnyText
    <3> QED
      BY <3>1, <3>3 DEF HeadscaleHolds, Settled
  <2>3. CASE q.op \notin HeadscaleOp
    <3>1. w.row \notin {"url", "key"}
      BY <1>1, <2>3 DEF Request, Op, Goals, HeadscaleOp, AgentOp, AgentRow, OidcRow
    <3>2. store'["url"] = store["url"] /\ store'["key"] = store["key"] /\ given' = given
      BY <1>2, <1>5, <3>1 DEF Row
    <3>3. "headscale" \in torn \/ Settled
      BY <1>1, <2>3 DEF Invariant, HeadscaleHolds
    <3> QED
      BY <1>2, <3>2, <3>3 DEF HeadscaleHolds, Settled
  <2> QED
    BY <2>1, <2>2, <2>3
<1>9. SwitchHolds'
  <2>1. CASE q.op \in AgentOp
    <3>1. CASE store' = store
      BY <1>1, <1>2, <1>3, <3>1 DEF Invariant, SwitchHolds, Writing
    <3>2. CASE store' # store
      BY <1>3, <2>1, <3>2 DEF SwitchHolds, Writing
    <3> QED
      BY <3>1, <3>2
  <2>2. CASE q.op \notin AgentOp
    <3>1. w.row # "agentOn"
      BY <1>1, <2>2 DEF Request, Op, Goals, HeadscaleOp, AgentOp, HeadscaleRow, OidcRow
    <3>2. store'["agentOn"] = store["agentOn"]
      BY <1>2, <3>1 DEF Row
    <3> QED
      BY <1>1, <1>2, <2>2, <3>2 DEF Invariant, SwitchHolds
  <2> QED
    BY <2>1, <2>2
<1> QED
  BY <1>6, <1>8, <1>9 DEF Invariant

-----------------------------------------------------------------------------
(* The end of a save                                                       *)

LEMMA EndFacts ==
  ASSUME TypeOK, Invariant, NEW r \in Operator, Refuse(r) \/ Succeed(r) \/ Abort(r)
  PROVE  /\ Writing(r) /\ req[r] \in Request /\ req[r].want \in Want(req[r].op)
         /\ Underway(req[r])
         /\ \A s \in Operator : req'[s].pc # "write"
         /\ req' \in [Operator -> Request \cup {Idle}]
         /\ UNCHANGED <<store, env, master, setting, given>>
<1>1. req[r].todo # <<>> \/ Writing(r)
  BY DEF Refuse, Succeed, Abort, Writing
<1>2. req' = [req EXCEPT ![r] = Idle] /\ UNCHANGED <<store, env, master, setting, given>>
  BY DEF Refuse, Succeed, Abort
<1>3. /\ Writing(r) /\ req[r] \in Request /\ req[r].want \in Want(req[r].op)
      /\ Underway(req[r])
      /\ \A s \in Operator \ {r} : ~Writing(s)
  BY <1>1, WriterFacts
<1>4. Idle.pc # "write"
  BY DEF Idle
<1>5. \A s \in Operator : req'[s].pc # "write"
  BY <1>2, <1>3, <1>4 DEF TypeOK, Writing
<1>6. req' \in [Operator -> Request \cup {Idle}]
  BY <1>2 DEF TypeOK
<1> QED
  BY <1>2, <1>3, <1>5, <1>6

LEMMA EndKeeps ==
  ASSUME TypeOK, Invariant, NEW r \in Operator, Refuse(r) \/ Succeed(r) \/ Abort(r)
  PROVE  TypeOK' /\ Invariant'
<1> DEFINE q == req[r]
<1>1. /\ Writing(r) /\ q \in Request /\ q.want \in Want(q.op)
      /\ Underway(q)
      /\ \A s \in Operator : req'[s].pc # "write"
      /\ req' \in [Operator -> Request \cup {Idle}]
      /\ UNCHANGED <<store, env, master, setting, given>>
  BY EndFacts
<1>2. Sections(q.op) \subseteq {"headscale", "oidc", "agent"}
  BY <1>1 DEF Sections
<1>3. torn' \subseteq {"headscale", "oidc", "agent"} /\ choice' \in BOOLEAN \cup {None}
  BY <1>1, <1>2 DEF TypeOK, Refuse, Succeed, Abort, Want, WantAgent, AgentOp, HeadscaleOp
<1>4. env' \in Environments'
  BY <1>1, SameEnvironments DEF TypeOK
<1>5. TypeOK'
  BY <1>1, <1>3, <1>4 DEF TypeOK, Writing
<1>6. Head(q.todo) = Throw /\ q.todo # <<>> =>
        "throw" \in Pending(q.todo) /\ "key" \notin Pending(q.todo)
  <2> SUFFICES ASSUME q.todo # <<>>, Head(q.todo) = Throw
               PROVE  "throw" \in Pending(q.todo) /\ "key" \notin Pending(q.todo)
    OBVIOUS
  <2>1. q.todo \in Seq(Statement) /\ Delivers(q.op, q.want, q.todo) /\ Ordered(q.todo)
    BY <1>1 DEF Request, Underway
  <2>2. Throw.row = "throw"
    BY DEF Throw
  <2> QED
    BY <2>1, <2>2, PendingTail, TailKeeps
<1>7. HeadscaleHolds'
  <2>1. CASE q.op \in HeadscaleOp
    <3>1. CASE Refuse(r)
      <4>1. "key" \notin Pending(q.todo)
        BY <1>6, <3>1 DEF Refuse
      <4>2. "headscale" \in torn \/ Settled
        BY <1>1, <4>1 DEF Invariant, HeadscaleHolds, OneWriter
      <4> QED
        BY <1>1, <3>1, <4>2 DEF Refuse, HeadscaleHolds, Settled
    <3>2. CASE Succeed(r)
      <4>1. Pending(q.todo) = {}
        BY <3>2 DEF Succeed, Pending
      <4>2. q.want.url # Bad /\ PairWritten(q)
        BY <1>1, <2>1, <3>2 DEF Underway, RefusedFirst, Succeed, HeadscaleOp
      <4>3. [text |-> q.want.url, under |-> None] # None
        BY <1>1, <2>1, <4>2, NoneIsNoRow DEF AnyText, Want, WantHeadscale
      <4>4. Settled
        BY <2>1, <4>1, <4>2, <4>3 DEF PairWritten, Settled
      <4> QED
        BY <1>1, <4>4 DEF HeadscaleHolds, Settled
    <3>3. CASE Abort(r)
      <4>1. "headscale" \in Sections(q.op)
        BY <2>1 DEF Sections, HeadscaleOp
      <4>2. q.wrote => "headscale" \in torn'
        BY <3>3, <4>1 DEF Abort
      <4>3. ~q.wrote => "headscale" \in torn \/ Settled
        BY <1>1 DEF Invariant, HeadscaleHolds, OneWriter
      <4> QED
        BY <1>1, <3>3, <4>2, <4>3 DEF Abort, HeadscaleHolds, Settled
    <3> QED
      BY <3>1, <3>2, <3>3
  <2>2. CASE q.op \notin HeadscaleOp
    <3>1. "headscale" \in torn \/ Settled
      BY <1>1, <2>2 DEF Invariant, HeadscaleHolds, OneWriter
    <3>2. "headscale" \notin Sections(q.op)
      BY <1>1, <2>2 DEF Sections, HeadscaleOp
    <3> QED
      BY <1>1, <3>1, <3>2 DEF Refuse, Succeed, Abort, HeadscaleHolds, Settled
  <2> QED
    BY <2>1, <2>2
<1>8. SwitchHolds'
  <2>1. CASE q.op \in AgentOp
    <3>1. CASE Refuse(r)
      <4>1. ~q.wrote
        BY <1>1, <1>6, <2>1, <3>1 DEF Refuse, Underway, RefusedFirst, AgentOp
      <4> QED
        BY <1>1, <3>1, <4>1 DEF Refuse, Invariant, SwitchHolds, OneWriter
    <3>2. CASE Succeed(r)
      <4>1. Pending(q.todo) = {} /\ "agentOn" \in Goals(q.op)
        BY <2>1, <3>2 DEF Succeed, Pending, Goals, AgentOp, AgentRow
      <4>2. Read("agentOn") = q.want.on /\ q.want.on \in BOOLEAN
        BY <1>1, <2>1, <4>1 DEF Underway, Covered, Meets, Want, WantAgent, AgentOp, HeadscaleOp
      <4>3. env["agentOn"] = None /\ None \notin BOOLEAN
        BY EnvValues, ConfigAssumption DEF TypeOK
      <4>4. store["agentOn"] # None /\ store["agentOn"].text = q.want.on
        BY <4>2, <4>3 DEF Read
      <4>5. store["agentOn"] \in Stored /\ store["agentOn"].under = None
        BY <4>4 DEF TypeOK, Row, Under, SecretRow
      <4>6. store["agentOn"] = [text |-> q.want.on, under |-> None]
        BY <4>4, <4>5 DEF Stored
      <4> QED
        BY <1>1, <2>1, <3>2, <4>6 DEF Succeed, SwitchHolds, AgentOp
    <3>3. CASE Abort(r)
      <4>1. "agent" \in Sections(q.op)
        BY <2>1 DEF Sections, AgentOp
      <4>2. q.wrote => "agent" \in torn'
        BY <3>3, <4>1 DEF Abort
      <4> QED
        BY <1>1, <3>3, <4>2 DEF Abort, Invariant, SwitchHolds, OneWriter
    <3> QED
      BY <3>1, <3>2, <3>3
  <2>2. CASE q.op \notin AgentOp
    <3>1. "agent" \notin Sections(q.op)
      BY <1>1, <2>2 DEF Request, Op, Sections, AgentOp, HeadscaleOp
    <3> QED
      BY <1>1, <2>2, <3>1 DEF Refuse, Succeed, Abort, Invariant, SwitchHolds, OneWriter, AgentOp
  <2> QED
    BY <2>1, <2>2
<1> QED
  BY <1>1, <1>5, <1>7, <1>8 DEF Invariant, OneWriter, Writing

-----------------------------------------------------------------------------
(* The start of a save                                                     *)

LEMMA EmptySequence ==
  ASSUME NEW op, NEW want
  PROVE  /\ <<>> \in Seq(Statement) /\ Pending(<<>>) = {}
         /\ Delivers(op, want, <<>>) /\ Ordered(<<>>)
  BY DEF Pending, Delivers, Ordered

LEMMA OneStatement ==
  ASSUME NEW op, NEW want, NEW a \in Statement, Apt(op, want, a)
  PROVE  /\ <<a>> \in Seq(Statement) /\ Pending(<<a>>) = {a.row}
         /\ Delivers(op, want, <<a>>) /\ Ordered(<<a>>)
  BY DEF Pending, Delivers, Ordered

LEMMA TwoStatements ==
  ASSUME NEW op, NEW want, NEW a \in Statement, NEW b \in Statement,
         Apt(op, want, a), Apt(op, want, b), b.row # "url", b.row = "key" => a.row = "url"
  PROVE  /\ <<a, b>> \in Seq(Statement) /\ Pending(<<a, b>>) = {a.row, b.row}
         /\ Delivers(op, want, <<a, b>>) /\ Ordered(<<a, b>>)
         /\ <<a, b>> # <<>> /\ Head(<<a, b>>) = a
<1>1. <<a, b>> \in Seq(Statement) /\ Pending(<<a, b>>) = {a.row, b.row}
  BY DEF Pending
<1>2. Delivers(op, want, <<a, b>>) /\ Ordered(<<a, b>>)
  BY DEF Delivers, Ordered
<1>3. <<a, b>> # <<>> /\ Head(<<a, b>>) = a
  OBVIOUS
<1> QED
  BY <1>1, <1>2, <1>3

LEMMA ThreeStatements ==
  ASSUME NEW op, NEW want, NEW a \in Statement, NEW b \in Statement, NEW c \in Statement,
         Apt(op, want, a), Apt(op, want, b), Apt(op, want, c),
         b.row \notin {"url", "key"}, c.row \notin {"url", "key"}
  PROVE  /\ <<a, b, c>> \in Seq(Statement) /\ Pending(<<a, b, c>>) = {a.row, b.row, c.row}
         /\ Delivers(op, want, <<a, b, c>>) /\ Ordered(<<a, b, c>>)
<1>1. <<a, b, c>> \in Seq(Statement) /\ Pending(<<a, b, c>>) = {a.row, b.row, c.row}
  BY DEF Pending
<1>2. Delivers(op, want, <<a, b, c>>) /\ Ordered(<<a, b, c>>)
  BY DEF Delivers, Ordered
<1> QED
  BY <1>1, <1>2

LEMMA JustThrow ==
  ASSUME NEW op, NEW want
  PROVE  /\ <<Throw>> \in Seq(Statement) /\ Pending(<<Throw>>) = {"throw"}
         /\ Delivers(op, want, <<Throw>>) /\ Ordered(<<Throw>>)
         /\ <<Throw>> # <<>> /\ Head(<<Throw>>) = Throw
<1>1. Throw \in Statement /\ Throw.row = "throw" /\ Apt(op, want, Throw)
  BY DEF Throw, Statement, Apt
<1> QED
  BY <1>1, OneStatement

LEMMA TextsOfRows == ASSUME NEW row \in Row PROVE Text(row) \subseteq AnyText
<1>1. CASE row \in {"url", "login", "agentUrl"}
  BY <1>1 DEF Text, AnyText
<1>2. CASE row \in {"key", "agentSecret"}
  BY <1>2 DEF Text, AnyText
<1>3. CASE row \in {"issuer", "client", "secret"}
  BY <1>3 DEF Text, AnyText
<1>4. CASE row = "agentOn"
  BY <1>4 DEF Text, AnyText
<1> QED
  BY <1>1, <1>2, <1>3, <1>4 DEF Row

LEMMA Statements ==
  ASSUME TypeOK, NEW op, NEW want, NEW row \in Row, NEW x \in Text(row)
  PROVE  /\ Sealed(row, x) \in Statement /\ Plain(row, x) \in Statement
         /\ Delete(row) \in Statement /\ Throw \in Statement
         /\ Sealed(row, x).row = row /\ Plain(row, x).row = row
         /\ Delete(row).row = row /\ Throw.row = "throw"
         /\ Apt(op, want, Throw)
         /\ row \in Goals(op) /\ Meets(want, row, x) => Apt(op, want, Plain(row, x))
         /\ row \in Goals(op) /\ Meets(want, row, x) /\ row \in SecretRow =>
              Apt(op, want, Sealed(row, x))
         /\ row \in Goals(op) /\ Meets(want, row, env[row]) /\ row \notin {"url", "key", "agentOn"} =>
              Apt(op, want, Delete(row))
<1>1. x \in AnyText /\ x # None /\ master \in Master \cup {None}
  <2>1. master \in Master \cup {None}
    BY DEF TypeOK
  <2>2. Text(row) \subseteq AnyText
    BY TextsOfRows
  <2>3. None \notin AnyText
    BY ConfigAssumption DEF AnyText
  <2> QED
    BY <2>1, <2>2, <2>3
<1>2. /\ Sealed(row, x) \in Statement /\ Plain(row, x) \in Statement
      /\ Delete(row) \in Statement /\ Throw \in Statement
  BY <1>1 DEF Sealed, Plain, Delete, Statement
<1>3. /\ Sealed(row, x).row = row /\ Plain(row, x).row = row
      /\ Delete(row).row = row /\ Throw.row = "throw"
  BY DEF Sealed, Plain, Delete, Throw
<1>4. Apt(op, want, Throw)
  BY DEF Apt, Throw
<1>5. row \in Goals(op) /\ Meets(want, row, x) => Apt(op, want, Plain(row, x))
  BY <1>1 DEF Apt, Plain, Fits, Under
<1>6. row \in Goals(op) /\ Meets(want, row, x) /\ row \in SecretRow => Apt(op, want, Sealed(row, x))
  BY <1>1 DEF Apt, Sealed, Fits, Under
<1>7. row \in Goals(op) /\ Meets(want, row, env[row]) /\ row \notin {"url", "key", "agentOn"} =>
        Apt(op, want, Delete(row))
  BY DEF Apt, Delete, Fits
<1> QED
  BY <1>2, <1>3, <1>4, <1>5, <1>6, <1>7

LEMMA BeginKeeps ==
  ASSUME NEW i, Instance = {i}, TypeOK, Invariant, NEW r \in Operator, NEW a \in Instance,
         NEW op \in Op, NEW s \in Seq(Statement), NEW want \in Want(op), Begin(r, a, op, s, want),
         Delivers(op, want, s), Ordered(s), Covered(op, want, s),
         op = "connection" => want.oidc = Oidc,
         op \in AgentOp => ("throw" \in Pending(s) => want.url = Bad),
         op # "clearOidc" /\ want.url = Bad => s # <<>> /\ Head(s) = Throw,
         op \in HeadscaleOp /\ want.url # Bad => "url" \in Pending(s) /\ "key" \in Pending(s)
  PROVE  TypeOK' /\ Invariant'
<1> DEFINE q == [pc |-> "write", at |-> a, op |-> op, todo |-> s, want |-> want, wrote |-> FALSE]
<1>1. req' = [req EXCEPT ![r] = q] /\ UNCHANGED <<store, env, master, setting, torn, given, choice>>
  BY DEF Begin
<1>2. /\ q.pc = "write" /\ q.op = op /\ q.todo = s /\ q.want = want /\ ~q.wrote
      /\ q \in Request
  BY DEF Request, Want
<1>3. \A p \in Operator : ~Writing(p)
  <2> SUFFICES ASSUME NEW p \in Operator, Writing(p) PROVE FALSE
    OBVIOUS
  <2>1. req[p].at \in Instance
    BY DEF TypeOK, Writing, Request, Idle
  <2> QED
    BY <2>1 DEF Begin, ThreadFree
<1> HIDE DEF q
<1>4. req'[r] = q /\ \A p \in Operator \ {r} : req'[p] = req[p]
  BY <1>1 DEF TypeOK
<1>5. req' \in [Operator -> Request \cup {Idle}]
  BY <1>1, <1>2 DEF TypeOK
<1>6. env' \in Environments'
  BY <1>1, SameEnvironments DEF TypeOK
<1>7. TypeOK'
  BY <1>1, <1>2, <1>3, <1>4, <1>5, <1>6 DEF TypeOK, Writing
<1>8. Delivers(op, want, s)' /\ Covered(op, want, s)' /\ Oidc' = Oidc
  BY <1>1 DEF Delivers, Apt, Covered, Read, Oidc
<1>9. PairWritten(req[r])' /\ RefusedFirst(req[r])'
  BY <1>2, <1>4 DEF PairWritten, RefusedFirst, HeadscaleOp
<1>10. Underway(req[r])'
  BY <1>2, <1>4, <1>8, <1>9 DEF Underway
<1>11. OneWriter' /\ \A p \in Operator : Writing(p)' => Underway(req[p])'
  BY <1>3, <1>4, <1>10 DEF OneWriter, Writing
<1>12. HeadscaleHolds' /\ SwitchHolds'
  BY <1>1, <1>3 DEF Invariant, HeadscaleHolds, SwitchHolds, Settled
<1> QED
  BY <1>7, <1>11, <1>12 DEF Invariant

LEMMA Texts ==
  /\ Text("url") = Url /\ Text("login") = Url /\ Text("agentUrl") = Url
  /\ Text("key") = Key /\ Text("agentSecret") = Key
  /\ Text("issuer") = Provider /\ Text("client") = Provider /\ Text("secret") = Provider
  /\ Text("agentOn") = BOOLEAN
  /\ Row = HeadscaleRow \cup OidcRow \cup AgentRow
  BY DEF Text, Row, HeadscaleRow, OidcRow, AgentRow

\* What the Headscale half of an input comes to.
LEMMA HeadscalePlan ==
  ASSUME TypeOK, NEW op \in HeadscaleOp, NEW want, NEW c,
         c.url \in Url \cup {Bad}, c.key \in Key, c.login \in Url \cup {Bad, "keep", ""},
         want.url = c.url, want.key = c.key,
         want.login = CASE c.login = "keep" -> IF UrlOf("login") = None THEN c.url ELSE UrlOf("login")
                        [] c.login = "" -> c.url
                        [] OTHER -> c.login
  PROVE  LET s == HeadscaleWrites(c)
         IN /\ s \in Seq(Statement) /\ Delivers(op, want, s) /\ Ordered(s)
            /\ c.url = Bad => s = <<Throw>>
            /\ c.url # Bad => /\ "url" \in Pending(s) /\ "key" \in Pending(s)
                              /\ s # <<>> /\ Head(s).row = "url"
            /\ \A row \in HeadscaleRow :
                 row \in Pending(s) \/ "throw" \in Pending(s) \/ Meets(want, row, Read(row))
<1> DEFINE s == HeadscaleWrites(c)
<1>0. HeadscaleRow \subseteq Goals(op) /\ HeadscaleRow \subseteq Row
  BY DEF HeadscaleOp, AgentOp, Goals, HeadscaleRow, Row
<1>1. CASE c.url = Bad
  <2>1. s = <<Throw>>
    BY <1>1 DEF HeadscaleWrites
  <2> QED
    BY <1>1, <2>1, JustThrow
<1>2. CASE c.url # Bad
  <2> DEFINE h == <<Plain("url", c.url), Sealed("key", c.key)>>
             t == CASE c.login = "keep" -> <<>>
                    [] c.login = "" -> <<Delete("login")>>
                    [] c.login = Bad -> <<Throw>>
                    [] OTHER -> <<Plain("login", c.login)>>
  <2>1. s = h \o t
    BY <1>2 DEF HeadscaleWrites
  <2>2. /\ Plain("url", c.url) \in Statement /\ Plain("url", c.url).row = "url"
        /\ Apt(op, want, Plain("url", c.url))
    BY <1>0, <1>2, Texts, Statements DEF HeadscaleRow, Meets
  <2>3. /\ Sealed("key", c.key) \in Statement /\ Sealed("key", c.key).row = "key"
        /\ Apt(op, want, Sealed("key", c.key))
    BY <1>0, Texts, Statements DEF HeadscaleRow, Meets, SecretRow
  <2>4. /\ h \in Seq(Statement) /\ Pending(h) = {"url", "key"}
        /\ Ordered(h) /\ Delivers(op, want, h)
        /\ h # <<>> /\ Head(h) = Plain("url", c.url)
    <3> DEFINE a == Plain("url", c.url)  b == Sealed("key", c.key)
    <3>1. /\ a \in Statement /\ a.row = "url" /\ Apt(op, want, a)
          /\ b \in Statement /\ b.row = "key" /\ Apt(op, want, b)
      BY <2>2, <2>3
    <3> HIDE DEF a, b
    <3>2. b.row # "url" /\ (b.row = "key" => a.row = "url")
      BY <3>1
    <3>3. /\ <<a, b>> \in Seq(Statement) /\ Pending(<<a, b>>) = {a.row, b.row}
          /\ Ordered(<<a, b>>) /\ Delivers(op, want, <<a, b>>)
          /\ <<a, b>> # <<>> /\ Head(<<a, b>>) = a
      <4> HIDE DEF h, t, s
      <4>1. a \in Statement /\ b \in Statement /\ Apt(op, want, a) /\ Apt(op, want, b)
        BY <3>1
      <4> QED
        BY ONLY <3>2, <4>1, TwoStatements
    <3> QED
      BY <3>1, <3>3 DEF a, b
  <2>5. /\ t \in Seq(Statement) /\ Pending(t) \subseteq {"login", "throw"}
        /\ Delivers(op, want, t)
        /\ \/ "login" \in Pending(t) \/ "throw" \in Pending(t)
           \/ Meets(want, "login", Read("login"))
    <3>0. {"keep", ""} \cap (Url \cup {Bad}) = {} /\ None \notin Url \cup {Bad} /\ Bad \notin Url
      BY ConfigAssumption
    <3>1. CASE c.login = "keep"
      <4>1. t = <<>>
        BY <3>0, <3>1
      <4>2. Meets(want, "login", Read("login"))
        BY <1>2, <3>0, <3>1 DEF Meets, UrlOf
      <4> QED
        BY <4>1, <4>2, EmptySequence
    <3>2. CASE c.login = ""
      <4>1. t = <<Delete("login")>>
        BY <3>0, <3>2
      <4>2. env["login"] = None
        BY EnvValues DEF TypeOK
      <4>3. Meets(want, "login", env["login"])
        BY <3>2, <4>2 DEF Meets
      <4>4. /\ Delete("login") \in Statement /\ Delete("login").row = "login"
            /\ Apt(op, want, Delete("login"))
        BY <1>0, <4>3, <1>2, Texts, Statements DEF HeadscaleRow
      <4> QED
        BY <4>1, <4>4, OneStatement
    <3>3. CASE c.login = Bad
      <4>1. t = <<Throw>>
        BY <3>0, <3>3
      <4> QED
        BY <4>1, JustThrow
    <3>4. CASE c.login \in Url
      <4>1. t = <<Plain("login", c.login)>>
        BY <3>0, <3>4
      <4>2. Meets(want, "login", c.login)
        BY <3>0, <3>4 DEF Meets
      <4>3. /\ Plain("login", c.login) \in Statement /\ Plain("login", c.login).row = "login"
            /\ Apt(op, want, Plain("login", c.login))
        BY <1>0, <3>4, <4>2, Texts, Statements DEF HeadscaleRow
      <4> QED
        BY <4>1, <4>3, OneStatement
    <3> QED
      BY <3>1, <3>2, <3>3, <3>4
  <2> HIDE DEF h, t, s
  <2>6. /\ s \in Seq(Statement) /\ Pending(s) = {"url", "key"} \cup Pending(t)
        /\ Ordered(s) /\ Delivers(op, want, s)
    BY <2>1, <2>4, <2>5, Concatenation
  <2>7. s # <<>> /\ Head(s) = Plain("url", c.url)
    BY <2>1, <2>4, <2>5, HeadConcat
  <2> QED
    BY <1>2, <2>2, <2>5, <2>6, <2>7 DEF HeadscaleRow, s
<1> QED
  BY <1>1, <1>2

\* What the provider's half comes to.
LEMMA OidcPlan ==
  ASSUME TypeOK, NEW op \in {"setup", "clearOidc"}, NEW p \in Provider \cup {Bad, None}, NEW want,
         want.oidc = IF p = None THEN EnvOidc ELSE <<p, p, p>>
  PROVE  LET s == OidcWrites(p)
         IN /\ s \in Seq(Statement) /\ Delivers(op, want, s) /\ Ordered(s)
            /\ "url" \notin Pending(s) /\ "key" \notin Pending(s)
            /\ \A row \in OidcRow : row \in Pending(s) \/ "throw" \in Pending(s)
            /\ want.oidc \in Triple \cup {None}
<1> DEFINE s == OidcWrites(p)
<1>0. OidcRow \subseteq Goals(op) /\ OidcRow \subseteq Row
  BY DEF HeadscaleOp, AgentOp, Goals, HeadscaleRow, OidcRow, Row
<1>1. CASE p = Bad
  <2>1. s = <<Throw>> /\ want.oidc \in Triple
    BY <1>1, ConfigAssumption DEF OidcWrites, Triple
  <2> QED
    BY <2>1, JustThrow
<1>2. CASE p = None
  <2>1. s = <<Delete("issuer"), Delete("client"), Delete("secret")>>
    BY <1>2, ConfigAssumption DEF OidcWrites
  <2>2. /\ env["issuer"] \in Provider \cup {None}
        /\ env["client"] = env["issuer"] /\ env["secret"] = env["issuer"]
    BY EnvValues DEF TypeOK
  <2>3. want.oidc = EnvOidc
    BY <1>2
  <2>4. /\ env["issuer"] # None => want.oidc # None /\ want.oidc \in Provider \X Provider \X Provider
        /\ env["issuer"] = None => want.oidc = None
    BY <2>2, <2>3, NoneIsNoProvider DEF EnvOidc
  <2>5. \A row \in OidcRow : Meets(want, row, env[row])
    <3>1. CASE env["issuer"] = None
      BY <2>2, <2>4, <3>1 DEF OidcRow, Meets
    <3>2. CASE env["issuer"] # None
      <4>1. want.oidc = <<env["issuer"], env["client"], env["secret"]>> /\ want.oidc # None
        BY <2>3, <2>4, <3>2 DEF EnvOidc
      <4>2. /\ Meets(want, "issuer", env["issuer"]) /\ Meets(want, "client", env["client"])
            /\ Meets(want, "secret", env["secret"])
        BY <4>1 DEF Meets
      <4> QED
        BY <4>2 DEF OidcRow
    <3> QED
      BY <3>1, <3>2
  <2>6. \A row \in OidcRow : Delete(row) \in Statement /\ Delete(row).row = row
                             /\ Apt(op, want, Delete(row))
    BY <1>0, <2>5 DEF OidcRow, Delete, Statement, Apt, Fits
  <2>7. s \in Seq(Statement) /\ Delivers(op, want, s) /\ Ordered(s) /\ Pending(s) = OidcRow
    BY <2>1, <2>6, ThreeStatements DEF OidcRow
  <2>8. want.oidc \in Triple \cup {None}
    BY <2>2, <2>4 DEF Triple
  <2> QED
    BY <2>7, <2>8 DEF OidcRow
<1>3. CASE p \in Provider
  <2>1. p # None /\ p # Bad /\ <<p, p, p>> # None
    BY <1>3, ConfigAssumption, NoneIsNoProvider
  <2>2. s = <<Plain("issuer", p), Plain("client", p), Sealed("secret", p)>>
    BY <2>1 DEF OidcWrites
  <2>3. want.oidc = <<p, p, p>> /\ want.oidc \in Triple
    BY <1>3, <2>1 DEF Triple
  <2>4. Meets(want, "issuer", p) /\ Meets(want, "client", p) /\ Meets(want, "secret", p)
    BY <2>1, <2>3 DEF Meets
  <2>5. /\ Plain("issuer", p) \in Statement /\ Plain("issuer", p).row = "issuer"
        /\ Apt(op, want, Plain("issuer", p))
    BY <1>0, <1>3, <2>4, Texts, Statements DEF OidcRow
  <2>6. /\ Plain("client", p) \in Statement /\ Plain("client", p).row = "client"
        /\ Apt(op, want, Plain("client", p))
    BY <1>0, <1>3, <2>4, Texts, Statements DEF OidcRow
  <2>7. /\ Sealed("secret", p) \in Statement /\ Sealed("secret", p).row = "secret"
        /\ Apt(op, want, Sealed("secret", p))
    BY <1>0, <1>3, <2>4, Texts, Statements DEF OidcRow, SecretRow
  <2> QED
    BY <2>2, <2>3, <2>5, <2>6, <2>7, ThreeStatements DEF OidcRow
<1> QED
  BY <1>1, <1>2, <1>3

\* What the agent's section comes to.
LEMMA AgentPlan ==
  ASSUME TypeOK, NEW op \in AgentOp, NEW want, NEW a,
         a.url \in Url \cup {Bad}, a.secret \in Key \cup {"keep", ""}, a.on \in BOOLEAN,
         want.url = a.url, want.on = a.on,
         want.secret = CASE a.secret = "keep" -> Read("agentSecret")
                         [] a.secret = "" -> env["agentSecret"]
                         [] OTHER -> a.secret
  PROVE  LET s == AgentWrites(a)
         IN /\ s \in Seq(Statement) /\ Delivers(op, want, s) /\ Ordered(s)
            /\ a.url = Bad => s = <<Throw>>
            /\ a.url # Bad => "throw" \notin Pending(s)
            /\ \A row \in AgentRow :
                 row \in Pending(s) \/ "throw" \in Pending(s) \/ Meets(want, row, Read(row))
<1> DEFINE s == AgentWrites(a)
<1>0. AgentRow \subseteq Goals(op) /\ AgentRow \subseteq Row
  BY DEF HeadscaleOp, AgentOp, Goals, AgentRow, Row
<1>1. CASE a.url = Bad
  <2>1. s = <<Throw>>
    BY <1>1 DEF AgentWrites
  <2> QED
    BY <1>1, <2>1, JustThrow
<1>2. CASE a.url # Bad
  <2> DEFINE h == <<Plain("agentUrl", a.url)>>  t == SecretWrites(a.secret)
             e == <<Plain("agentOn", a.on)>>
  <2>1. s = (h \o t) \o e
    BY <1>2 DEF AgentWrites
  <2>2. /\ h \in Seq(Statement) /\ Pending(h) = {"agentUrl"} /\ Ordered(h) /\ Delivers(op, want, h)
    <3>1. Meets(want, "agentUrl", a.url)
      BY DEF Meets
    <3>2. /\ Plain("agentUrl", a.url) \in Statement /\ Plain("agentUrl", a.url).row = "agentUrl"
          /\ Apt(op, want, Plain("agentUrl", a.url))
      BY <1>0, <1>2, <3>1, Texts, Statements DEF AgentRow
    <3> QED
      BY <3>2, OneStatement
  <2>3. /\ e \in Seq(Statement) /\ Pending(e) = {"agentOn"} /\ Ordered(e) /\ Delivers(op, want, e)
    <3>1. Meets(want, "agentOn", a.on)
      BY DEF Meets
    <3>2. /\ Plain("agentOn", a.on) \in Statement /\ Plain("agentOn", a.on).row = "agentOn"
          /\ Apt(op, want, Plain("agentOn", a.on))
      BY <1>0, <3>1, Texts, Statements DEF AgentRow
    <3> QED
      BY <3>2, OneStatement
  <2>4. /\ t \in Seq(Statement) /\ Pending(t) \subseteq {"agentSecret"}
        /\ Ordered(t) /\ Delivers(op, want, t)
        /\ "agentSecret" \in Pending(t) \/ Meets(want, "agentSecret", Read("agentSecret"))
    <3>0. {"keep", ""} \cap Key = {}
      BY ConfigAssumption
    <3>1. CASE a.secret = "keep"
      <4>1. t = <<>> /\ Meets(want, "agentSecret", Read("agentSecret"))
        BY <3>0, <3>1 DEF SecretWrites, Meets
      <4> QED
        BY <4>1, EmptySequence
    <3>2. CASE a.secret = ""
      <4>1. t = <<Delete("agentSecret")>>
        BY <3>0, <3>2 DEF SecretWrites
      <4>2. Meets(want, "agentSecret", env["agentSecret"])
        BY <3>2 DEF Meets
      <4>3. /\ Delete("agentSecret") \in Statement /\ Delete("agentSecret").row = "agentSecret"
            /\ Apt(op, want, Delete("agentSecret"))
        BY <1>0, <4>2 DEF AgentRow, Delete, Statement, Apt, Fits
      <4> QED
        BY <4>1, <4>3, OneStatement
    <3>3. CASE a.secret \in Key
      <4>1. t = <<Sealed("agentSecret", a.secret)>>
        BY <3>0, <3>3 DEF SecretWrites
      <4>2. Meets(want, "agentSecret", a.secret)
        BY <3>0, <3>3 DEF Meets
      <4>3. /\ Sealed("agentSecret", a.secret) \in Statement
            /\ Sealed("agentSecret", a.secret).row = "agentSecret"
            /\ Apt(op, want, Sealed("agentSecret", a.secret))
        BY <1>0, <3>3, <4>2, Texts, Statements DEF AgentRow, SecretRow
      <4> QED
        BY <4>1, <4>3, OneStatement
    <3> QED
      BY <3>1, <3>2, <3>3
  <2> HIDE DEF h, t, e, s
  <2>5. /\ h \o t \in Seq(Statement) /\ Pending(h \o t) = {"agentUrl"} \cup Pending(t)
        /\ Ordered(h \o t) /\ Delivers(op, want, h \o t)
    BY <2>2, <2>4, Concatenation
  <2>6. /\ s \in Seq(Statement) /\ Pending(s) = Pending(h \o t) \cup Pending(e)
        /\ Ordered(s) /\ Delivers(op, want, s)
    <3> DEFINE g == h \o t
    <3>1. /\ g \in Seq(Statement) /\ Delivers(op, want, g) /\ Ordered(g)
          /\ e \in Seq(Statement) /\ Delivers(op, want, e)
          /\ "url" \notin Pending(e) /\ "key" \notin Pending(e)
      BY <2>3, <2>5
    <3> HIDE DEF g
    <3>2. /\ g \o e \in Seq(Statement) /\ Pending(g \o e) = Pending(g) \cup Pending(e)
          /\ Delivers(op, want, g \o e) /\ Ordered(g \o e)
      BY ONLY <3>1, Concatenation
    <3> QED
      BY <2>1, <3>2 DEF g
  <2> QED
    BY <1>2, <2>3, <2>4, <2>5, <2>6 DEF AgentRow, s
<1> QED
  BY <1>1, <1>2

-----------------------------------------------------------------------------
(* The pages                                                               *)

LEMMA OidcType == ASSUME TypeOK PROVE Oidc \in Triple \cup {None}
  BY ReadValues DEF Oidc, Triple

\* What the console reads as its connection.
LEMMA HeadscaleType ==
  ASSUME TypeOK
  PROVE  /\ UrlOf("url") \in Url \cup {None} /\ UrlOf("login") \in Url \cup {None}
         /\ UrlOf("agentUrl") \in Url \cup {None}
         /\ Headscale # None => Headscale.key \in Key
<1>1. /\ Read("url") \in Url \cup {Bad, None} /\ Read("agentUrl") \in Url \cup {Bad, None}
      /\ Read("login") \in Url \cup {None} /\ Read("key") \in Key \cup {None}
  BY ReadValues
<1> QED
  BY <1>1, ConfigAssumption DEF UrlOf, Headscale

LEMMA SetupKeeps ==
  ASSUME NEW i, Instance = {i}, TypeOK, Invariant, NEW r \in Operator, NEW a \in Instance,
         NEW url \in Url \cup {Bad}, NEW key \in Key, NEW p \in Provider \cup {Bad, None},
         CompleteSetup(r, a, url, key, p)
  PROVE  TypeOK' /\ Invariant'
<1> DEFINE c == [url |-> url, key |-> key, login |-> "keep"]
           want == Asked(c, IF p = None THEN EnvOidc ELSE <<p, p, p>>)
           h == HeadscaleWrites(c)  t == OidcWrites(p)
<1>1. Begin(r, a, "setup", h \o t, want)
  BY DEF CompleteSetup
<1>2. /\ want.url = url /\ want.key = key
      /\ want.login = IF UrlOf("login") = None THEN url ELSE UrlOf("login")
      /\ want.oidc = IF p = None THEN EnvOidc ELSE <<p, p, p>>
      /\ want = [url |-> want.url, key |-> want.key, oidc |-> want.oidc, login |-> want.login]
  BY DEF Asked
<1>3. /\ c.url = url /\ c.key = key /\ c.login = "keep"
  OBVIOUS
<1> HIDE DEF c, want
<1>4. /\ h \in Seq(Statement) /\ Delivers("setup", want, h) /\ Ordered(h)
      /\ url = Bad => h = <<Throw>>
      /\ url # Bad => /\ "url" \in Pending(h) /\ "key" \in Pending(h)
                      /\ h # <<>> /\ Head(h).row = "url"
      /\ \A row \in HeadscaleRow :
           row \in Pending(h) \/ "throw" \in Pending(h) \/ Meets(want, row, Read(row))
  BY <1>2, <1>3, HeadscalePlan DEF HeadscaleOp
<1>5. /\ t \in Seq(Statement) /\ Delivers("setup", want, t) /\ Ordered(t)
      /\ "url" \notin Pending(t) /\ "key" \notin Pending(t)
      /\ \A row \in OidcRow : row \in Pending(t) \/ "throw" \in Pending(t)
      /\ want.oidc \in Triple \cup {None}
  BY <1>2, OidcPlan
<1> HIDE DEF h, t
<1>6. /\ h \o t \in Seq(Statement) /\ Pending(h \o t) = Pending(h) \cup Pending(t)
      /\ Ordered(h \o t) /\ Delivers("setup", want, h \o t)
  <2>1. /\ h \in Seq(Statement) /\ Delivers("setup", want, h) /\ Ordered(h)
        /\ t \in Seq(Statement) /\ Delivers("setup", want, t)
        /\ "url" \notin Pending(t) /\ "key" \notin Pending(t)
    BY <1>4, <1>5
  <2> QED
    BY ONLY <2>1, Concatenation
<1>7. Covered("setup", want, h \o t)
  <2>1. Goals("setup") = HeadscaleRow \cup OidcRow
    BY DEF Goals, AgentOp
  <2> QED
    BY <1>4, <1>5, <1>6, <2>1 DEF Covered
<1>8. url = Bad => h \o t # <<>> /\ Head(h \o t) = Throw
  BY <1>4, <1>5, HeadConcat, JustThrow
<1>9. want \in Want("setup")
  BY <1>2, <1>5, HeadscaleType DEF Want, WantHeadscale, HeadscaleOp
<1> QED
  BY <1>1, <1>2, <1>4, <1>6, <1>7, <1>8, <1>9, BeginKeeps DEF Op, HeadscaleOp, AgentOp

LEMMA ConnectionKeeps ==
  ASSUME NEW i, Instance = {i}, TypeOK, Invariant, NEW r \in Operator, NEW a \in Instance,
         NEW url \in Url \cup {Bad}, NEW key \in Key \cup {""},
         NEW login \in Url \cup {Bad, "keep", ""},
         SaveConnection(r, a, url, key, login)
  PROVE  TypeOK' /\ Invariant'
<1> DEFINE c == [url |-> url, login |-> login, key |-> IF key = "" THEN Headscale.key ELSE key]
           want == Asked(c, Oidc)
           h == HeadscaleWrites(c)
<1>1. Begin(r, a, "connection", h, want)
  BY DEF SaveConnection
<1>2. /\ want.url = url /\ want.key = c.key /\ want.oidc = Oidc
      /\ want.login = CASE login = "keep" -> IF UrlOf("login") = None THEN url ELSE UrlOf("login")
                        [] login = "" -> url
                        [] OTHER -> login
      /\ want = [url |-> want.url, key |-> want.key, oidc |-> want.oidc, login |-> want.login]
  BY DEF Asked
<1>3. c.url = url /\ c.login = login /\ c.key \in Key
  BY HeadscaleType DEF SaveConnection
<1> HIDE DEF c, want
<1>4. /\ h \in Seq(Statement) /\ Delivers("connection", want, h) /\ Ordered(h)
      /\ url = Bad => h = <<Throw>>
      /\ url # Bad => "url" \in Pending(h) /\ "key" \in Pending(h)
      /\ \A row \in HeadscaleRow :
           row \in Pending(h) \/ "throw" \in Pending(h) \/ Meets(want, row, Read(row))
  BY <1>2, <1>3, HeadscalePlan DEF HeadscaleOp
<1> HIDE DEF h
<1>5. Covered("connection", want, h)
  BY <1>4 DEF Covered, Goals, AgentOp
<1>6. url = Bad => h # <<>> /\ Head(h) = Throw
  BY <1>4, JustThrow
<1>7. want.login \in Url \cup {Bad}
  BY <1>2, HeadscaleType, ConfigAssumption
<1>8. want \in Want("connection")
  BY <1>2, <1>3, <1>7, OidcType DEF Want, WantHeadscale, HeadscaleOp
<1> QED
  BY <1>1, <1>2, <1>4, <1>5, <1>6, <1>8, BeginKeeps DEF Op, HeadscaleOp, AgentOp

LEMMA AgentKeeps ==
  ASSUME NEW i, Instance = {i}, TypeOK, Invariant, NEW r \in Operator, NEW a \in Instance,
         NEW op \in AgentOp, NEW want, NEW c,
         c.url \in Url \cup {Bad}, c.secret \in Key \cup {"keep", ""}, c.on \in BOOLEAN,
         want = [url |-> want.url, secret |-> want.secret, on |-> want.on],
         want.url = c.url, want.on = c.on,
         want.secret = CASE c.secret = "keep" -> Read("agentSecret")
                         [] c.secret = "" -> env["agentSecret"]
                         [] OTHER -> c.secret,
         Begin(r, a, op, AgentWrites(c), want)
  PROVE  TypeOK' /\ Invariant'
<1> DEFINE s == AgentWrites(c)
<1>1. /\ s \in Seq(Statement) /\ Delivers(op, want, s) /\ Ordered(s)
      /\ c.url = Bad => s = <<Throw>>
      /\ c.url # Bad => "throw" \notin Pending(s)
      /\ \A row \in AgentRow :
           row \in Pending(s) \/ "throw" \in Pending(s) \/ Meets(want, row, Read(row))
  BY AgentPlan
<1> HIDE DEF s
<1>2. Goals(op) = AgentRow /\ op \notin HeadscaleOp /\ op # "connection" /\ op \in Op
  BY DEF Goals, AgentOp, HeadscaleOp, Op
<1>3. Covered(op, want, s)
  BY <1>1, <1>2 DEF Covered
<1>4. c.url = Bad => s # <<>> /\ Head(s) = Throw
  BY <1>1, JustThrow
<1>5. want.secret \in Key \cup {None}
  <2>1. Read("agentSecret") \in Key \cup {None} /\ env["agentSecret"] \in Key \cup {None}
    BY ReadValues, EnvValues DEF TypeOK
  <2> QED
    BY <2>1, ConfigAssumption
<1>6. want \in Want(op)
  BY <1>2, <1>5 DEF Want, WantAgent
<1> QED
  BY <1>1, <1>2, <1>3, <1>4, <1>6, BeginKeeps DEF s

LEMMA SaveAgentKeeps ==
  ASSUME NEW i, Instance = {i}, TypeOK, Invariant, NEW r \in Operator, NEW a \in Instance,
         NEW url \in Url \cup {Bad}, NEW secret \in Key \cup {"keep", ""}, NEW on \in BOOLEAN,
         SaveAgent(r, a, url, secret, on)
  PROVE  TypeOK' /\ Invariant'
<1> DEFINE c == [url |-> url, secret |-> secret, on |-> on]
           want == [url |-> url, on |-> on,
                    secret |-> CASE secret = "keep" -> Agent.secret
                                 [] secret = "" -> env["agentSecret"]
                                 [] OTHER -> secret]
<1>1. Begin(r, a, "agent", AgentWrites(c), want)
  BY DEF SaveAgent
<1>2. Agent.secret = Read("agentSecret")
  BY DEF Agent
<1>3. /\ want = [url |-> want.url, secret |-> want.secret, on |-> want.on]
      /\ want.url = url /\ want.on = on
      /\ want.secret = CASE secret = "keep" -> Read("agentSecret")
                         [] secret = "" -> env["agentSecret"]
                         [] OTHER -> secret
  BY <1>2
<1>4. c.url = url /\ c.secret = secret /\ c.on = on
  OBVIOUS
<1> HIDE DEF c, want
<1> QED
  BY <1>1, <1>3, <1>4, AgentKeeps DEF AgentOp

LEMMA ToggleKeeps ==
  ASSUME NEW i, Instance = {i}, TypeOK, Invariant, NEW r \in Operator, NEW a \in Instance,
         NEW on \in BOOLEAN, SetAgentEnabled(r, a, on)
  PROVE  TypeOK' /\ Invariant'
<1> DEFINE c == [url |-> Agent.url, secret |-> "keep", on |-> on]
           want == [Agent EXCEPT !.on = on]
<1>1. Begin(r, a, "toggle", AgentWrites(c), want) /\ Agent.url # None
  BY DEF SetAgentEnabled
<1>2. /\ want = [url |-> want.url, secret |-> want.secret, on |-> want.on]
      /\ want.url = UrlOf("agentUrl") /\ want.secret = Read("agentSecret") /\ want.on = on
  BY DEF Agent
<1>3. c.url = UrlOf("agentUrl") /\ c.secret = "keep" /\ c.on = on /\ c.url \in Url
  BY <1>1, HeadscaleType DEF Agent
<1> HIDE DEF c, want
<1> QED
  BY <1>1, <1>2, <1>3, AgentKeeps DEF AgentOp

LEMMA ClearKeeps ==
  ASSUME NEW i, Instance = {i}, TypeOK, Invariant, NEW r \in Operator, NEW a \in Instance,
         ClearOidc(r, a)
  PROVE  TypeOK' /\ Invariant'
<1> DEFINE s == OidcWrites(None)  want == [oidc |-> EnvOidc]
<1>1. Begin(r, a, "clearOidc", s, want)
  BY DEF ClearOidc
<1>2. want.oidc = EnvOidc /\ want = [oidc |-> want.oidc]
  OBVIOUS
<1> HIDE DEF want
<1>3. /\ s \in Seq(Statement) /\ Delivers("clearOidc", want, s) /\ Ordered(s)
      /\ \A row \in OidcRow : row \in Pending(s) \/ "throw" \in Pending(s)
      /\ want.oidc \in Triple \cup {None}
  BY <1>2, OidcPlan
<1> HIDE DEF s
<1>4. /\ Goals("clearOidc") = OidcRow /\ "clearOidc" \in Op
      /\ "clearOidc" \notin HeadscaleOp /\ "clearOidc" \notin AgentOp
  BY DEF Goals, AgentOp, HeadscaleOp, Op
<1>5. Covered("clearOidc", want, s)
  BY <1>3, <1>4 DEF Covered
<1>6. want \in Want("clearOidc")
  BY <1>2, <1>3, <1>4 DEF Want, WantOidc
<1> QED
  BY <1>1, <1>3, <1>4, <1>5, <1>6, BeginKeeps

LEMMA SubmitKeeps ==
  ASSUME NEW i, Instance = {i}, TypeOK, Invariant, NEW r \in Operator, NEW a \in Instance,
         Submit(r, a)
  PROVE  TypeOK' /\ Invariant'
<1>1. CASE \E u \in Url \cup {Bad}, k \in Key, p \in Provider \cup {Bad, None} :
             CompleteSetup(r, a, u, k, p)
  BY <1>1, SetupKeeps
<1>2. CASE \E u \in Url \cup {Bad}, k \in Key \cup {""}, l \in Url \cup {Bad, "keep", ""} :
             SaveConnection(r, a, u, k, l)
  BY <1>2, ConnectionKeeps
<1>3. CASE \E u \in Url \cup {Bad}, s \in Key \cup {"keep", ""}, on \in BOOLEAN :
             SaveAgent(r, a, u, s, on)
  BY <1>3, SaveAgentKeeps
<1>4. CASE \E on \in BOOLEAN : SetAgentEnabled(r, a, on)
  BY <1>4, ToggleKeeps
<1>5. CASE ClearOidc(r, a)
  BY <1>5, ClearKeeps
<1> QED
  BY <1>1, <1>2, <1>3, <1>4, <1>5 DEF Submit

\* A new start finds the rows as they are.
LEMMA RedeployKeeps ==
  ASSUME TypeOK, Invariant, NEW e \in Environments, NEW m \in Master \cup {None}, Redeploy(e, m)
  PROVE  TypeOK' /\ Invariant'
<1>1. UNCHANGED <<store, setting, req, torn, given, choice>> /\ env' = e /\ master' = m
  BY DEF Redeploy
<1>2. \A r \in Operator : ~Writing(r)
  BY DEF Redeploy, Writing
<1>3. TypeOK'
  BY <1>1, SameEnvironments DEF TypeOK, Writing
<1>4. OneWriter' /\ \A r \in Operator : ~Writing(r)'
  BY <1>1, <1>2 DEF OneWriter, Writing
<1>5. HeadscaleHolds' /\ SwitchHolds'
  BY <1>1, <1>2 DEF Invariant, HeadscaleHolds, SwitchHolds, Settled
<1> QED
  BY <1>3, <1>4, <1>5 DEF Invariant

-----------------------------------------------------------------------------
(* The theorems                                                            *)

LEMMA Initially == Init => TypeOK /\ Invariant
<1> SUFFICES ASSUME Init PROVE TypeOK /\ Invariant
  OBVIOUS
<1>1. Idle.pc = "idle"
  BY DEF Idle
<1>2. \A r \in Operator : ~Writing(r)
  BY <1>1 DEF Init, Writing
<1>3. TypeOK
  BY <1>2 DEF Init, TypeOK
<1>4. Invariant
  BY <1>2 DEF Init, Invariant, OneWriter, HeadscaleHolds, SwitchHolds, Settled, Row
<1> QED
  BY <1>3, <1>4

LEMMA Always ==
  ASSUME NEW i, Instance = {i}
  PROVE  TypeOK /\ Invariant /\ [Next]_vars => TypeOK' /\ Invariant'
<1> SUFFICES ASSUME TypeOK, Invariant, [Next]_vars PROVE TypeOK' /\ Invariant'
  OBVIOUS
<1>1. ASSUME NEW r \in Operator, NEW a \in Instance, Submit(r, a) PROVE TypeOK' /\ Invariant'
  BY <1>1, SubmitKeeps
<1>2. ASSUME NEW r \in Operator, Write(r) PROVE TypeOK' /\ Invariant'
  BY <1>2, WriteType, WriteInvariant
<1>3. ASSUME NEW r \in Operator, Refuse(r) \/ Succeed(r) \/ Abort(r) PROVE TypeOK' /\ Invariant'
  BY <1>3, EndKeeps
<1>4. ASSUME NEW e \in Environments, NEW m \in Master \cup {None}, Redeploy(e, m)
      PROVE  TypeOK' /\ Invariant'
  BY <1>4, RedeployKeeps
<1>5. CASE UNCHANGED vars
  <2>1. TypeOK'
    BY <1>5, SameEnvironments DEF vars, TypeOK, Writing
  <2>2. \A op, want, s : Delivers(op, want, s)' <=> Delivers(op, want, s)
    BY <1>5 DEF vars, Delivers, Apt
  <2>3. (\A op, want, s : Covered(op, want, s)' <=> Covered(op, want, s)) /\ Oidc' = Oidc
    BY <1>5 DEF vars, Covered, Read, Oidc
  <2>4. \A r \in Operator : Underway(req[r])' <=> Underway(req[r])
    BY <1>5, <2>2, <2>3 DEF vars, Underway, RefusedFirst, PairWritten
  <2>5. OneWriter' /\ (\A r \in Operator : Writing(r)' => Underway(req[r])')
    BY <1>5, <2>4 DEF vars, Invariant, OneWriter, Writing
  <2>6. HeadscaleHolds' /\ SwitchHolds'
    BY <1>5 DEF vars, Invariant, HeadscaleHolds, SwitchHolds, Settled, Writing
  <2> QED
    BY <2>1, <2>5, <2>6 DEF Invariant
<1> QED
  BY <1>1, <1>2, <1>3, <1>4, <1>5 DEF Next, Step

\* Types, for a single process.
THEOREM TypeCorrect ==
  ASSUME NEW i, Instance = {i}
  PROVE  Spec => []TypeOK
<1> QED
  BY Initially, Always, PTL DEF Spec

LEMMA Invariantly ==
  ASSUME NEW i, Instance = {i}
  PROVE  Spec => [](TypeOK /\ Invariant)
<1> QED
  BY Initially, Always, PTL DEF Spec

\* getConfig never joins the URL of one save with the key of another, nor a stored
\* half with the environment's, through refused saves, rotated secrets and new
\* environments, unless a process died within a save that no later save has mended.
THEOREM PairsAreOneSaves ==
  ASSUME NEW i, Instance = {i}
  PROVE  Spec => []ConnectionPaired
<1>1. TypeOK /\ Invariant => ConnectionPaired
  <2> SUFFICES ASSUME TypeOK, Invariant, Quiet, "headscale" \notin torn, Headscale # None
               PROVE  <<Headscale.url, Headscale.key>> \in {given, <<env["url"], env["key"]>>}
    BY DEF ConnectionPaired
  <2>1. Settled
    BY DEF Invariant, HeadscaleHolds, Quiet, Writing
  <2>2. /\ Headscale.url = Read("url") /\ Headscale.key = Read("key")
        /\ Read("url") # None /\ Read("key") # None
    BY DEF Headscale, UrlOf
  <2>3. CASE store["url"] = None /\ store["key"] = None
    BY <2>2, <2>3 DEF Read
  <2>4. CASE /\ store["url"] # None /\ store["key"] # None
             /\ given = <<store["url"].text, store["key"].text>>
    BY <2>2, <2>4 DEF Read
  <2> QED
    BY <2>1, <2>3, <2>4 DEF Settled
<1> QED
  BY <1>1, Invariantly, PTL

\* What a save reports as done is what getConfig returns from then on, whatever it
\* found: rows of a save cut short, secrets sealed under another key, the environment.
THEOREM SavesAreEffective ==
  ASSUME NEW i, Instance = {i}
  PROVE  Spec => []SavedIsEffective
<1>1. TypeOK /\ Invariant => SavedIsEffective
  <2> SUFFICES ASSUME TypeOK, Invariant, NEW r \in Operator, Writing(r), req[r].todo = <<>>
               PROVE  Effective(req[r].op) = req[r].want
    BY DEF SavedIsEffective, Writing
  <2> DEFINE q == req[r]
  <2>1. q \in Request /\ q.want \in Want(q.op) /\ Underway(q)
    BY WriterFacts
  <2>2. Pending(q.todo) = {}
    BY DEF Pending
  <2>3. \A row \in Goals(q.op) : Meets(q.want, row, Read(row))
    BY <2>1, <2>2 DEF Underway, Covered
  <2>4. q.op # "clearOidc" => q.want.url # Bad
    BY <2>1 DEF Underway, RefusedFirst
  <2> HIDE DEF q
  <2>5. q.op \in {"setup", "clearOidc"} => Oidc = q.want.oidc
    <3> HAVE q.op \in {"setup", "clearOidc"}
    <3>1. /\ Meets(q.want, "issuer", Read("issuer")) /\ Meets(q.want, "client", Read("client"))
          /\ Meets(q.want, "secret", Read("secret"))
      BY <2>3 DEF Goals, AgentOp, OidcRow
    <3>2. q.want.oidc \in Triple \cup {None}
      BY <2>1 DEF Want, WantHeadscale, WantOidc, HeadscaleOp, AgentOp
    <3>3. CASE q.want.oidc = None
      BY <3>1, <3>3 DEF Meets, Oidc
    <3>4. CASE q.want.oidc # None
      <4>1. /\ q.want.oidc[1] # None /\ q.want.oidc[2] # None /\ q.want.oidc[3] # None
            /\ q.want.oidc = <<q.want.oidc[1], q.want.oidc[2], q.want.oidc[3]>>
        <5>1. PICK x, y, z \in Provider \cup {Bad} : q.want.oidc = <<x, y, z>>
          BY <3>2, <3>4 DEF Triple
        <5>2. x # None /\ y # None /\ z # None
          BY ConfigAssumption
        <5> QED
          BY <5>1, <5>2
      <4> QED
        BY <3>1, <3>4, <4>1 DEF Meets, Oidc
    <3> QED
      BY <3>3, <3>4
  <2>6. CASE q.op \in HeadscaleOp
    <3>1. q.want \in WantHeadscale /\ q.want.url \in Url
      BY <2>1, <2>4, <2>6 DEF Want, WantHeadscale, HeadscaleOp
    <3>2. Oidc = q.want.oidc
      BY <2>1, <2>5, <2>6 DEF HeadscaleOp, Underway
    <3>3. /\ Read("url") = q.want.url /\ Read("key") = q.want.key
          /\ (IF Read("login") \in {None, Bad} THEN q.want.url ELSE Read("login")) = q.want.login
      <4>1. HeadscaleRow \subseteq Goals(q.op)
        BY <2>6 DEF Goals, HeadscaleOp, AgentOp
      <4>2. /\ Meets(q.want, "url", Read("url")) /\ Meets(q.want, "key", Read("key"))
            /\ Meets(q.want, "login", Read("login"))
        BY <2>3, <4>1 DEF HeadscaleRow
      <4> QED
        BY <4>2 DEF Meets
    <3>4. Headscale = [url |-> q.want.url, key |-> q.want.key, login |-> q.want.login]
      BY <3>1, <3>3, ConfigAssumption DEF Headscale, UrlOf, WantHeadscale
    <3>5. q.want.login \in Url
      BY <3>1, <3>3, ReadValues, ConfigAssumption
    <3>6. Headscale # None
      BY <3>1, <3>4, <3>5, NoneIsNoConnection DEF WantHeadscale
    <3>7. Effective(q.op) = [url |-> Headscale.url, key |-> Headscale.key, oidc |-> Oidc,
                             login |-> Headscale.login]
      BY <2>6, <3>6 DEF Effective, HeadscaleOp
    <3> QED
      BY <3>1, <3>2, <3>4, <3>7 DEF WantHeadscale, q
  <2>7. CASE q.op \in AgentOp
    <3>1. q.want \in WantAgent /\ q.want.url \in Url
      BY <2>1, <2>4, <2>7 DEF Want, WantAgent, HeadscaleOp, AgentOp
    <3>2. Read("agentUrl") = q.want.url /\ Read("agentSecret") = q.want.secret
          /\ Read("agentOn") = q.want.on
      BY <2>3, <2>7 DEF Goals, AgentOp, AgentRow, Meets
    <3>3. Agent = [url |-> q.want.url, secret |-> q.want.secret, on |-> q.want.on]
      BY <3>1, <3>2, ConfigAssumption DEF Agent, UrlOf, WantAgent
    <3>4. Effective(q.op) = Agent
      BY <2>7 DEF Effective, AgentOp
    <3> QED
      BY <3>1, <3>3, <3>4 DEF WantAgent, q
  <2>8. CASE q.op = "clearOidc"
    <3>1. q.want \in WantOidc /\ Oidc = q.want.oidc
      BY <2>1, <2>5, <2>8 DEF Want, HeadscaleOp, AgentOp
    <3>2. Effective(q.op) = [oidc |-> Oidc]
      BY <2>8 DEF Effective
    <3> QED
      BY <3>1, <3>2 DEF WantOidc, q
  <2> QED
    BY <2>1, <2>6, <2>7, <2>8 DEF Request, Op
<1> QED
  BY <1>1, Invariantly, PTL

\* The agent stays as it was last switched, through later saves, refusals and
\* environments, unless a process died within a save of its section.
THEOREM SwitchIsKept ==
  ASSUME NEW i, Instance = {i}
  PROVE  Spec => []AgentChoiceHolds
<1>1. TypeOK /\ Invariant => AgentChoiceHolds
  <2> SUFFICES ASSUME TypeOK, Invariant, Quiet, "agent" \notin torn, choice # None
               PROVE  Agent.on = choice
    BY DEF AgentChoiceHolds
  <2>1. store["agentOn"] = [text |-> choice, under |-> None]
    BY DEF Invariant, SwitchHolds, Quiet, Writing
  <2>2. choice \in BOOLEAN /\ store["agentOn"] # None
    BY <2>1, NoneIsNoRow DEF TypeOK, AnyText
  <2>3. Read("agentOn") = choice
    BY <2>1, <2>2 DEF Read
  <2> QED
    BY <2>2, <2>3 DEF Agent
<1> QED
  BY <1>1, Invariantly, PTL
=============================================================================
