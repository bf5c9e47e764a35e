---------------------------- MODULE ConsoleProofs ----------------------------
(***************************************************************************)
(* Theorems about the browser side: the terminal and its bridge            *)
(* (SshTerminal), the forms with a draft (Forms), the dialogs (Dialogs)    *)
(* and the pages that only read (Overview), for any sizes, outputs,        *)
(* values, machines, keys and windows.                                     *)
(***************************************************************************)
EXTENDS MCConsole, SequenceTheorems, FiniteSetTheorems, TLAPS

-----------------------------------------------------------------------------
(* The terminal: types and the inductive invariant                         *)

ToAgent == {Key, Closing} \cup {Resize(s) : s \in Size}
ToBrowser == {"open", "out", "error", "exit", "close", "fail"}

SshTypeOK ==
  /\ mine \in BOOLEAN /\ shown \in ConnectionState /\ term \in Size
  /\ socket \in {"minting", "connecting", "open", "closed"} /\ seen \in Nat
  /\ bridge \in {"none", "asked", "dial", "session", "bridge", "done"}
  /\ pump \in {"off", "reading", "writing", "ended"}
  /\ waiter \in {"off", "waiting", "ended"}
  /\ shell \in [on : {"none", "running", "exited", "killed"}, pty : Size \cup {Initial},
                printed : Nat, unread : Nat]
  /\ up \in Seq(ToAgent) /\ down \in Seq(ToBrowser)

\* Nothing more is written once the connection has ended.
Cut(frames) == \E k \in 1 .. Len(frames) : frames[k] \in {"close", "fail"}

Report == {"exit", "error"}

\* An "open" comes first, and a report last but one, before the close.
Shape(frames) ==
  /\ \A k \in 1 .. Len(frames) : frames[k] = "open" => k = 1
  /\ \A k \in 1 .. Len(frames) : frames[k] \in {"close", "fail"} => k = Len(frames)
  /\ \A k \in 1 .. Len(frames) : frames[k] \in Report =>
       k + 1 = Len(frames) /\ frames[k + 1] = "close"

\* Where the run stands at both ends.
Stage ==
  /\ socket = "minting" => bridge = "none"
  /\ bridge \in {"none", "asked"} => down = <<>>
  /\ mine /\ socket = "closed" => down = <<>>
  /\ bridge \in {"none", "asked", "dial", "session"} => pump = "off"
  /\ shell.on = "running" => bridge = "bridge"
  /\ waiter = "ended" => shell.on # "running" /\ shell.unread = 0
  /\ (\E k \in 1 .. Len(down) : down[k] = "exit") => bridge = "done"
  /\ Shape(down)

\* Outputs among the first n frames.
Outputs(frames, n) == Cardinality({k \in 1 .. n : frames[k] = "out"})

\* What the shell printed is seen, on the way or unread, until the connection is cut.
Counted ==
  /\ mine /\ socket # "closed" /\ ~Cut(down) =>
       seen + Outputs(down, Len(down)) + shell.unread = shell.printed
  /\ mine => \A k \in 1 .. Len(down) : down[k] = "exit" =>
       seen + Outputs(down, k) = shell.printed

\* The last size on its way is the terminal's; without one the pty has it.
IsResize(frame) == frame[1] = "resize"
Follows(frames, pty, size) ==
  \/ (\A k \in 1 .. Len(frames) : ~IsResize(frames[k])) /\ pty = size
  \/ \E k \in 1 .. Len(frames) :
       frames[k] = Resize(size) /\ \A j \in k + 1 .. Len(frames) : ~IsResize(frames[j])

Synced ==
  mine /\ socket = "open" /\ bridge # "done" /\ pump # "ended"
    /\ (\A k \in 1 .. Len(up) : up[k] # Closing)
  => Follows(up, shell.pty, term)

\* An error on the screen is the end of the run's connection.
ErrorEnds ==
  mine /\ shown = "error" =>
    /\ socket = "closed" \/ Cut(down)
    /\ \A k \in 1 .. Len(down) : down[k] \notin {"open", "exit"}

SshInvariant == NoSocketLeft /\ Stage /\ Counted /\ Synced /\ ErrorEnds

-----------------------------------------------------------------------------
(* Frames under way                                                        *)

\* What is left after the first frame: each moves up by one.
LEMMA Rest ==
  ASSUME NEW S, NEW s \in Seq(S), s # <<>>
  PROVE  /\ Head(s) = s[1] /\ s[1] \in S /\ Len(s) \in Nat \ {0}
         /\ Tail(s) \in Seq(S) /\ Len(Tail(s)) = Len(s) - 1
         /\ \A k \in 1 .. Len(s) - 1 : k + 1 \in 1 .. Len(s) /\ Tail(s)[k] = s[k + 1]
BY HeadTailProperties, EmptySeq, SMT

\* A sequence and what is written behind it.
LEMMA Joined ==
  ASSUME NEW S, NEW s \in Seq(S), NEW t \in Seq(S)
  PROVE  /\ s \o t \in Seq(S) /\ Len(s \o t) = Len(s) + Len(t)
         /\ \A k \in 1 .. Len(s) : (s \o t)[k] = s[k]
         /\ \A k \in 1 .. Len(t) : (s \o t)[Len(s) + k] = t[k]
         /\ \A k \in 1 .. Len(s) + Len(t) : k \in 1 .. Len(s) \/ k - Len(s) \in 1 .. Len(t)
BY ConcatProperties, LenProperties, SMT

LEMMA Counts ==
  ASSUME NEW s, NEW n \in Nat
  PROVE  Outputs(s, n) \in Nat /\ IsFiniteSet({k \in 1 .. n : s[k] = "out"})
<1> DEFINE T == {k \in 1 .. n : s[k] = "out"}
<1>1. IsFiniteSet(1 .. n)
  BY FS_Interval
<1>2. IsFiniteSet(T)
  BY <1>1, FS_Subset
<1>3. Cardinality(T) \in Nat
  BY <1>2, FS_CardinalityType
<1> QED BY <1>2, <1>3 DEF Outputs

\* Sequences that agree so far hold as many outputs so far.
LEMMA SameOutputs ==
  ASSUME NEW s, NEW t, NEW n, \A k \in 1 .. n : s[k] = t[k]
  PROVE  Outputs(s, n) = Outputs(t, n)
<1>1. {k \in 1 .. n : s[k] = "out"} = {k \in 1 .. n : t[k] = "out"}
  OBVIOUS
<1> QED BY <1>1 DEF Outputs

\* One frame further.
LEMMA OneMore ==
  ASSUME NEW s, NEW n \in Nat
  PROVE  Outputs(s, n + 1) = Outputs(s, n) + (IF s[n + 1] = "out" THEN 1 ELSE 0)
<1> DEFINE T == {k \in 1 .. n : s[k] = "out"}
           U == {k \in 1 .. n + 1 : s[k] = "out"}
<1>1. IsFiniteSet(T) /\ Cardinality(T) \in Nat
  BY Counts DEF Outputs
<1>2. CASE s[n + 1] = "out"
  <2>1. U = T \cup {n + 1} /\ n + 1 \notin T
    BY <1>2, SMT
  <2>2. Cardinality(U) = Cardinality(T) + 1
    BY <1>1, <2>1, FS_AddElement
  <2> QED BY <1>2, <2>2 DEF Outputs
<1>3. CASE s[n + 1] # "out"
  <2>1. U = T
    BY <1>3, SMT
  <2> QED BY <1>1, <1>3, <2>1 DEF Outputs
<1> QED BY <1>2, <1>3

LEMMA NoOutputs == ASSUME NEW s PROVE Outputs(s, 0) = 0
<1>1. {k \in 1 .. 0 : s[k] = "out"} = {}
  BY SMT
<1> QED BY <1>1, FS_EmptySet DEF Outputs

\* The first frame received, the outputs counted are fewer by that frame.
LEMMA OneReceived ==
  ASSUME NEW S, NEW s \in Seq(S), s # <<>>, NEW n \in 1 .. Len(s)
  PROVE  Outputs(s, n) = Outputs(Tail(s), n - 1) + (IF Head(s) = "out" THEN 1 ELSE 0)
<1> DEFINE t == Tail(s)
           A == {k \in 1 .. n - 1 : t[k] = "out"}
           B == {k \in 2 .. n : s[k] = "out"}
           U == {k \in 1 .. n : s[k] = "out"}
           f == [k \in A |-> k + 1]
<1>1. n \in Nat /\ n - 1 \in Nat /\ Len(s) \in Nat
  BY Rest, SMT
<1>2. IsFiniteSet(A) /\ Cardinality(A) \in Nat
  BY <1>1, Counts DEF Outputs
<1>3. \A k \in 1 .. n - 1 : t[k] = s[k + 1]
  BY <1>1, Rest, SMT
<1>4. f \in Bijection(A, B)
  <2>1. f \in [A -> B]
    BY <1>1, <1>3, SMT
  <2>2. \A j, k \in A : f[j] = f[k] => j = k
    BY <1>1, SMT
  <2>3. \A b \in B : \E k \in A : f[k] = b
    <3> TAKE b \in B
    <3>1. b - 1 \in A /\ f[b - 1] = b
      BY <1>1, <1>3, SMT
    <3> QED BY <3>1
  <2> QED BY <2>1, <2>2, <2>3, Zenon DEF Bijection, Injection, Surjection, IsInjective
<1>5. IsFiniteSet(B) /\ Cardinality(B) = Cardinality(A)
  <2> HIDE DEF A, B, f
  <2>1. ExistsBijection(A, B)
    BY <1>4 DEF ExistsBijection
  <2> QED BY <1>2, <2>1, FS_Bijection
<1>6. Head(s) = s[1]
  BY Rest
<1>7. CASE Head(s) = "out"
  <2>1. U = B \cup {1} /\ 1 \notin B
    BY <1>1, <1>6, <1>7, SMT
  <2>2. Cardinality(U) = Cardinality(B) + 1
    BY <1>5, <2>1, FS_AddElement
  <2>3. Outputs(s, n) = Cardinality(U) /\ Outputs(t, n - 1) = Cardinality(A)
    BY DEF Outputs
  <2> QED BY <1>5, <1>7, <2>2, <2>3
<1>8. CASE Head(s) # "out"
  <2>1. U = B
    BY <1>1, <1>6, <1>8, SMT
  <2>3. Outputs(s, n) = Cardinality(U) /\ Outputs(t, n - 1) = Cardinality(A)
    BY DEF Outputs
  <2> HIDE DEF A, B, U
  <2> QED BY <1>2, <1>5, <1>8, <2>1, <2>3
<1> QED BY <1>7, <1>8

\* What receiving the first frame leaves of a well-formed run.
LEMMA AfterFirst ==
  ASSUME NEW s \in Seq(ToBrowser), s # <<>>, Shape(s)
  PROVE  /\ Shape(Tail(s)) /\ \A k \in 1 .. Len(Tail(s)) : Tail(s)[k] # "open"
         /\ Head(s) \notin {"close", "fail"} => (Cut(Tail(s)) <=> Cut(s))
         /\ Head(s) \in {"close", "fail"} => Tail(s) = <<>>
         /\ Head(s) \in Report => Tail(s) = <<"close">>
<1> DEFINE t == Tail(s)
<1>1. /\ Head(s) = s[1] /\ Len(s) \in Nat \ {0} /\ t \in Seq(ToBrowser) /\ Len(t) = Len(s) - 1
      /\ \A k \in 1 .. Len(t) : k + 1 \in 1 .. Len(s) /\ t[k] = s[k + 1]
  BY Rest
<1> HIDE DEF t
<1>2. \A k \in 1 .. Len(t) : t[k] # "open"
  BY <1>1, SMT DEF Shape
<1>3. \A k \in 1 .. Len(t) : t[k] \in {"close", "fail"} => k = Len(t)
  BY <1>1, SMT DEF Shape
<1>4. ASSUME NEW k \in 1 .. Len(t), t[k] \in Report
      PROVE  k + 1 = Len(t) /\ t[k + 1] = "close"
  <2>1. k + 1 \in 1 .. Len(s) /\ s[k + 1] \in Report
    BY <1>1, <1>4
  <2>2. k + 2 = Len(s) /\ s[k + 2] = "close"
    BY <1>1, <2>1, SMT DEF Shape
  <2>3. k + 1 \in 1 .. Len(t)
    BY <1>1, <2>2, SMT
  <2> QED BY <1>1, <2>2, <2>3, SMT
<1>5. Shape(t)
  BY <1>2, <1>3, <1>4 DEF Shape
<1>6. ASSUME Head(s) \notin {"close", "fail"}
      PROVE  Cut(t) <=> Cut(s)
  <2>1. ASSUME NEW k \in 1 .. Len(s), s[k] \in {"close", "fail"}
        PROVE  k - 1 \in 1 .. Len(t) /\ t[k - 1] = s[k]
    BY <1>1, <1>6, <2>1, SMT
  <2> QED BY <1>1, <2>1, SMT DEF Cut
<1>7. ASSUME Head(s) \in {"close", "fail"}
      PROVE  t = <<>>
  <2>1. Len(t) = 0
    BY <1>1, <1>7, SMT DEF Shape
  <2> QED BY <1>1, <2>1, EmptySeq, SMT
<1>8. ASSUME Head(s) \in Report
      PROVE  t = <<"close">>
  <2>1. Len(s) = 2 /\ s[2] = "close"
    BY <1>1, <1>8, SMT DEF Shape
  <2>2. Len(t) = 1 /\ t[1] = "close"
    BY <1>1, <2>1, SMT
  <2> QED BY <1>1, <2>2, SeqEqual, SMT
<1> QED BY <1>2, <1>5, <1>6, <1>7, <1>8 DEF t

\* Before the end there is no report: one stands right before a close.
LEMMA NoReportYet ==
  ASSUME NEW s \in Seq(ToBrowser), Shape(s), ~Cut(s)
  PROVE  \A k \in 1 .. Len(s) : s[k] \notin Report /\ s[k] \notin {"close", "fail"}
<1>1. Len(s) \in Nat
  BY LenProperties
<1>2. ASSUME NEW k \in 1 .. Len(s), s[k] \in Report
      PROVE  FALSE
  <2>1. k + 1 = Len(s) /\ s[k + 1] = "close"
    BY <1>2 DEF Shape
  <2>2. k + 1 \in 1 .. Len(s)
    BY <1>1, <2>1, SMT
  <2> QED BY <2>1, <2>2 DEF Cut
<1> QED BY <1>2 DEF Cut

\* What may be written behind frames that are not the last.
Endings == {<<"close">>, <<"fail">>, <<"exit", "close">>, <<"error", "close">>}

LEMMA OutputBehind ==
  ASSUME NEW s \in Seq(ToBrowser), Shape(s), ~Cut(s)
  PROVE  /\ s \o <<"out">> \in Seq(ToBrowser)
         /\ Shape(s \o <<"out">>) /\ ~Cut(s \o <<"out">>)
         /\ \A k \in 1 .. Len(s \o <<"out">>) : (s \o <<"out">>)[k] \notin Report
         /\ \A n \in 1 .. Len(s) : Outputs(s \o <<"out">>, n) = Outputs(s, n)
         /\ Outputs(s \o <<"out">>, Len(s \o <<"out">>)) = Outputs(s, Len(s)) + 1
<1> DEFINE t == s \o <<"out">>
<1>1. <<"out">> \in Seq(ToBrowser) /\ Len(<<"out">>) = 1
  BY DEF ToBrowser
<1>2. /\ t \in Seq(ToBrowser) /\ Len(t) = Len(s) + 1 /\ Len(s) \in Nat
      /\ \A k \in 1 .. Len(s) : t[k] = s[k]
      /\ t[Len(s) + 1] = "out"
  BY <1>1, Joined, LenProperties, SMT
<1> HIDE DEF t
<1>3. \A k \in 1 .. Len(t) : k \in 1 .. Len(s) \/ t[k] = "out"
  BY <1>2, SMT
<1>4. \A k \in 1 .. Len(s) : s[k] \notin Report /\ s[k] \notin {"close", "fail"}
  BY NoReportYet
<1>5. Shape(t) /\ ~Cut(t) /\ \A k \in 1 .. Len(t) : t[k] \notin Report
  BY <1>2, <1>3, <1>4, SMT DEF Shape, Cut, Report
<1>6. \A n \in 1 .. Len(s) : Outputs(t, n) = Outputs(s, n)
  <2> TAKE n \in 1 .. Len(s)
  <2>1. \A k \in 1 .. n : t[k] = s[k]
    BY <1>2, SMT
  <2> QED BY <2>1, SameOutputs
<1>7. Outputs(t, Len(t)) = Outputs(s, Len(s)) + 1
  <2>1. Outputs(t, Len(s)) = Outputs(s, Len(s))
    BY <1>2, SameOutputs
  <2>2. Outputs(t, Len(s) + 1) = Outputs(t, Len(s)) + 1
    BY <1>2, OneMore
  <2> QED BY <1>2, <2>1, <2>2
<1> QED BY <1>2, <1>5, <1>6, <1>7 DEF t

LEMMA EndingBehind ==
  ASSUME NEW s \in Seq(ToBrowser), Shape(s), ~Cut(s), NEW e \in Endings
  PROVE  /\ s \o e \in Seq(ToBrowser) /\ Shape(s \o e) /\ Cut(s \o e)
         /\ \A k \in 1 .. Len(s \o e) : (s \o e)[k] = "exit" =>
              /\ e = <<"exit", "close">>
              /\ Outputs(s \o e, k) = Outputs(s, Len(s))
<1> DEFINE t == s \o e
<1>1. CASE e \in {<<"close">>, <<"fail">>}
  <2>1. e \in Seq(ToBrowser) /\ Len(e) = 1 /\ e[1] \in {"close", "fail"}
    <3>1. PICK x \in {"close", "fail"} : e = <<x>>
      BY <1>1
    <3>2. x \in ToBrowser
      BY <3>1 DEF ToBrowser
    <3> QED BY <3>1, <3>2
  <2>2. /\ t \in Seq(ToBrowser) /\ Len(t) = Len(s) + 1 /\ Len(s) \in Nat
        /\ \A k \in 1 .. Len(s) : t[k] = s[k]
        /\ t[Len(s) + 1] \in {"close", "fail"}
    BY <2>1, Joined, LenProperties, SMT
  <2> HIDE DEF t
  <2>3. \A k \in 1 .. Len(t) : k \in 1 .. Len(s) \/ k = Len(s) + 1
    BY <2>2, SMT
  <2>4. \A k \in 1 .. Len(s) : s[k] \notin Report /\ s[k] \notin {"close", "fail"}
    BY NoReportYet
  <2>5. Shape(t) /\ Cut(t) /\ \A k \in 1 .. Len(t) : t[k] # "exit"
    BY <2>2, <2>3, <2>4, SMT DEF Shape, Cut, Report
  <2> QED BY <2>2, <2>5 DEF t
<1>2. CASE e \in {<<"exit", "close">>, <<"error", "close">>}
  <2>1. e \in Seq(ToBrowser) /\ Len(e) = 2 /\ e[1] \in Report /\ e[2] = "close"
    <3>1. PICK x \in Report : e = <<x, "close">>
      BY <1>2 DEF Report
    <3>2. x \in ToBrowser /\ "close" \in ToBrowser
      BY <3>1 DEF ToBrowser, Report
    <3> QED BY <3>1, <3>2
  <2>2. /\ t \in Seq(ToBrowser) /\ Len(t) = Len(s) + 2 /\ Len(s) \in Nat
        /\ \A k \in 1 .. Len(s) : t[k] = s[k]
        /\ t[Len(s) + 1] = e[1] /\ t[Len(s) + 2] = "close"
    <3>1. 1 \in 1 .. Len(e) /\ 2 \in 1 .. Len(e)
      BY <2>1, SMT
    <3>2. /\ t \in Seq(ToBrowser) /\ Len(t) = Len(s) + Len(e)
          /\ \A k \in 1 .. Len(s) : t[k] = s[k]
          /\ \A k \in 1 .. Len(e) : t[Len(s) + k] = e[k]
      <4>1. e \in Seq(ToBrowser)
        BY <2>1
      <4> QED BY <4>1, Joined, SMT
    <3>3. Len(s) \in Nat
      BY LenProperties
    <3> HIDE DEF t
    <3> QED BY <2>1, <3>1, <3>2, <3>3
  <2> HIDE DEF t
  <2>3. \A k \in 1 .. Len(t) : k \in 1 .. Len(s) \/ k = Len(s) + 1 \/ k = Len(s) + 2
    BY <2>2, SMT
  <2>4. \A k \in 1 .. Len(s) : s[k] \notin Report /\ s[k] \notin {"close", "fail"}
    BY NoReportYet
  <2>5. Cut(t)
    <3>1. Len(s) + 2 \in 1 .. Len(t)
      BY <2>2, SMT
    <3> QED BY <2>2, <3>1 DEF Cut
  <2>7. Shape(t)
    <3>1. \A k \in 1 .. Len(s) : t[k] = "open" => k = 1
      BY <2>2 DEF Shape
    <3>2. e[1] \notin {"open", "close", "fail"}
      BY <2>1 DEF Report
    <3>3. \A k \in 1 .. Len(t) : t[k] \in {"close", "fail"} => k = Len(t)
      BY <2>2, <2>3, <2>4, <3>2
    <3>4. \A k \in 1 .. Len(t) : t[k] \in Report => k = Len(s) + 1
      BY <2>2, <2>3, <2>4 DEF Report
    <3>5. \A k \in 1 .. Len(t) : t[k] = "open" => k = 1
      BY <2>2, <2>3, <3>1, <3>2, SMT
    <3> QED BY <2>2, <3>3, <3>4, <3>5 DEF Shape
  <2>6. ASSUME NEW k \in 1 .. Len(t), t[k] = "exit"
        PROVE  e = <<"exit", "close">> /\ Outputs(t, k) = Outputs(s, Len(s))
    <3>1. k = Len(s) + 1 /\ e[1] = "exit"
      BY <2>2, <2>3, <2>4, <2>6, SMT DEF Report
    <3>2. e = <<"exit", "close">>
      BY <1>2, <3>1
    <3>3. Outputs(t, Len(s)) = Outputs(s, Len(s))
      BY <2>2, SameOutputs
    <3>4. Outputs(t, Len(s) + 1) = Outputs(t, Len(s)) + 0
      BY <2>2, <3>1, OneMore
    <3>5. Outputs(s, Len(s)) \in Nat
      BY <2>2, Counts
    <3> QED BY <3>1, <3>2, <3>3, <3>4, <3>5
  <2> QED BY <2>2, <2>5, <2>6, <2>7 DEF t
<1> QED BY <1>1, <1>2 DEF Endings

-----------------------------------------------------------------------------
(* The terminal: every step keeps the types                                *)

LEMMA Writes ==
  ASSUME NEW frames, Write(frames)
  PROVE  \/ (socket = "closed" \/ Cut(down)) /\ down' = down
         \/ socket # "closed" /\ ~Cut(down) /\ down' = down \o frames
BY DEF Write, Cut

LEMMA WritesFrames ==
  ASSUME SshTypeOK, NEW frames \in Seq(ToBrowser), Write(frames)
  PROVE  down' \in Seq(ToBrowser)
<1>1. down \in Seq(ToBrowser)
  BY DEF SshTypeOK
<1>2. down \o frames \in Seq(ToBrowser)
  BY <1>1, Joined
<1> QED BY <1>1, <1>2, Writes

\* The reports and closes the agent writes.
LEMMA Frames ==
  /\ \A x \in ToBrowser : <<x>> \in Seq(ToBrowser)
  /\ \A x, y \in ToBrowser : <<x, y>> \in Seq(ToBrowser)
OBVIOUS

LEMMA DoneTypes ==
  ASSUME SshTypeOK, NEW frames \in Seq(ToBrowser), Done(frames)
  PROVE  /\ down' \in Seq(ToBrowser) /\ bridge' = "done"
         /\ shell' \in [on : {"none", "running", "exited", "killed"}, pty : Size \cup {Initial},
                        printed : Nat, unread : Nat]
         /\ shell'.pty = shell.pty /\ shell'.printed = shell.printed /\ shell'.unread = 0
         /\ shell'.on # "running"
<1>1. down' \in Seq(ToBrowser)
  BY WritesFrames DEF Done
<1>2. shell \in [on : {"none", "running", "exited", "killed"}, pty : Size \cup {Initial},
                 printed : Nat, unread : Nat]
  BY DEF SshTypeOK
<1>3. shell' = [shell EXCEPT !.on = IF @ = "running" THEN "killed" ELSE @, !.unread = 0]
  BY DEF Done
<1>4. bridge' = "done"
  BY DEF Done
<1> QED BY <1>1, <1>2, <1>3, <1>4

LEMMA SentTypes ==
  ASSUME SshTypeOK, NEW frame \in ToAgent
  PROVE  Append(up, frame) \in Seq(ToAgent)
BY AppendProperties DEF SshTypeOK

LEMMA ReceivedTypes ==
  ASSUME SshTypeOK
  PROVE  /\ up # <<>> => Tail(up) \in Seq(ToAgent)
         /\ down # <<>> => Tail(down) \in Seq(ToBrowser)
BY Rest DEF SshTypeOK

LEMMA SshTypesKept ==
  ASSUME SshTypeOK, [SshNext]_sshVars
  PROVE  SshTypeOK'
<1> USE DEF ConnectionState
<1>s. {"open", "out", "error", "exit", "close", "fail"} = ToBrowser
  BY DEF ToBrowser
<1>r. /\ Key \in ToAgent /\ Closing \in ToAgent /\ \A s \in Size : Resize(s) \in ToAgent
  BY DEF ToAgent
<1>1. CASE UNCHANGED sshVars
  BY <1>1 DEF SshTypeOK, sshVars
<1>2. CASE Cleanup
  <2>1. up' \in Seq(ToAgent)
    BY <1>2, <1>r, SentTypes DEF Cleanup, SshTypeOK
  <2> QED BY <1>2, <2>1 DEF Cleanup, SshTypeOK, agent
<1>3. CASE OtherRuns
  BY <1>3 DEF OtherRuns, SshTypeOK, agent, browser
<1>4. CASE TokenRefused \/ TokenMinted
  BY <1>4 DEF TokenRefused, TokenMinted, SshTypeOK, agent, screen
<1>5. CASE OnOpen
  <2>1. up' \in Seq(ToAgent) /\ down' \in Seq(ToBrowser)
    BY <1>5, <1>r, SentTypes, ReceivedTypes DEF OnOpen, Receive, SshTypeOK
  <2> QED BY <1>5, <2>1 DEF OnOpen, SshTypeOK, agent
<1>6. CASE OnOutput \/ OnReport \/ OnClose \/ OnError \/ Ignored
  <2>1. down' \in Seq(ToBrowser)
    BY <1>6, ReceivedTypes DEF OnOutput, OnReport, OnClose, OnError, Ignored, Receive
  <2> QED BY <1>6, <2>1, SMT
          DEF OnOutput, OnReport, OnClose, OnError, Ignored, SshTypeOK, agent, screen, browser
<1>7. ASSUME NEW s \in Size, SyncSize(s)
      PROVE  SshTypeOK'
  <2>1. up' \in Seq(ToAgent)
    BY <1>7, <1>r, SentTypes DEF SyncSize, SshTypeOK
  <2> QED BY <1>7, <2>1 DEF SyncSize, SshTypeOK, agent, browser
<1>8. CASE Type
  <2>1. up' \in Seq(ToAgent)
    BY <1>8, <1>r, SentTypes DEF Type
  <2> QED BY <1>8, <2>1 DEF Type, SshTypeOK, agent, browser, screen
<1>9. CASE Break
  <2>1. up' \in Seq(ToAgent) /\ down' \in Seq(ToBrowser)
    <3>1. up' = <<Closing>> /\ <<Closing>> \in Seq(ToAgent)
      BY <1>9, <1>r DEF Break
    <3>2. \A x \in {"close", "fail"} : <<x>> \in Seq(ToBrowser)
      BY Frames DEF ToBrowser
    <3> QED BY <1>9, <3>1, <3>2 DEF Break
  <2> QED BY <1>9, <2>1 DEF Break, SshTypeOK, agent, browser, screen
<1>10. CASE Accept
  <2>1. down' \in Seq(ToBrowser)
    BY <1>10, <1>s, Frames, WritesFrames DEF Accept
  <2>2. bridge' = "dial" /\ UNCHANGED <<mine, shown, term, socket, seen, pump, waiter, shell, up>>
    BY <1>10 DEF Accept, browser, screen
  <2> QED BY <2>1, <2>2 DEF SshTypeOK
<1>16. CASE Dialled
  BY <1>16 DEF Dialled, SshTypeOK, browser, screen
<1>11. CASE Started
  <2>1. /\ bridge' = "bridge" /\ pump' = "reading" /\ waiter' = "waiting"
        /\ shell' = [shell EXCEPT !.on = "running"]
        /\ UNCHANGED <<mine, shown, term, socket, seen, up, down>>
    BY <1>11 DEF Started, browser, screen
  <2> QED BY <2>1 DEF SshTypeOK
<1>12. CASE Refuse \/ DialFails \/ SessionFails \/ Select
  <2>1. \E frames \in Seq(ToBrowser) : Done(frames)
    BY <1>12, <1>s, Frames DEF Refuse, DialFails, SessionFails, Select, SelectWait, SelectRead
  <2> QED BY <1>12, <2>1, DoneTypes
          DEF Refuse, DialFails, SessionFails, Select, SelectWait, SelectRead, SshTypeOK, browser, screen
<1>13. CASE Pump
  <2>1. up' \in Seq(ToAgent)
    BY <1>13, ReceivedTypes
    DEF Pump, PumpKey, PumpResize, PumpEnds, WriteFails, PumpReads, SshTypeOK
  <2> QED BY <1>13, <2>1
          DEF Pump, PumpKey, PumpResize, PumpEnds, WriteFails, SshTypeOK, browser, screen
<1>14. CASE Copy
  <2>1. down' \in Seq(ToBrowser)
    BY <1>14, <1>s, Frames, WritesFrames DEF Copy
  <2>2. /\ shell.unread > 0 /\ shell' = [shell EXCEPT !.unread = @ - 1]
        /\ UNCHANGED <<mine, shown, term, socket, seen, bridge, pump, waiter, up>>
    BY <1>14 DEF Copy, browser, screen
  <2>3. shell' \in [on : {"none", "running", "exited", "killed"}, pty : Size \cup {Initial},
                    printed : Nat, unread : Nat]
    <3>1. /\ shell \in [on : {"none", "running", "exited", "killed"}, pty : Size \cup {Initial},
                        printed : Nat, unread : Nat]
          /\ shell.unread - 1 \in Nat
      BY <2>2, SMT DEF SshTypeOK
    <3> QED
      BY <2>2, <3>1
  <2> QED BY <2>1, <2>2, <2>3 DEF SshTypeOK
<1>15. CASE WaitReturns \/ Prints \/ Exits \/ Written
  <2>1. shell' \in [on : {"none", "running", "exited", "killed"}, pty : Size \cup {Initial},
                    printed : Nat, unread : Nat]
    <3>1. shell \in [on : {"none", "running", "exited", "killed"}, pty : Size \cup {Initial},
                     printed : Nat, unread : Nat]
      BY DEF SshTypeOK
    <3>2. \/ shell' = shell
          \/ shell' = [shell EXCEPT !.printed = @ + 1, !.unread = @ + 1]
          \/ shell' = [shell EXCEPT !.on = "exited"]
      BY <1>15 DEF WaitReturns, Prints, Exits, Written
    <3>3. shell.printed + 1 \in Nat /\ shell.unread + 1 \in Nat
      BY <3>1
    <3>4. CASE shell' = [shell EXCEPT !.printed = @ + 1, !.unread = @ + 1]
      BY <3>1, <3>3, <3>4
    <3>5. CASE shell' = [shell EXCEPT !.on = "exited"]
      BY <3>1, <3>5
    <3> QED BY <3>1, <3>2, <3>4, <3>5
  <2> QED BY <1>15, <2>1 DEF WaitReturns, Prints, Exits, Written, SshTypeOK, browser, screen
<1> QED BY <1>1, <1>2, <1>3, <1>4, <1>5, <1>6, <1>7, <1>8, <1>9, <1>10, <1>11, <1>12, <1>13,
           <1>14, <1>15, <1>16 DEF SshNext, Person, Events, Setup, Wait, Target

-----------------------------------------------------------------------------
(* The terminal: the stage of the run                                      *)

\* An ending is well-formed behind what the stage has, and only where it says so
\* is there an exit.
LEMMA EndsWell ==
  ASSUME SshTypeOK, Shape(down), NEW e \in Endings, Done(e)
  PROVE  Shape(down')
BY Writes, EndingBehind DEF Done, SshTypeOK

LEMMA StageKept ==
  ASSUME SshTypeOK, Stage, [SshNext]_sshVars
  PROVE  Stage'
<1>s. /\ shell \in [on : {"none", "running", "exited", "killed"}, pty : Size \cup {Initial},
                    printed : Nat, unread : Nat]
      /\ down \in Seq(ToBrowser) /\ Shape(down)
  BY DEF SshTypeOK, Stage
<1>1. CASE UNCHANGED sshVars
  BY <1>1, Zenon DEF Stage, sshVars, Shape
<1>2. CASE Person
  <2>1. /\ UNCHANGED <<agent, down>> /\ (socket' = "minting" => socket = "minting")
        /\ mine' /\ socket' = "closed" => mine /\ socket = "closed"
    BY <1>2, SMT DEF Person, Cleanup, OtherRuns, Type, SyncSize, Live, agent, browser, screen
  <2> QED BY <2>1, Zenon DEF Stage, Shape, agent
<1>3. CASE TokenRefused \/ TokenMinted
  BY <1>3, SMT DEF TokenRefused, TokenMinted, Stage, Shape, agent, screen
<1>4. CASE OnOpen \/ OnOutput \/ OnReport \/ OnClose \/ OnError \/ Ignored
  <2>1. down # <<>> /\ down' = Tail(down) /\ UNCHANGED agent
        /\ (socket' = "minting" => socket = "minting")
    BY <1>4 DEF OnOpen, OnOutput, OnReport, OnClose, OnError, Ignored, Receive, browser
  <2>4. mine' /\ socket' = "closed" => down' = <<>>
    BY <1>4, <1>s, AfterFirst
    DEF OnOpen, OnOutput, OnReport, OnClose, OnError, Ignored, Receive, Stage, browser, screen
  <2>2. Shape(down')
    BY <1>s, <2>1, AfterFirst
  <2>3. \A k \in 1 .. Len(down') : k + 1 \in 1 .. Len(down) /\ down'[k] = down[k + 1]
    BY <1>s, <2>1, Rest
  <2> QED BY <2>1, <2>2, <2>3, <2>4 DEF Stage, agent
<1>5. CASE Break
  <2>1. Shape(down') /\ \A k \in 1 .. Len(down') : down'[k] # "exit"
    <3>1. PICK x \in {"close", "fail"} : down' = <<x>>
      BY <1>5 DEF Break
    <3>2. Len(down') = 1 /\ down'[1] = x
      BY <3>1
    <3> QED BY <3>2, SMT DEF Shape, Report
  <2> QED BY <1>5, <2>1 DEF Break, Stage, Live, agent, browser
<1>6. CASE Accept
  <2>1. down = <<>> /\ down \o <<"open">> = <<"open">>
    BY <1>6, SMT DEF Accept, Stage
  <2>2. down' \in {<<>>, <<"open">>}
    BY <1>6, <2>1, Writes DEF Accept
  <2>3. Shape(down') /\ \A k \in 1 .. Len(down') : down'[k] # "exit"
    <3>1. \A k \in 1 .. Len(down') : k = 1 /\ k = Len(down') /\ down'[k] = "open"
      BY <2>2
    <3> QED BY <3>1 DEF Shape, Report
  <2>4. socket = "closed" => down' = down
    BY <1>6, Writes DEF Accept
  <2> QED BY <1>6, <2>3, <2>4 DEF Accept, Stage, browser, screen
<1>7. CASE Started \/ Dialled
  BY <1>7, <1>s DEF Started, Dialled, Stage, browser, screen
<1>8. CASE Refuse \/ DialFails \/ SessionFails \/ Select
  <2>1. PICK e \in Endings : Done(e)
    BY <1>8 DEF Refuse, DialFails, SessionFails, Select, SelectWait, SelectRead, Endings
  <2>2. e \in Seq(ToBrowser)
    BY Frames DEF Endings, ToBrowser
  <2>3. bridge' = "done" /\ shell'.on # "running" /\ shell'.unread = 0
    BY <2>1, <2>2, DoneTypes
  <2>4. Shape(down')
    BY <1>s, <2>1, EndsWell
  <2>5. UNCHANGED <<mine, socket>> /\ (socket = "closed" => down' = down)
    BY <1>8, <2>1, Writes
    DEF Refuse, DialFails, SessionFails, Select, SelectWait, SelectRead, Done, browser, screen
  <2>6. bridge # "none"
    BY <1>8 DEF Refuse, DialFails, SessionFails, Select, SelectWait, SelectRead
  <2> QED BY <2>3, <2>4, <2>5, <2>6 DEF Stage
<1>9. CASE Pump
  <2>1. /\ UNCHANGED <<mine, browser, bridge, waiter, down>>
        /\ shell'.on = shell.on /\ shell'.unread = shell.unread
        /\ pump # "off"
    BY <1>9, <1>s DEF Pump, PumpKey, PumpResize, PumpEnds, WriteFails, PumpReads, Stage, screen
  <2> QED BY <2>1 DEF Stage, browser
<1>10. CASE Copy
  <2>1. /\ bridge = "bridge" /\ waiter # "ended"
        /\ UNCHANGED <<mine, browser, bridge, pump, waiter>>
        /\ shell'.on = shell.on /\ (socket = "closed" => down' = down)
    BY <1>10, <1>s, Writes DEF Copy, Stage, screen
  <2>2. Shape(down') /\ \A k \in 1 .. Len(down') : down'[k] # "exit"
    <3>1. \A k \in 1 .. Len(down) : down[k] # "exit"
      BY <2>1 DEF Stage
    <3>2. down' = down \/ (~Cut(down) /\ down' = down \o <<"out">>)
      BY <1>10, Writes DEF Copy
    <3>3. CASE down' = down
      BY <1>s, <3>1, <3>3
    <3>4. CASE ~Cut(down) /\ down' = down \o <<"out">>
      <4>1. Shape(down') /\ \A k \in 1 .. Len(down') : down'[k] \notin Report
        BY <1>s, <3>4, OutputBehind
      <4> QED BY <4>1 DEF Report
    <3> QED BY <3>2, <3>3, <3>4
  <2> QED BY <2>1, <2>2 DEF Stage, browser
<1>11. CASE WaitReturns
  BY <1>11, Zenon DEF WaitReturns, Stage, Shape, browser, screen
<1>12. CASE Prints \/ Exits
  <2>1. /\ UNCHANGED <<mine, browser, bridge, pump, waiter, down>> /\ shell.on = "running"
        /\ shell'.on \in {"running", "exited"}
    BY <1>12, <1>s DEF Prints, Exits, screen
  <2> QED BY <2>1 DEF Stage, browser
<1>13. CASE Written
  BY <1>13, <1>s DEF Written, Stage, browser, screen
<1> QED BY <1>1, <1>2, <1>3, <1>4, <1>5, <1>6, <1>7, <1>8, <1>9, <1>10, <1>11, <1>12, <1>13
    DEF SshNext, Events, Setup, Wait, Target

-----------------------------------------------------------------------------
(* The terminal: no output is lost while the connection lasts              *)

LEMMA NoSocketKept ==
  ASSUME NoSocketLeft, [SshNext]_sshVars
  PROVE  NoSocketLeft'
<1> USE DEF NoSocketLeft, Live
<1>1. CASE UNCHANGED sshVars
  BY <1>1, Zenon DEF sshVars
<1>2. CASE Person
  BY <1>2, SMT DEF Person, Cleanup, OtherRuns, Type, SyncSize, browser, screen
<1>3. CASE Events
  BY <1>3, SMT DEF Events, TokenRefused, TokenMinted, OnOpen, OnOutput, OnReport, OnClose, OnError,
                   Ignored, browser, screen
<1>4. CASE Break \/ Setup \/ Pump \/ Wait \/ Select \/ Target
  <2>1. UNCHANGED <<mine, socket>>
    BY <1>4, Zenon DEF Break, Setup, Refuse, Accept, DialFails, SessionFails, Dialled, Started, Pump,
                PumpKey, PumpResize,
                PumpEnds, WriteFails, Wait, Copy, WaitReturns, Select, SelectWait, SelectRead, Target,
                Written, Prints, Exits, browser, screen
  <2> QED BY <2>1
<1> QED BY <1>1, <1>2, <1>3, <1>4 DEF SshNext

\* A step that leaves all that is counted.
LEMMA CountUnchanged ==
  ASSUME Counted, UNCHANGED <<seen, down, shell.unread, shell.printed>>,
         mine' => mine, socket' # "closed" => socket # "closed"
  PROVE  Counted'
<1>1. /\ mine' => mine
      /\ socket' # "closed" => socket # "closed"
      /\ seen' = seen /\ down' = down
      /\ (shell.unread)' = shell.unread /\ (shell.printed)' = shell.printed
  OBVIOUS
<1>2. mine' /\ socket' # "closed" /\ ~Cut(down') =>
        seen' + Outputs(down', Len(down')) + shell'.unread = shell'.printed
  BY <1>1 DEF Counted
<1>3. mine' => \A k \in 1 .. Len(down') : down'[k] = "exit" =>
        seen' + Outputs(down', k) = shell'.printed
  BY <1>1 DEF Counted
<1> QED BY <1>2, <1>3 DEF Counted

\* An ending cuts the count off; an exit is only written over an empty one.
LEMMA CountEnds ==
  ASSUME SshTypeOK, Stage, Counted, NEW e \in Endings, Done(e),
         UNCHANGED <<mine, socket, seen>>,
         e = <<"exit", "close">> => shell.unread = 0
  PROVE  Counted'
<1>1. e \in Seq(ToBrowser)
  BY Frames DEF Endings, ToBrowser
<1>2. shell'.printed = shell.printed /\ shell'.unread = 0
  BY <1>1, DoneTypes
<1>3. CASE (socket = "closed" \/ Cut(down)) /\ down' = down
  <2>1. mine' => \A k \in 1 .. Len(down') : down'[k] = "exit" =>
          seen' + Outputs(down', k) = shell'.printed
    BY <1>2, <1>3 DEF Counted
  <2> QED BY <1>3, <2>1 DEF Counted
<1>4. CASE socket # "closed" /\ ~Cut(down) /\ down' = down \o e
  <2>1. down \in Seq(ToBrowser) /\ Shape(down)
    BY DEF SshTypeOK, Stage
  <2>2. Cut(down')
    BY <1>4, <2>1, EndingBehind
  <2>3. ASSUME mine', NEW k \in 1 .. Len(down'), down'[k] = "exit"
        PROVE  seen' + Outputs(down', k) = shell'.printed
    <3>1. e = <<"exit", "close">> /\ Outputs(down', k) = Outputs(down, Len(down))
      BY <1>4, <2>1, <2>3, EndingBehind
    <3>2. seen + Outputs(down, Len(down)) + 0 = shell.printed
      BY <1>4, <2>3, <3>1 DEF Counted
    <3>3. seen \in Nat /\ Outputs(down, Len(down)) \in Nat
      BY <2>1, Counts, LenProperties DEF SshTypeOK
    <3> QED BY <1>2, <3>1, <3>2, <3>3
  <2> QED BY <2>2, <2>3 DEF Counted
<1> QED BY <1>3, <1>4, Writes DEF Done

LEMMA CountedKept ==
  ASSUME SshTypeOK, Stage, Counted, [SshNext]_sshVars
  PROVE  Counted'
<1>s. /\ shell \in [on : {"none", "running", "exited", "killed"}, pty : Size \cup {Initial},
                    printed : Nat, unread : Nat]
      /\ down \in Seq(ToBrowser) /\ Shape(down) /\ Len(down) \in Nat /\ seen \in Nat
      /\ \A n \in Nat : Outputs(down, n) \in Nat
  BY Counts, LenProperties DEF SshTypeOK, Stage
<1>1. CASE UNCHANGED sshVars
  BY <1>1, CountUnchanged DEF sshVars
<1>2. CASE Person
  <2>1. /\ UNCHANGED <<seen, down, shell>> /\ (mine' => mine)
        /\ (socket' # "closed" => socket # "closed")
    BY <1>2, SMT DEF Person, Cleanup, OtherRuns, Type, SyncSize, Live, agent, browser, screen
  <2> QED BY <2>1, CountUnchanged
<1>3. CASE TokenRefused \/ TokenMinted \/ WaitReturns \/ Dialled \/ Started \/ Exits \/ Written \/ Pump
  <2>1. UNCHANGED <<mine, seen, down>>
    BY <1>3, Zenon DEF TokenRefused, TokenMinted, WaitReturns, Dialled, Started, Exits, Written, Pump, PumpKey,
                PumpResize, PumpEnds, WriteFails, agent, browser, screen
  <2>2. socket' # "closed" => socket # "closed"
    BY <1>3, SMT DEF TokenRefused, TokenMinted, WaitReturns, Dialled, Started, Exits, Written, Pump, PumpKey,
                PumpResize, PumpEnds, WriteFails, agent, browser, screen
  <2>3. shell'.unread = shell.unread /\ shell'.printed = shell.printed
    <3>1. \/ shell' = shell
          \/ shell' = [shell EXCEPT !.on = "running"]
          \/ shell' = [shell EXCEPT !.on = "exited"]
          \/ \E z \in Size : shell' = [shell EXCEPT !.pty = z]
      BY <1>3, Zenon DEF TokenRefused, TokenMinted, WaitReturns, Dialled, Started, Exits, Written, Pump, PumpKey,
                PumpResize, PumpEnds, WriteFails, agent
    <3> QED BY <1>s, <3>1
  <2> QED BY <2>1, <2>2, <2>3, CountUnchanged
<1>4. CASE OnOpen \/ OnOutput
  <2>1. /\ mine /\ down # <<>> /\ down' = Tail(down) /\ UNCHANGED shell
        /\ down[1] \in {"open", "out"} /\ seen' = seen + (IF down[1] = "out" THEN 1 ELSE 0)
    <3>1. down # <<>> /\ down' = Tail(down) /\ UNCHANGED shell /\ mine
      BY <1>4 DEF OnOpen, OnOutput, Receive, agent
    <3>2. \/ Head(down) = "open" /\ seen' = seen
          \/ Head(down) = "out" /\ seen' = seen + 1
      BY <1>4 DEF OnOpen, OnOutput, Receive
    <3>3. Head(down) = down[1]
      BY <1>s, <3>1, Rest
    <3>4. seen' = seen + (IF down[1] = "out" THEN 1 ELSE 0)
      <4>1. seen \in Nat
        BY <1>s
      <4>2. CASE Head(down) = "out" /\ seen' = seen + 1
        BY <3>3, <4>1, <4>2
      <4>3. CASE Head(down) = "open" /\ seen' = seen
        <5>1. down[1] # "out"
          BY <3>3, <4>3
        <5> QED BY <4>1, <4>3, <5>1
      <4> QED BY <3>2, <4>2, <4>3
    <3> QED BY <3>1, <3>2, <3>3, <3>4
  <2>2. socket # "closed"
    BY <2>1 DEF Stage
  <2>3. \A n \in 1 .. Len(down) : seen + Outputs(down, n) = seen' + Outputs(down', n - 1)
    <3> TAKE n \in 1 .. Len(down)
    <3>1. /\ Outputs(down, n) = Outputs(Tail(down), n - 1) + (IF down[1] = "out" THEN 1 ELSE 0)
          /\ n - 1 \in Nat
      BY <1>s, <2>1, OneReceived, Rest
    <3>2. Outputs(Tail(down), n - 1) \in Nat
      BY <3>1, Counts
    <3>3. Outputs(down', n - 1) = Outputs(Tail(down), n - 1)
      BY <2>1
    <3>4. CASE down[1] = "out"
      BY <1>s, <2>1, <3>1, <3>2, <3>3, <3>4
    <3>5. CASE down[1] = "open"
      BY <1>s, <2>1, <3>1, <3>2, <3>3, <3>5
    <3> QED BY <2>1, <3>4, <3>5
  <2>4. /\ Len(down) \in 1 .. Len(down) /\ Len(down') = Len(down) - 1
        /\ \A k \in 1 .. Len(down') : k + 1 \in 1 .. Len(down) /\ down'[k] = down[k + 1]
    <3>1. /\ Len(down) \in Nat \ {0} /\ Len(Tail(down)) = Len(down) - 1
          /\ \A k \in 1 .. Len(down) - 1 : k + 1 \in 1 .. Len(down) /\ Tail(down)[k] = down[k + 1]
      BY <1>s, <2>1, Rest
    <3> QED BY <2>1, <3>1
  <2>5. Cut(down') <=> Cut(down)
    BY <1>s, <2>1, AfterFirst, Rest
  <2>6. mine' /\ socket' # "closed" /\ ~Cut(down') =>
          seen' + Outputs(down', Len(down')) + shell'.unread = shell'.printed
    BY <2>1, <2>2, <2>3, <2>4, <2>5 DEF Counted
  <2>7. ASSUME mine', NEW k \in 1 .. Len(down'), down'[k] = "exit"
        PROVE  seen' + Outputs(down', k) = shell'.printed
    <3>1. k + 1 \in 1 .. Len(down) /\ down[k + 1] = "exit" /\ (k + 1) - 1 = k
      BY <2>4, <2>7, SMT
    <3>2. seen + Outputs(down, k + 1) = shell.printed
      BY <2>1, <3>1 DEF Counted
    <3>3. seen + Outputs(down, k + 1) = seen' + Outputs(down', k)
      BY <2>3, <3>1
    <3> QED BY <2>1, <3>2, <3>3
  <2> QED BY <2>6, <2>7 DEF Counted
<1>5. CASE OnReport \/ OnClose \/ OnError
  <2>1. /\ down # <<>> /\ down' = Tail(down)
        /\ Head(down) \in Report \/ socket' = "closed"
        /\ Head(down) \in Report \cup {"close", "fail"}
    BY <1>5 DEF OnReport, OnClose, OnError, Receive, Report
  <2>2. down' = <<"close">> \/ down' = <<>>
    BY <1>s, <2>1, AfterFirst
  <2>3. \A k \in 1 .. Len(down') : down'[k] # "exit"
    BY <2>2
  <2>4. CASE Head(down) \in Report
    <3>1. Len(down') = 1 /\ down'[1] = "close"
      <4>1. down' = <<"close">>
        BY <1>s, <2>1, <2>4, AfterFirst
      <4> QED BY <4>1
    <3>2. Cut(down')
      BY <3>1, SMT DEF Cut
    <3> QED BY <2>3, <3>2 DEF Counted
  <2>5. CASE socket' = "closed"
    BY <2>3, <2>5 DEF Counted
  <2> QED BY <2>1, <2>4, <2>5
<1>6. CASE Ignored
  BY <1>6 DEF Ignored, Counted, screen
<1>7. CASE Break
  <2>1. PICK x \in {"close", "fail"} : down' = <<x>>
    BY <1>7 DEF Break
  <2>2. Len(down') = 1 /\ down'[1] = x
    BY <2>1
  <2>3. Cut(down') /\ \A k \in 1 .. Len(down') : down'[k] # "exit"
    BY <2>2, SMT DEF Cut
  <2> QED BY <2>3 DEF Counted
<1>8. CASE Accept
  <2>1. /\ down = <<>> /\ down \o <<"open">> = <<"open">> /\ Len(down) = 0
        /\ UNCHANGED <<mine, seen, socket, shell>>
    BY <1>8, SMT DEF Accept, Stage, browser, screen
  <2>2. down' = down \/ (socket # "closed" /\ ~Cut(down) /\ down' = <<"open">>)
    BY <1>8, <2>1, Writes DEF Accept
  <2>3. CASE down' = down
    BY <2>1, <2>3, CountUnchanged
  <2>4. CASE socket # "closed" /\ ~Cut(down) /\ down' = <<"open">>
    <3>1. Len(down') = 1 /\ down'[1] = "open"
      BY <2>4
    <3>2. Outputs(down', 0) = 0 /\ Outputs(down, 0) = 0
      BY NoOutputs
    <3>3. Outputs(down', 0 + 1) = Outputs(down', 0) + 0
      BY <3>1, OneMore, SMT
    <3>4. mine' => seen' + Outputs(down', Len(down')) + shell'.unread = shell'.printed
      BY <1>s, <2>1, <2>4, <3>1, <3>2, <3>3 DEF Counted
    <3>5. \A k \in 1 .. Len(down') : down'[k] # "exit"
      BY <3>1
    <3> QED BY <3>4, <3>5 DEF Counted
  <2> QED BY <2>2, <2>3, <2>4
<1>9. CASE Refuse \/ DialFails \/ SessionFails \/ SelectRead
  <2>1. PICK e \in Endings \ {<<"exit", "close">>} : Done(e)
    BY <1>9 DEF Refuse, DialFails, SessionFails, SelectRead, Endings
  <2>2. UNCHANGED <<mine, socket, seen>>
    BY <1>9 DEF Refuse, DialFails, SessionFails, SelectRead, browser, screen
  <2> QED BY <2>1, <2>2, CountEnds
<1>10. CASE SelectWait
  <2>1. PICK e \in Endings : Done(e)
    BY <1>10 DEF SelectWait, Endings
  <2>2. UNCHANGED <<mine, socket, seen>> /\ shell.unread = 0
    BY <1>10 DEF SelectWait, Stage, browser, screen
  <2> QED BY <2>1, <2>2, CountEnds
<1>11. CASE Copy
  <2>1. /\ UNCHANGED <<mine, seen, socket>> /\ shell.unread > 0
        /\ shell'.unread = shell.unread - 1 /\ shell'.printed = shell.printed
        /\ \A k \in 1 .. Len(down) : down[k] # "exit"
    BY <1>11, <1>s DEF Copy, Stage, browser, screen
  <2>2. \/ (socket = "closed" \/ Cut(down)) /\ down' = down
        \/ socket # "closed" /\ ~Cut(down) /\ down' = down \o <<"out">>
    BY <1>11, Writes DEF Copy
  <2>3. CASE (socket = "closed" \/ Cut(down)) /\ down' = down
    BY <2>1, <2>3 DEF Counted
  <2>4. CASE socket # "closed" /\ ~Cut(down) /\ down' = down \o <<"out">>
    <3>1. /\ Outputs(down', Len(down')) = Outputs(down, Len(down)) + 1
          /\ \A k \in 1 .. Len(down') : down'[k] \notin Report
      BY <1>s, <2>4, OutputBehind
    <3>2. Outputs(down, Len(down)) \in Nat /\ shell.unread \in Nat
      BY <1>s
    <3>3. mine' => seen' + Outputs(down', Len(down')) + shell'.unread = shell'.printed
      BY <1>s, <2>1, <2>4, <3>1, <3>2 DEF Counted
    <3> QED BY <3>1, <3>3 DEF Counted, Report
  <2> QED BY <2>2, <2>3, <2>4
<1>12. CASE Prints
  <2>1. /\ UNCHANGED <<mine, seen, socket, down>>
        /\ shell'.unread = shell.unread + 1 /\ shell'.printed = shell.printed + 1
        /\ \A k \in 1 .. Len(down) : down[k] # "exit"
    BY <1>12, <1>s DEF Prints, Stage, browser, screen
  <2>2. Outputs(down, Len(down)) \in Nat
    BY <1>s
  <2>3. mine' /\ socket' # "closed" /\ ~Cut(down') =>
          seen' + Outputs(down', Len(down')) + shell'.unread = shell'.printed
    BY <1>s, <2>1, <2>2 DEF Counted
  <2> QED BY <2>1, <2>3 DEF Counted
<1> QED BY <1>1, <1>2, <1>3, <1>4, <1>5, <1>6, <1>7, <1>8, <1>9, <1>10, <1>11, <1>12
    DEF SshNext, Events, Setup, Wait, Select, Target

-----------------------------------------------------------------------------
(* The terminal: the pty follows the terminal's size                       *)

LEMMA FrameKinds ==
  /\ ~IsResize(Key) /\ ~IsResize(Closing) /\ Key # Closing
  /\ \A s : IsResize(Resize(s)) /\ Resize(s) # Closing /\ Resize(s) # Key
  /\ \A s, z : Resize(s) = Resize(z) => s = z
<1>1. Key[1] = "key" /\ Closing[1] = "close" /\ \A s : Resize(s)[1] = "resize" /\ Resize(s)[2] = s
  BY DEF Key, Closing, Resize
<1>2. "key" # "close" /\ "key" # "resize" /\ "close" # "resize"
  OBVIOUS
<1>3. \A s : IsResize(Resize(s)) /\ Resize(s) # Closing /\ Resize(s) # Key
  <2> TAKE s
  <2>1. Resize(s)[1] = "resize"
    BY <1>1
  <2> QED BY <1>1, <1>2, <2>1, Zenon DEF IsResize
<1>4. \A s, z : Resize(s) = Resize(z) => s = z
  <2> TAKE s, z
  <2>1. Resize(s)[2] = s /\ Resize(z)[2] = z
    BY <1>1
  <2> QED BY <2>1, Zenon
<1> QED BY <1>1, <1>2, <1>3, <1>4, Zenon DEF IsResize

\* What is appended is the last frame.
LEMMA Appended ==
  ASSUME NEW s \in Seq(ToAgent), NEW x \in ToAgent
  PROVE  /\ Append(s, x) \in Seq(ToAgent) /\ Len(Append(s, x)) = Len(s) + 1 /\ Len(s) \in Nat
         /\ \A k \in 1 .. Len(s) : Append(s, x)[k] = s[k]
         /\ Append(s, x)[Len(s) + 1] = x
         /\ \A k \in 1 .. Len(s) + 1 : k \in 1 .. Len(s) \/ k = Len(s) + 1
BY AppendProperties, LenProperties, SMT

\* A frame of another kind behind the last size changes nothing.
LEMMA FollowsBehind ==
  ASSUME NEW s \in Seq(ToAgent), NEW x \in ToAgent, ~IsResize(x),
         NEW pty, NEW size, Follows(s, pty, size)
  PROVE  Follows(Append(s, x), pty, size)
<1> DEFINE t == Append(s, x)
<1>1. /\ Len(t) = Len(s) + 1 /\ Len(s) \in Nat
      /\ \A k \in 1 .. Len(s) : t[k] = s[k]
      /\ t[Len(s) + 1] = x
      /\ \A k \in 1 .. Len(t) : k \in 1 .. Len(s) \/ k = Len(s) + 1
  BY Appended
<1> HIDE DEF t
<1>2. CASE (\A k \in 1 .. Len(s) : ~IsResize(s[k])) /\ pty = size
  <2>1. \A k \in 1 .. Len(t) : ~IsResize(t[k])
    BY <1>1, <1>2
  <2> QED BY <1>2, <2>1 DEF Follows
<1>3. ASSUME NEW k \in 1 .. Len(s), s[k] = Resize(size),
             \A j \in k + 1 .. Len(s) : ~IsResize(s[j])
      PROVE  Follows(t, pty, size)
  <2>1. k \in 1 .. Len(t) /\ t[k] = Resize(size)
    BY <1>1, <1>3, SMT
  <2>2. \A j \in k + 1 .. Len(t) : ~IsResize(t[j])
    <3> TAKE j \in k + 1 .. Len(t)
    <3>1. (j \in k + 1 .. Len(s) /\ j \in 1 .. Len(s)) \/ j = Len(s) + 1
      BY <1>1, SMT
    <3> QED BY <1>1, <1>3, <3>1
  <2> QED BY <2>1, <2>2 DEF Follows
<1> QED BY <1>2, <1>3 DEF Follows, t

\* A size that was just sent is the last.
LEMMA FollowsLast ==
  ASSUME NEW s \in Seq(ToAgent), NEW size \in Size, NEW pty
  PROVE  Follows(Append(s, Resize(size)), pty, size)
<1> DEFINE t == Append(s, Resize(size))
<1>1. Resize(size) \in ToAgent
  BY DEF ToAgent
<1>2. Len(t) = Len(s) + 1 /\ Len(s) \in Nat /\ t[Len(s) + 1] = Resize(size)
  BY <1>1, Appended
<1> HIDE DEF t
<1>3. Len(t) \in 1 .. Len(t) /\ t[Len(t)] = Resize(size) /\ \A j \in Len(t) + 1 .. Len(t) : FALSE
  BY <1>2, SMT
<1> QED BY <1>3 DEF Follows, t

\* The agent takes the first frame: a size becomes the pty's.
LEMMA FollowsRest ==
  ASSUME NEW s \in Seq(ToAgent), s # <<>>, NEW pty, NEW size, Follows(s, pty, size)
  PROVE  /\ Head(s) = Key => Follows(Tail(s), pty, size)
         /\ \A z : Head(s) = Resize(z) => Follows(Tail(s), z, size)
<1> DEFINE t == Tail(s)
<1>1. /\ Head(s) = s[1] /\ Len(s) \in Nat \ {0} /\ Len(t) = Len(s) - 1
      /\ \A k \in 1 .. Len(s) - 1 : k + 1 \in 1 .. Len(s) /\ t[k] = s[k + 1]
  BY Rest
<1> HIDE DEF t
<1>2. CASE (\A k \in 1 .. Len(s) : ~IsResize(s[k])) /\ pty = size
  <2>1. 1 \in 1 .. Len(s) /\ ~IsResize(s[1])
    BY <1>1, <1>2, SMT
  <2>2. \A k \in 1 .. Len(t) : ~IsResize(t[k])
    BY <1>1, <1>2
  <2> QED BY <1>1, <1>2, <2>1, <2>2, FrameKinds DEF Follows, t
<1>3. ASSUME NEW k \in 1 .. Len(s), s[k] = Resize(size),
             \A j \in k + 1 .. Len(s) : ~IsResize(s[j])
      PROVE  /\ Head(s) = Key => Follows(t, pty, size)
             /\ \A z : Head(s) = Resize(z) => Follows(t, z, size)
  <2>1. CASE k = 1
    <3>1. \A j \in 1 .. Len(t) : ~IsResize(t[j])
      BY <1>1, <1>3, <2>1, SMT
    <3>2. Head(s) = Resize(size)
      BY <1>1, <1>3, <2>1
    <3>3. Head(s) # Key /\ \A z : Head(s) = Resize(z) => z = size
      BY <3>2, FrameKinds
    <3> QED BY <3>1, <3>3 DEF Follows
  <2>2. CASE k # 1
    <3>1. k - 1 \in 1 .. Len(t) /\ t[k - 1] = Resize(size)
      BY <1>1, <1>3, <2>2, SMT
    <3>2. \A j \in (k - 1) + 1 .. Len(t) : ~IsResize(t[j])
      <4> TAKE j \in (k - 1) + 1 .. Len(t)
      <4>1. j + 1 \in k + 1 .. Len(s) /\ t[j] = s[j + 1]
        BY <1>1, SMT
      <4> QED BY <1>3, <4>1
    <3>3. \A p : Follows(t, p, size)
      BY <3>1, <3>2 DEF Follows
    <3> QED BY <3>3
  <2> QED BY <2>1, <2>2
<1> QED BY <1>2, <1>3 DEF Follows, t

\* A step that takes nothing from the agent's frames and changes no size.
LEMMA SyncUnchanged ==
  ASSUME Synced, UNCHANGED <<term, up, shell.pty>>,
         mine' => mine, socket' = "open" => socket = "open",
         bridge' # "done" => bridge # "done", pump' # "ended" => pump # "ended"
  PROVE  Synced'
<1>1. /\ mine' => mine
      /\ socket' = "open" => socket = "open"
      /\ bridge' # "done" => bridge # "done"
      /\ pump' # "ended" => pump # "ended"
      /\ term' = term /\ up' = up /\ (shell.pty)' = shell.pty
  OBVIOUS
<1> QED BY <1>1 DEF Synced

LEMMA SyncedKept ==
  ASSUME SshTypeOK, Stage, Synced, [SshNext]_sshVars
  PROVE  Synced'
<1>s. /\ shell \in [on : {"none", "running", "exited", "killed"}, pty : Size \cup {Initial},
                    printed : Nat, unread : Nat]
      /\ up \in Seq(ToAgent) /\ term \in Size
      /\ Key \in ToAgent /\ Closing \in ToAgent /\ \A s \in Size : Resize(s) \in ToAgent
  BY DEF SshTypeOK, ToAgent
<1>1. CASE UNCHANGED sshVars
  BY <1>1, SyncUnchanged DEF sshVars
<1>2. CASE Cleanup \/ OtherRuns
  BY <1>2 DEF Cleanup, OtherRuns, Synced
<1>3. CASE TokenRefused \/ TokenMinted
  BY <1>3 DEF TokenRefused, TokenMinted, Synced
<1>4. CASE OnOpen
  <2>1. up' = Append(up, Resize(term)) /\ term' = term /\ shell' = shell
    BY <1>4 DEF OnOpen, agent
  <2>2. Follows(up', shell'.pty, term')
    BY <1>s, <2>1, FollowsLast
  <2> QED BY <2>2 DEF Synced
<1>5. CASE OnOutput \/ OnReport \/ OnClose \/ OnError \/ Ignored
  <2>1. UNCHANGED <<mine, term, up, agent>> /\ (socket' = "open" => socket = "open")
    BY <1>5 DEF OnOutput, OnReport, OnClose, OnError, Ignored, screen, browser
  <2> QED BY <2>1, SyncUnchanged DEF agent
<1>6. ASSUME NEW s \in Size, SyncSize(s)
      PROVE  Synced'
  <2>1. CASE socket # "open"
    BY <1>6, <2>1 DEF SyncSize, Synced, browser
  <2>2. CASE socket = "open"
    <3>1. up' = Append(up, Resize(s)) /\ term' = s
      BY <1>6, <2>2 DEF SyncSize
    <3>2. Follows(up', shell'.pty, term')
      BY <1>s, <3>1, FollowsLast
    <3> QED BY <3>2 DEF Synced
  <2> QED BY <2>1, <2>2
<1>7. CASE Type
  <2>1. up' = Append(up, Key) /\ UNCHANGED <<screen, browser, agent>>
    BY <1>7 DEF Type
  <2>2. /\ \A k \in 1 .. Len(up) : k \in 1 .. Len(up') /\ up'[k] = up[k]
    <3>1. /\ Len(Append(up, Key)) = Len(up) + 1 /\ Len(up) \in Nat
          /\ \A k \in 1 .. Len(up) : Append(up, Key)[k] = up[k]
      BY <1>s, Appended
    <3> QED BY <2>1, <3>1
  <2>3. Follows(up, shell.pty, term) => Follows(up', shell'.pty, term')
    BY <1>s, <2>1, FollowsBehind, FrameKinds DEF agent, screen
  <2> QED BY <2>1, <2>2, <2>3 DEF Synced, screen, browser, agent
<1>8. CASE Break
  <2>1. up' = <<Closing>>
    BY <1>8 DEF Break
  <2>2. 1 \in 1 .. Len(up') /\ up'[1] = Closing
    BY <2>1
  <2> QED BY <2>2 DEF Synced
<1>9. CASE Refuse \/ DialFails \/ SessionFails \/ Select
  BY <1>9, Zenon DEF Refuse, DialFails, SessionFails, Select, SelectWait, SelectRead, Done, Synced
<1>10. CASE Accept \/ Dialled \/ Started \/ Copy \/ WaitReturns \/ Prints \/ Exits \/ Written
  <2>1. UNCHANGED <<mine, term, socket, up>>
    BY <1>10, Zenon DEF Accept, Dialled, Started, Copy, WaitReturns, Prints, Exits, Written, screen,
                        browser
  <2>2. (bridge' # "done" => bridge # "done") /\ (pump' # "ended" => pump # "ended")
    <3>1. CASE Accept \/ Dialled \/ Started
      BY <3>1 DEF Accept, Dialled, Started, Stage
    <3>2. CASE Copy \/ WaitReturns \/ Prints \/ Exits
      BY <3>2, Zenon DEF Copy, WaitReturns, Prints, Exits
    <3>3. CASE Written
      <4>1. pump = "writing" /\ UNCHANGED bridge
        BY <3>3, Zenon DEF Written
      <4> QED BY <4>1
    <3> QED BY <1>10, <3>1, <3>2, <3>3
  <2>3. shell'.pty = shell.pty
    <3>1. \/ shell' = shell
          \/ shell' = [shell EXCEPT !.on = "running"]
          \/ shell' = [shell EXCEPT !.on = "exited"]
          \/ shell' = [shell EXCEPT !.unread = @ - 1]
          \/ shell' = [shell EXCEPT !.printed = @ + 1, !.unread = @ + 1]
      BY <1>10, Zenon DEF Accept, Dialled, Started, Copy, WaitReturns, Prints, Exits, Written
    <3> QED BY <1>s, <3>1
  <2> QED BY <2>1, <2>2, <2>3, SyncUnchanged
<1>11. CASE PumpEnds \/ WriteFails
  BY <1>11, Zenon DEF PumpEnds, WriteFails, Synced
<1>12. CASE PumpKey \/ PumpResize
  <2>1. /\ up # <<>> /\ up' = Tail(up) /\ UNCHANGED <<mine, term, socket, bridge>>
        /\ pump = "reading" /\ Head(up) # Closing
        /\ \/ Head(up) = Key /\ shell' = shell
           \/ \E z \in Size : Head(up) = Resize(z) /\ shell'.pty = z
    <3>1. CASE PumpKey
      BY <3>1, FrameKinds DEF PumpKey, PumpReads, screen, browser
    <3>2. CASE PumpResize
      <4>1. PICK z \in Size : PumpReads(Resize(z)) /\ shell' = [shell EXCEPT !.pty = z]
        BY <3>2 DEF PumpResize
      <4>2. shell'.pty = z
        BY <1>s, <4>1
      <4> QED BY <3>2, <4>1, <4>2, FrameKinds DEF PumpResize, PumpReads, screen, browser
    <3> QED BY <1>12, <3>1, <3>2
  <2>2. Follows(up, shell.pty, term) => Follows(up', shell'.pty, term')
    BY <1>s, <2>1, FollowsRest
  <2>3. ASSUME \A k \in 1 .. Len(up') : up'[k] # Closing
        PROVE  \A k \in 1 .. Len(up) : up[k] # Closing
    <3> TAKE k \in 1 .. Len(up)
    <3>1. CASE k = 1
      BY <1>s, <2>1, <3>1, Rest
    <3>2. CASE k # 1
      <4>1. k - 1 \in 1 .. Len(up') /\ up'[k - 1] = up[(k - 1) + 1] /\ (k - 1) + 1 = k
        BY <1>s, <2>1, <3>2, Rest, SMT
      <4> QED BY <2>3, <4>1
    <3> QED BY <3>1, <3>2
  <2> QED BY <2>1, <2>2, <2>3 DEF Synced
<1> QED BY <1>1, <1>2, <1>3, <1>4, <1>5, <1>6, <1>7, <1>8, <1>9, <1>10, <1>11, <1>12
    DEF SshNext, Person, Events, Setup, Wait, Pump, Target

-----------------------------------------------------------------------------
(* The terminal: an error is the last word                                 *)

\* A step of the agent, or of the wire, that says nothing new on the screen.
LEMMA ErrorUnchanged ==
  ASSUME ErrorEnds, UNCHANGED <<socket, down>>, mine' => mine /\ shown' = shown
  PROVE  ErrorEnds'
<1>1. mine' => mine /\ shown' = shown
  OBVIOUS
<1>2. socket' = socket /\ down' = down
  OBVIOUS
<1> QED BY <1>1, <1>2, Zenon DEF ErrorEnds, Cut

\* What is written behind an ending arrives nowhere.
LEMMA NothingBehind ==
  ASSUME ErrorEnds, UNCHANGED <<screen, socket>>, NEW frames, Write(frames)
  PROVE  ErrorEnds'
<1>1. mine' = mine /\ shown' = shown /\ socket' = socket
  BY DEF screen
<1>2. mine /\ shown = "error" => down' = down
  BY Writes DEF ErrorEnds
<1> QED BY <1>1, <1>2, Zenon DEF ErrorEnds, Cut

LEMMA ErrorEndsKept ==
  ASSUME SshTypeOK, Stage, ErrorEnds, [SshNext]_sshVars
  PROVE  ErrorEnds'
<1>s. down \in Seq(ToBrowser) /\ Shape(down)
  BY DEF SshTypeOK, Stage
<1>0. ~Cut(<<>>) /\ \A k \in 1 .. Len(<<>>) : FALSE
  BY SMT DEF Cut
<1>1. CASE UNCHANGED sshVars
  BY <1>1, ErrorUnchanged DEF sshVars
<1>2. CASE Person
  <2>1. CASE Cleanup \/ OtherRuns
    BY <2>1 DEF Cleanup, OtherRuns, ErrorEnds
  <2>2. CASE Type \/ \E s \in Size : SyncSize(s)
    <3>1. UNCHANGED <<mine, shown, socket, down>>
      BY <2>2 DEF Type, SyncSize, screen, browser
    <3> QED BY <3>1, ErrorUnchanged
  <2> QED BY <1>2, <2>1, <2>2 DEF Person
<1>3. CASE TokenRefused \/ TokenMinted
  <2>1. down = <<>> /\ down' = down /\ socket = "minting"
    BY <1>3 DEF TokenRefused, TokenMinted, Stage
  <2>2. mine => shown # "error"
    BY <1>0, <2>1 DEF ErrorEnds
  <2> QED BY <1>0, <1>3, <2>1, <2>2 DEF TokenRefused, TokenMinted, ErrorEnds, screen
<1>4. CASE OnOpen \/ OnOutput
  <2>1. down # <<>> /\ down' = Tail(down) /\ mine /\ Head(down) \in {"open", "out"}
        /\ ((socket' = socket /\ shown' = shown) \/ shown' = "connected")
    BY <1>4 DEF OnOpen, OnOutput, Receive, screen
  <2>2. Cut(down') <=> Cut(down)
    BY <1>s, <2>1, AfterFirst
  <2>3. \A k \in 1 .. Len(down') : k + 1 \in 1 .. Len(down) /\ down'[k] = down[k + 1]
    BY <1>s, <2>1, Rest
  <2> QED BY <2>1, <2>2, <2>3 DEF ErrorEnds
<1>5. CASE OnReport \/ OnClose \/ OnError
  <2>1. /\ down # <<>> /\ down' = Tail(down)
        /\ \/ Head(down) \in Report
           \/ Head(down) \in {"close", "fail"} /\ socket' = "closed"
    BY <1>5 DEF OnReport, OnClose, OnError, Receive, Report
  <2>2. down' = <<"close">> \/ (down' = <<>> /\ socket' = "closed")
    <3>1. Head(down) \in Report => down' = <<"close">>
      BY <1>s, <2>1, AfterFirst
    <3>2. Head(down) \in {"close", "fail"} => down' = <<>>
      BY <1>s, <2>1, AfterFirst
    <3> QED BY <2>1, <3>1, <3>2, Zenon
  <2>3. CASE down' = <<"close">>
    <3>1. Len(down') = 1 /\ down'[1] = "close"
      BY <2>3
    <3>2. Cut(down') /\ \A k \in 1 .. Len(down') : down'[k] \notin {"open", "exit"}
      BY <3>1, SMT DEF Cut
    <3> QED BY <3>2 DEF ErrorEnds
  <2>4. CASE down' = <<>> /\ socket' = "closed"
    BY <1>0, <2>4 DEF ErrorEnds
  <2> QED BY <2>2, <2>3, <2>4
<1>6. CASE Ignored
  BY <1>6 DEF Ignored, ErrorEnds, screen
<1>7. CASE Break
  <2>1. PICK x \in {"close", "fail"} : down' = <<x>>
    BY <1>7 DEF Break
  <2>2. Len(down') = 1 /\ down'[1] = x
    BY <2>1
  <2>3. Cut(down') /\ \A k \in 1 .. Len(down') : down'[k] \notin {"open", "exit"}
    BY <2>2, SMT DEF Cut
  <2> QED BY <2>3 DEF ErrorEnds
<1>8. CASE Setup \/ SessionFails \/ Started \/ Select \/ Copy
  <2>1. CASE Dialled \/ Started
    BY <2>1, ErrorUnchanged DEF Dialled, Started, screen, browser
  <2>2. CASE Accept \/ Refuse \/ DialFails \/ SessionFails \/ Select \/ Copy
    <3>1. \E frames : Write(frames)
      BY <2>2 DEF Accept, Refuse, DialFails, SessionFails, Select, SelectWait, SelectRead, Copy, Done
    <3>2. UNCHANGED <<screen, socket>>
      BY <2>2, Zenon DEF Accept, Refuse, DialFails, SessionFails, Select, SelectWait, SelectRead, Copy, browser
    <3> QED BY <3>1, <3>2, NothingBehind
  <2> QED BY <1>8, <2>1, <2>2 DEF Setup
<1>9. CASE Pump \/ WaitReturns \/ Written \/ Prints \/ Exits
  <2>1. UNCHANGED <<mine, shown, socket, down>>
    BY <1>9, Zenon DEF Pump, PumpKey, PumpResize, PumpEnds, WriteFails, WaitReturns, Written, Prints,
                       Exits, screen, browser
  <2> QED BY <2>1, ErrorUnchanged
<1> QED BY <1>1, <1>2, <1>3, <1>4, <1>5, <1>6, <1>7, <1>8, <1>9 DEF SshNext, Events, Wait, Target

-----------------------------------------------------------------------------
(* The terminal: the theorems                                              *)

LEMMA SshStarts == ASSUME SshInit PROVE SshTypeOK /\ SshInvariant
<1> USE DEF SshInit
<1>1. <<>> \in Seq(ToAgent) /\ <<>> \in Seq(ToBrowser) /\ Len(<<>>) = 0
  BY EmptySeq
<1>2. SshTypeOK
  BY <1>1 DEF SshTypeOK, ConnectionState
<1>3. \A k \in 1 .. Len(<<>>) : FALSE
  BY <1>1, SMT
<1>4. Outputs(<<>>, Len(<<>>)) = 0
  BY <1>1, NoOutputs
<1>5. NoSocketLeft
  BY DEF NoSocketLeft
<1>6. Stage
  BY <1>3 DEF Stage, Shape
<1>7. Counted
  BY <1>3, <1>4 DEF Counted
<1>8. Synced /\ ErrorEnds
  BY DEF Synced, ErrorEnds
<1> QED BY <1>2, <1>5, <1>6, <1>7, <1>8 DEF SshInvariant

LEMMA SshKept ==
  ASSUME SshTypeOK, SshInvariant, [SshNext]_sshVars
  PROVE  SshTypeOK' /\ SshInvariant'
BY SshTypesKept, NoSocketKept, StageKept, CountedKept, SyncedKept, ErrorEndsKept DEF SshInvariant

LEMMA SshAlways == SshSpec => [](SshTypeOK /\ SshInvariant)
<1>1. SshInit => SshTypeOK /\ SshInvariant
  BY SshStarts
<1>2. (SshTypeOK /\ SshInvariant) /\ [SshNext]_sshVars => (SshTypeOK /\ SshInvariant)'
  BY SshKept
<1> QED BY <1>1, <1>2, PTL DEF SshSpec

\* A cleaned-up run holds no socket, whenever its token comes
\* (components/terminal, the effect's "cancelled").
THEOREM NoSocketIsLeft == SshSpec => []NoSocketLeft
<1>1. SshInvariant => NoSocketLeft
  BY DEF SshInvariant
<1> QED BY <1>1, SshAlways, PTL

\* Once all is delivered the remote pty has the terminal's size (onopen's and
\* onResize's messages, the agent's read pump).
THEOREM PtyFollows == SshSpec => []PtyFollowsTerminal
<1>1. ASSUME SshTypeOK, SshInvariant
      PROVE  PtyFollowsTerminal
  <2>1. ASSUME mine, socket = "open", up = <<>>, bridge = "bridge", pump # "ended"
        PROVE  shell.pty = term
    <3>1. \A k \in 1 .. Len(up) : FALSE
      BY <2>1, SMT
    <3>2. Follows(up, shell.pty, term)
      BY <1>1, <2>1, <3>1 DEF SshInvariant, Synced
    <3> QED BY <3>1, <3>2 DEF Follows
  <2> QED BY <2>1 DEF PtyFollowsTerminal
<1> QED BY <1>1, SshAlways, PTL

\* The exit report comes behind all output and right before the close (session.Wait
\* and the select of bridgeSSH).
THEOREM ExitIsLast == SshSpec => []ExitComesLast
<1>1. ASSUME SshTypeOK, SshInvariant
      PROVE  ExitComesLast
  <2>1. ASSUME mine, NEW i \in 1 .. Len(down), down[i] = "exit"
        PROVE  /\ seen + Cardinality({j \in 1 .. i : down[j] = "out"}) = shell.printed
               /\ SubSeq(down, i + 1, Len(down)) = <<"close">>
    <3>1. seen + Outputs(down, i) = shell.printed
      BY <1>1, <2>1 DEF SshInvariant, Counted
    <3>2. i + 1 = Len(down) /\ down[i + 1] = "close"
      BY <1>1, <2>1 DEF SshInvariant, Stage, Shape, Report
    <3>3. down \in Seq(ToBrowser) /\ i + 1 \in 1 .. Len(down) /\ Len(down) \in Nat
      BY <1>1, <3>2, LenProperties, SMT DEF SshTypeOK
    <3>4. SubSeq(down, i + 1, i + 1) = <<down[i + 1]>>
      <4>1. \A k \in i + 1 .. i + 1 : down[k] \in ToBrowser
        BY <3>2, <3>3
      <4>2. /\ SubSeq(down, i + 1, i + 1) \in Seq(ToBrowser) /\ Len(SubSeq(down, i + 1, i + 1)) = 1
            /\ SubSeq(down, i + 1, i + 1)[1] = down[i + 1]
        BY <3>3, <4>1, SubSeqProperties
      <4>3. <<down[i + 1]>> \in Seq(ToBrowser)
        BY <3>2, <4>1, Frames
      <4> DEFINE last == SubSeq(down, i + 1, i + 1)
                 one == <<down[i + 1]>>
      <4>4. Len(last) = Len(one) /\ \A k \in 1 .. Len(last) : last[k] = one[k]
        <5>1. Len(last) = 1 /\ last[1] = down[i + 1]
          BY <4>2
        <5>2. Len(one) = 1 /\ one[1] = down[i + 1]
          OBVIOUS
        <5>3. \A k \in 1 .. 1 : k = 1
          OBVIOUS
        <5> HIDE DEF last, one
        <5> QED BY <5>1, <5>2, <5>3
      <4> HIDE DEF last, one
      <4>5. last = one
        BY <4>2, <4>3, <4>4, SeqEqual DEF last, one
      <4> QED BY <4>5 DEF last, one
    <3> QED BY <3>1, <3>2, <3>4 DEF Outputs
  <2> QED BY <2>1 DEF ExitComesLast
<1> QED BY <1>1, SshAlways, PTL

\* The screen changes with its run or by its run's events, and an error stays.
THEOREM ScreenIsItsRuns == SshSpec => OwnEventsOnly
<1> DEFINE Own == shown' # shown =>
                    \/ ~mine' /\ UNCHANGED <<seen, agent, down>> /\ (mine \/ UNCHANGED socket)
                    \/ mine /\ shown # "error"
<1>1. ASSUME SshTypeOK, SshInvariant, [SshNext]_sshVars
      PROVE  [Own]_sshVars
  <2>0. mine /\ shown = "error" => socket # "minting" /\ (down = <<>> \/ down[1] \notin {"open", "exit"})
    <3>1. ASSUME mine, shown = "error", down # <<>>
          PROVE  down[1] \notin {"open", "exit"}
      <4>1. 1 \in 1 .. Len(down)
        <5>1. Len(down) \in Nat \ {0}
          BY <1>1, <3>1, Rest DEF SshTypeOK
        <5> QED BY <5>1
      <4> QED BY <1>1, <3>1, <4>1 DEF SshInvariant, ErrorEnds
    <3>2. ASSUME mine, shown = "error", socket = "minting"
          PROVE  FALSE
      <4>1. down = <<>>
        BY <1>1, <3>2 DEF SshInvariant, Stage
      <4>2. \A k \in 1 .. Len(down) : FALSE
        BY <4>1, SMT
      <4> QED BY <1>1, <3>2, <4>2 DEF SshInvariant, ErrorEnds, Cut
    <3> QED BY <3>1, <3>2
  <2>1. CASE Cleanup \/ OtherRuns
    BY <2>1 DEF Cleanup, OtherRuns, browser
  <2>2. CASE TokenRefused
    BY <2>0, <2>2 DEF TokenRefused
  <2>3. CASE OnOpen \/ OnReport
    <3>1. down # <<>> => Head(down) = down[1]
      BY <1>1, Rest DEF SshTypeOK
    <3> QED BY <2>0, <2>3, <3>1 DEF OnOpen, OnReport, Receive
  <2>4. CASE OnClose \/ OnError
    BY <2>4 DEF OnClose, OnError
  <2>5. CASE TokenMinted \/ OnOutput \/ Ignored \/ Type \/ Break
    BY <2>5 DEF TokenMinted, OnOutput, Ignored, Type, Break, screen
  <2>6. CASE \E s \in Size : SyncSize(s)
    BY <2>6 DEF SyncSize
  <2>7. CASE Setup \/ Pump \/ Wait \/ Select \/ Target
    <3>1. UNCHANGED shown
      BY <2>7, Zenon DEF Setup, Refuse, Accept, DialFails, SessionFails, Dialled, Started, Pump,
                PumpKey, PumpResize,
                PumpEnds, WriteFails, Wait, Copy, WaitReturns, Select, SelectWait, SelectRead, Target,
                Written, Prints, Exits, screen
    <3> QED BY <3>1
  <2> QED BY <1>1, <2>1, <2>2, <2>3, <2>4, <2>5, <2>6, <2>7 DEF SshNext, Person, Events
<1> QED BY <1>1, SshAlways, PTL DEF SshSpec, OwnEventsOnly

-----------------------------------------------------------------------------
(* The dialogs: types and the inductive invariant                          *)

Openings == {"no"} \cup (UNION {DOMAIN Mint[h].asks : h \in DOMAIN Mint})
                   \cup (UNION {DOMAIN Menu[h].asks : h \in DOMAIN Menu})
Directs == UNION {DOMAIN Menu[h].direct : h \in DOMAIN Menu}
Request == [op : Openings \cup Directs, heard : BOOLEAN]
Dialog == [open : Openings, key : Nat, error : BOOLEAN, typed : BOOLEAN, since : BOOLEAN]

DialogsTypeOK ==
  /\ host \in Host /\ dlg \in Dialog /\ sent \in Seq(Request)
  /\ minted \in Nat /\ rows \in BOOLEAN /\ gone \in SUBSET Nat

\* Of several requests under way only the youngest may be heard.
OnlyLastHeard(requests) ==
  \A i \in 1 .. Len(requests) : i < Len(requests) => ~requests[i].heard

\* A key in the dialog's state is the last one minted, and nothing is under way.
KeyIsLast ==
  /\ OnlyLastHeard(sent)
  /\ \A k \in gone : k <= minted
  /\ dlg.key # NoKey => sent = <<>> /\ dlg.key = minted /\ dlg.key \notin gone
  /\ Lists => dlg.key = NoKey

\* What stands typed in an open form was typed since it was opened.
TypedHere == Lists /\ ~InHost /\ dlg.open # "no" /\ dlg.typed => dlg.since

DialogsInvariant == KeyIsLast /\ TypedHere

LEMMA HostsDiffer == DOMAIN Mint \cap DOMAIN Menu = {}
BY DEF Mint, Menu

LEMMA FreshDialog == Fresh \in Dialog /\ Fresh.key = NoKey /\ Fresh.open = "no" /\ ~Fresh.typed
BY DEF Fresh, Dialog, NoKey, Openings

LEMMA RequestsLost ==
  ASSUME sent \in Seq(Request)
  PROVE  /\ Orphaned \in Seq(Request) /\ Len(Orphaned) = Len(sent)
         /\ \A i \in 1 .. Len(Orphaned) : ~Orphaned[i].heard
         /\ OnlyLastHeard(Orphaned)
<1>1. Len(sent) \in Nat /\ \A i \in 1 .. Len(sent) : sent[i] \in Request
  BY LenProperties, ElementOfSeq
<1>2. \A i \in 1 .. Len(sent) :
        /\ [sent[i] EXCEPT !.heard = FALSE] \in Request
        /\ ~[sent[i] EXCEPT !.heard = FALSE].heard
  BY <1>1 DEF Request
<1>3. Orphaned \in Seq(Request) /\ Len(Orphaned) = Len(sent)
  BY <1>1, <1>2, SMT DEF Orphaned
<1>4. \A i \in 1 .. Len(sent) : ~Orphaned[i].heard
  BY <1>2 DEF Orphaned
<1> QED BY <1>3, <1>4 DEF OnlyLastHeard

\* An answer takes the oldest request; if that was heard, it was the only one.
LEMMA RequestAnswered ==
  ASSUME NEW s \in Seq(Request), OnlyLastHeard(s), s # <<>>
  PROVE  /\ Tail(s) \in Seq(Request) /\ OnlyLastHeard(Tail(s)) /\ Len(Tail(s)) = Len(s) - 1
         /\ Len(s) \in Nat \ {0}
         /\ Head(s) \in Request
         /\ Head(s).heard => Tail(s) = <<>>
<1>1. /\ Head(s) = s[1] /\ s[1] \in Request /\ Len(s) \in Nat \ {0}
      /\ Tail(s) \in Seq(Request) /\ Len(Tail(s)) = Len(s) - 1
      /\ \A k \in 1 .. Len(s) - 1 : k + 1 \in 1 .. Len(s) /\ Tail(s)[k] = s[k + 1]
  BY Rest
<1>2. OnlyLastHeard(Tail(s))
  BY <1>1, SMT DEF OnlyLastHeard
<1>3. ASSUME Head(s).heard
      PROVE  Tail(s) = <<>>
  <2>1. Len(Tail(s)) = 0
    BY <1>1, <1>3, SMT DEF OnlyLastHeard
  <2> QED BY <1>1, <2>1, EmptySeq
<1> QED BY <1>1, <1>2, <1>3

\* A request is only sent when nobody listens for an older one.
LEMMA RequestSent ==
  ASSUME sent \in Seq(Request), ~Under, NEW op \in Openings \cup Directs, Send(op)
  PROVE  sent' \in Seq(Request) /\ OnlyLastHeard(sent') /\ Len(sent') = Len(sent) + 1
<1> DEFINE r == [op |-> op, heard |-> TRUE]
<1>1. r \in Request
  BY DEF Request
<1>2. sent' = Append(sent, r)
  BY DEF Send
<1> HIDE DEF r
<1>3. /\ Append(sent, r) \in Seq(Request) /\ Len(Append(sent, r)) = Len(sent) + 1
      /\ \A i \in 1 .. Len(sent) : Append(sent, r)[i] = sent[i]
      /\ Len(sent) \in Nat
  BY <1>1, AppendProperties, LenProperties
<1> QED BY <1>2, <1>3, SMT DEF OnlyLastHeard, Under

-----------------------------------------------------------------------------
(* The dialogs: every step                                                 *)

LEMMA ModesAreOpenings ==
  /\ Mints => \A m \in DOMAIN Asks : m \in Openings
  /\ Lists => \A k \in DOMAIN Menu[host].asks : k \in Openings
  /\ Lists => \A k \in DOMAIN Menu[host].direct : k \in Directs
<1>1. ASSUME Mints, NEW m \in DOMAIN Asks
      PROVE  m \in Openings
  <2>1. DOMAIN Asks \in {DOMAIN Mint[h].asks : h \in DOMAIN Mint}
    BY <1>1 DEF Mints, Asks
  <2> QED BY <1>1, <2>1, Zenon DEF Openings
<1>2. ASSUME Lists, NEW k \in DOMAIN Menu[host].asks
      PROVE  k \in Openings
  <2>1. DOMAIN Menu[host].asks \in {DOMAIN Menu[h].asks : h \in DOMAIN Menu}
    BY <1>2 DEF Lists
  <2>2. k \in UNION {DOMAIN Menu[h].asks : h \in DOMAIN Menu}
    BY <1>2, <2>1, Zenon
  <2> QED BY <2>2, Zenon DEF Openings
<1>3. ASSUME Lists, NEW k \in DOMAIN Menu[host].direct
      PROVE  k \in Directs
  <2>1. DOMAIN Menu[host].direct \in {DOMAIN Menu[h].direct : h \in DOMAIN Menu}
    BY <1>3, Zenon DEF Lists
  <2> QED BY <1>3, <2>1, Zenon DEF Directs
<1> QED BY <1>1, <1>2, <1>3

\* The key on screen goes with its dialog.
LEMMA KeyClosed ==
  ASSUME DialogsTypeOK, KeyIsLast, gone' = gone \cup ({dlg.key} \ {NoKey})
  PROVE  gone' \in SUBSET Nat /\ \A k \in gone' : k <= minted
<1>1. dlg.key \in Nat /\ minted \in Nat /\ gone \in SUBSET Nat
  BY DEF DialogsTypeOK, Dialog
<1>2. \A k \in gone' : k \in gone \/ (k = dlg.key /\ dlg.key # NoKey)
  OBVIOUS
<1>3. dlg.key # NoKey => dlg.key <= minted
  BY <1>1 DEF KeyIsLast
<1> QED BY <1>1, <1>2, <1>3 DEF KeyIsLast

LEMMA MintKept ==
  ASSUME DialogsTypeOK, KeyIsLast, Mints, MintNext
  PROVE  DialogsTypeOK' /\ KeyIsLast' /\ ~Lists'
<1>h. host' = host /\ ~Lists' /\ host \in Host
  <2>1. host' = host
    BY DEF MintNext, CloseMint, OpenMint, SwitchMode, SubmitMint, KeyMinted, Registered,
           MintRefusal, MintLost, Rerendered
  <2> QED BY <2>1, HostsDiffer DEF Mints, Lists, Host
<1>t. /\ dlg \in Dialog /\ sent \in Seq(Request) /\ minted \in Nat /\ rows \in BOOLEAN
      /\ gone \in SUBSET Nat /\ OnlyLastHeard(sent)
  BY DEF DialogsTypeOK, KeyIsLast
<1>k. dlg.key \in Nat /\ dlg.open \in Openings
  BY <1>t DEF Dialog
<1>1. CASE CloseMint
  <2>1. dlg' = Fresh /\ sent' \in {sent, Orphaned} /\ UNCHANGED <<minted, rows>>
        /\ gone' = gone \cup ({dlg.key} \ {NoKey})
    BY <1>1 DEF CloseMint
  <2>2. sent' \in Seq(Request) /\ OnlyLastHeard(sent')
    BY <1>t, <2>1, RequestsLost
  <2> QED BY <1>h, <1>t, <2>1, <2>2, FreshDialog, KeyClosed DEF DialogsTypeOK, KeyIsLast
<1>2. CASE OpenMint
  <2>1. dlg' = [dlg EXCEPT !.open = "create"] /\ UNCHANGED <<sent, minted, rows, gone>>
    BY <1>2 DEF OpenMint
  <2>2. "create" \in Openings
    BY DEF Openings, Mint, ApiKey
  <2>3. dlg' \in Dialog /\ dlg'.key = dlg.key
    BY <1>t, <2>1, <2>2 DEF Dialog
  <2> QED BY <1>h, <2>1, <2>3 DEF DialogsTypeOK, KeyIsLast
<1>3. CASE SwitchMode
  <2>1. PICK m \in DOMAIN Asks : dlg' = [Fresh EXCEPT !.open = m]
    BY <1>3 DEF SwitchMode, Asks
  <2>2. UNCHANGED <<sent, minted, rows>> /\ gone' = gone \cup ({dlg.key} \ {NoKey})
    BY <1>3 DEF SwitchMode
  <2>3. dlg' \in Dialog /\ dlg'.key = NoKey
    BY <2>1, FreshDialog, ModesAreOpenings DEF Dialog
  <2> QED BY <1>h, <1>t, <2>2, <2>3, KeyClosed DEF DialogsTypeOK, KeyIsLast
<1>4. CASE SubmitMint
  <2>1. dlg.key = NoKey /\ ~Under /\ Send(dlg.open) /\ UNCHANGED <<dlg, minted, rows, gone>>
    BY <1>4 DEF SubmitMint
  <2>2. sent' \in Seq(Request) /\ OnlyLastHeard(sent')
    BY <1>t, <1>k, <2>1, RequestSent
  <2> QED BY <1>h, <1>t, <2>1, <2>2 DEF DialogsTypeOK, KeyIsLast
<1>5. CASE KeyMinted
  <2>1. sent # <<>> /\ sent' = Tail(sent) /\ minted' = minted + 1 /\ rows' \in BOOLEAN
        /\ gone' = gone
    BY <1>5, <1>t DEF KeyMinted, Answers, Answer
  <2>2. /\ sent' \in Seq(Request) /\ OnlyLastHeard(sent') /\ (Head(sent).heard => sent' = <<>>)
    BY <1>t, <2>1, RequestAnswered
  <2>3. dlg.key = NoKey /\ \A k \in gone : k <= minted
    BY <2>1 DEF KeyIsLast
  <2>4. minted' \in Nat /\ \A k \in gone : k <= minted' /\ k # minted'
    BY <1>t, <2>1, <2>3, SMT
  <2>5. dlg' \in {Fresh, dlg} \/ (Head(sent).heard /\ dlg' = [dlg EXCEPT !.key = minted', !.error = FALSE])
    BY <1>5 DEF KeyMinted
  <2>6. CASE dlg' \in {Fresh, dlg}
    BY <1>h, <1>t, <2>1, <2>2, <2>3, <2>4, <2>6, FreshDialog DEF DialogsTypeOK, KeyIsLast
  <2>7. CASE Head(sent).heard /\ dlg' = [dlg EXCEPT !.key = minted', !.error = FALSE]
    <3>1. dlg' \in Dialog /\ dlg'.key = minted'
      BY <1>t, <2>4, <2>7 DEF Dialog
    <3> QED BY <1>h, <2>1, <2>2, <2>4, <2>7, <3>1 DEF DialogsTypeOK, KeyIsLast
  <2> QED BY <2>5, <2>6, <2>7
<1>6. CASE Registered \/ MintRefusal
  <2>1. /\ sent # <<>> /\ sent' = Tail(sent) /\ UNCHANGED <<minted, rows, gone>>
        /\ \E b \in BOOLEAN : dlg' \in {dlg, [dlg EXCEPT !.error = b]}
    BY <1>6 DEF Registered, MintRefusal, Answers, Answer
  <2>2. sent' \in Seq(Request) /\ OnlyLastHeard(sent')
    BY <1>t, <2>1, RequestAnswered
  <2>3. dlg' \in Dialog /\ dlg'.key = dlg.key /\ dlg.key = NoKey
    BY <1>t, <2>1 DEF Dialog, KeyIsLast
  <2> QED BY <1>h, <1>t, <2>1, <2>2, <2>3 DEF DialogsTypeOK, KeyIsLast
<1>7. CASE MintLost
  <2>1. /\ sent # <<>> /\ dlg' = Fresh /\ sent' = Tail(Orphaned) /\ gone' = gone
        /\ rows' \in BOOLEAN /\ (minted' = minted \/ minted' = minted + 1)
    BY <1>7, <1>t DEF MintLost, ScreenLost
  <2>2. Orphaned # <<>>
    BY <1>t, <2>1, RequestsLost, EmptySeq, SMT
  <2>3. sent' \in Seq(Request) /\ OnlyLastHeard(sent')
    BY <1>t, <2>1, <2>2, RequestsLost, RequestAnswered
  <2>4. minted' \in Nat /\ \A k \in gone : k <= minted'
    BY <1>t, <2>1, SMT DEF KeyIsLast
  <2> QED BY <1>h, <1>t, <2>1, <2>3, <2>4, FreshDialog DEF DialogsTypeOK, KeyIsLast
<1>8. CASE Rerendered
  <2>1. /\ dlg' = Fresh /\ sent' = Orphaned /\ minted' = minted /\ rows' \in BOOLEAN
        /\ gone' = gone \cup ({dlg.key} \ {NoKey})
    BY <1>8 DEF Rerendered
  <2>2. sent' \in Seq(Request) /\ OnlyLastHeard(sent')
    BY <1>t, <2>1, RequestsLost
  <2> QED BY <1>h, <1>t, <2>1, <2>2, FreshDialog, KeyClosed DEF DialogsTypeOK, KeyIsLast
<1> QED BY <1>h, <1>1, <1>2, <1>3, <1>4, <1>5, <1>6, <1>7, <1>8 DEF MintNext

\* What a menu's step may do to its dialog.
LEMMA MenuKept ==
  ASSUME DialogsTypeOK, DialogsInvariant, Lists, MenuNext
  PROVE  DialogsTypeOK' /\ DialogsInvariant' /\ Lists'
<1>h. /\ host' = host /\ UNCHANGED <<minted, rows, gone>> /\ Lists' /\ InHost' = InHost
      /\ host \in Host
  <2>1. UNCHANGED <<host, minted, rows, gone>>
    BY DEF MenuNext, OpenMenu, CloseMenu, TypeName, SubmitMenu, Switch, Switched, MenuDone,
           MenuRemoved, MenuRefused, MenuLost
  <2> QED BY <2>1 DEF Lists, InHost, Host
<1>t. /\ dlg \in Dialog /\ sent \in Seq(Request) /\ minted \in Nat /\ rows \in BOOLEAN
      /\ gone \in SUBSET Nat /\ OnlyLastHeard(sent) /\ dlg.key = NoKey
      /\ \A k \in gone : k <= minted
  BY DEF DialogsTypeOK, DialogsInvariant, KeyIsLast
<1>k. dlg.open \in Openings /\ "no" \in Openings
  BY <1>t DEF Dialog, Openings
<1>g. ASSUME dlg' \in Dialog, dlg'.key = NoKey, sent' \in Seq(Request), OnlyLastHeard(sent'),
             TypedHere'
      PROVE  DialogsTypeOK' /\ DialogsInvariant' /\ Lists'
  BY <1>h, <1>t, <1>g DEF DialogsTypeOK, DialogsInvariant, KeyIsLast
<1>1. CASE OpenMenu
  <2>1. PICK k \in DOMAIN Menu[host].asks :
          dlg' = IF InHost THEN [dlg EXCEPT !.open = k] ELSE [Fresh EXCEPT !.open = k]
    BY <1>1 DEF OpenMenu
  <2>2. sent' = sent
    BY <1>1 DEF OpenMenu
  <2>3. k \in Openings
    BY ModesAreOpenings
  <2>4. dlg' \in Dialog /\ dlg'.key = NoKey /\ (~InHost => ~dlg'.typed)
    BY <1>t, <2>1, <2>3, FreshDialog DEF Dialog
  <2> QED BY <1>g, <1>h, <1>t, <2>2, <2>4 DEF TypedHere
<1>2. CASE CloseMenu
  <2>1. dlg' = [dlg EXCEPT !.open = "no", !.error = IF InHost THEN FALSE ELSE @]
        /\ sent' \in {sent, Orphaned}
    BY <1>2 DEF CloseMenu
  <2>2. sent' \in Seq(Request) /\ OnlyLastHeard(sent')
    BY <1>t, <2>1, RequestsLost
  <2>3. dlg' \in Dialog /\ dlg'.key = NoKey /\ dlg'.open = "no"
    BY <1>t, <1>k, <2>1 DEF Dialog
  <2> QED BY <1>g, <2>2, <2>3 DEF TypedHere
<1>3. CASE TypeName
  <2>1. dlg' = [dlg EXCEPT !.typed = TRUE, !.since = TRUE] /\ sent' = sent
    BY <1>3 DEF TypeName
  <2>2. dlg' \in Dialog /\ dlg'.key = NoKey /\ dlg'.since
    BY <1>t, <2>1 DEF Dialog
  <2> QED BY <1>g, <1>t, <2>1, <2>2 DEF TypedHere
<1>4. CASE SubmitMenu \/ Switch
  <2>1. ~Under /\ dlg' = dlg /\ \E op \in Openings \cup Directs : Send(op)
    BY <1>4, <1>k, ModesAreOpenings DEF SubmitMenu, Switch, CanSubmit
  <2>2. sent' \in Seq(Request) /\ OnlyLastHeard(sent')
    BY <1>t, <2>1, RequestSent
  <2> QED BY <1>g, <1>h, <1>t, <2>1, <2>2 DEF TypedHere, DialogsInvariant
<1>5. CASE Switched \/ MenuDone \/ MenuRefused
  <2>1. /\ sent # <<>> /\ sent' = Tail(sent)
        /\ \/ dlg' = dlg
           \/ dlg' = [dlg EXCEPT !.error = TRUE]
           \/ dlg' = [dlg EXCEPT !.open = "no", !.error = IF InHost THEN FALSE ELSE @]
    BY <1>5 DEF Switched, MenuDone, MenuRefused, Answers, Answer
  <2>2. sent' \in Seq(Request) /\ OnlyLastHeard(sent')
    BY <1>t, <2>1, RequestAnswered
  <2>3. /\ dlg' \in Dialog /\ dlg'.key = NoKey /\ dlg'.typed = dlg.typed /\ dlg'.since = dlg.since
        /\ dlg'.open \in {dlg.open, "no"}
    BY <1>t, <1>k, <2>1 DEF Dialog
  <2> QED BY <1>g, <1>h, <2>2, <2>3 DEF TypedHere, DialogsInvariant
<1>6. CASE MenuRemoved \/ MenuLost
  <2>1. sent # <<>> /\ dlg' = Fresh /\ sent' = Tail(Orphaned)
    BY <1>6 DEF MenuRemoved, MenuLost, ScreenLost
  <2>2. Orphaned # <<>>
    BY <1>t, <2>1, RequestsLost, EmptySeq, SMT
  <2>3. sent' \in Seq(Request) /\ OnlyLastHeard(sent')
    BY <1>t, <2>1, <2>2, RequestsLost, RequestAnswered
  <2> QED BY <1>g, <2>1, <2>3, FreshDialog DEF TypedHere
<1> QED BY <1>1, <1>2, <1>3, <1>4, <1>5, <1>6 DEF MenuNext

LEMMA DialogsKept ==
  ASSUME DialogsTypeOK, DialogsInvariant, [DialogsNext]_dialogVars
  PROVE  DialogsTypeOK' /\ DialogsInvariant'
<1>1. CASE UNCHANGED dialogVars
  BY <1>1, Zenon DEF DialogsTypeOK, DialogsInvariant, KeyIsLast, TypedHere, OnlyLastHeard, Lists,
                     InHost, dialogVars
<1>2. CASE MintNext
  <2>1. Mints
    BY <1>2 DEF MintNext, CloseMint, OpenMint, SwitchMode, SubmitMint, KeyMinted, Registered,
                MintRefusal, MintLost, Rerendered
  <2> QED BY <1>2, <2>1, MintKept DEF DialogsInvariant, TypedHere
<1>3. CASE MenuNext
  <2>1. Lists
    BY <1>3 DEF MenuNext, OpenMenu, CloseMenu, TypeName, SubmitMenu, Switch, Switched, MenuDone,
                MenuRemoved, MenuRefused, MenuLost
  <2> QED BY <1>3, <2>1, MenuKept
<1> QED BY <1>1, <1>2, <1>3 DEF DialogsNext

LEMMA DialogsAlways == DialogsSpec => [](DialogsTypeOK /\ DialogsInvariant)
<1>1. DialogsInit => DialogsTypeOK /\ DialogsInvariant
  <2> SUFFICES ASSUME DialogsInit PROVE DialogsTypeOK /\ DialogsInvariant
    OBVIOUS
  <2>1. sent \in Seq(Request) /\ Len(sent) = 0
    BY EmptySeq DEF DialogsInit
  <2>2. DialogsTypeOK
    BY <2>1, FreshDialog DEF DialogsInit, DialogsTypeOK
  <2>3. OnlyLastHeard(sent)
    BY <2>1, SMT DEF OnlyLastHeard
  <2>4. KeyIsLast /\ TypedHere
    BY <2>3, FreshDialog DEF DialogsInit, KeyIsLast, TypedHere
  <2> QED BY <2>2, <2>4 DEF DialogsInvariant
<1>2. (DialogsTypeOK /\ DialogsInvariant) /\ [DialogsNext]_dialogVars
        => (DialogsTypeOK /\ DialogsInvariant)'
  BY DialogsKept
<1> QED BY <1>1, <1>2, PTL DEF DialogsSpec

\* A key whose dialog was closed over it is not shown again, and the key on screen is
\* the last one minted (handleOpenChange of the dialogs that reveal a key).
THEOREM KeysAreShownOnce == DialogsSpec => []ShownOnce
<1>1. DialogsInvariant => ShownOnce
  BY DEF DialogsInvariant, KeyIsLast, ShownOnce
<1> QED BY <1>1, DialogsAlways, PTL

\* A deletion of a machine or a user is sent with a name typed since the dialog was
\* opened (the forms mounted while open, CanSubmit).
THEOREM DeletionsAreTyped == DialogsSpec => DeleteIsTyped
<1> DEFINE Typed == Lists /\ ~InHost /\ Len(sent') > Len(sent) /\ dlg.open = "delete" => dlg.since
<1>1. ASSUME DialogsTypeOK, DialogsInvariant, [DialogsNext]_dialogVars
      PROVE  [Typed]_dialogVars
  <2> SUFFICES ASSUME DialogsNext, Lists, ~InHost, Len(sent') > Len(sent), dlg.open = "delete"
               PROVE  dlg.since
    BY <1>1
  <2>t. sent \in Seq(Request) /\ Len(sent) \in Nat /\ OnlyLastHeard(sent)
    BY <1>1, LenProperties DEF DialogsTypeOK, DialogsInvariant, KeyIsLast
  <2>1. MenuNext
    <3>1. ~Mints
      BY HostsDiffer DEF Mints, Lists
    <3> QED BY <3>1 DEF DialogsNext, MintNext, CloseMint, OpenMint, SwitchMode, SubmitMint,
                        KeyMinted, Registered, MintRefusal, MintLost, Rerendered
  <2>2. CASE SubmitMenu
    BY <1>1, <2>2 DEF SubmitMenu, CanSubmit, DialogsInvariant, TypedHere
  <2>3. CASE OpenMenu \/ TypeName \/ Switch
    BY <2>t, <2>3, SMT DEF OpenMenu, TypeName, Switch
  <2>4. CASE CloseMenu
    BY <2>t, <2>4, RequestsLost, SMT DEF CloseMenu
  <2>5. CASE Switched \/ MenuDone \/ MenuRefused
    <3>1. sent # <<>> /\ sent' = Tail(sent)
      BY <2>5 DEF Switched, MenuDone, MenuRefused, Answers, Answer
    <3> QED BY <2>t, <3>1, RequestAnswered, SMT
  <2>6. CASE MenuRemoved \/ MenuLost
    <3>1. sent # <<>> /\ sent' = Tail(Orphaned)
      BY <2>6 DEF MenuRemoved, MenuLost, ScreenLost
    <3>2. Orphaned \in Seq(Request) /\ Len(Orphaned) = Len(sent) /\ Orphaned # <<>>
          /\ OnlyLastHeard(Orphaned)
      BY <2>t, <3>1, RequestsLost, EmptySeq, SMT
    <3> QED BY <2>t, <3>1, <3>2, RequestAnswered, SMT
  <2> QED BY <2>1, <2>2, <2>3, <2>4, <2>5, <2>6 DEF MenuNext
<1> QED BY <1>1, DialogsAlways, PTL DEF DialogsSpec, DeleteIsTyped

-----------------------------------------------------------------------------
(* The pages that read: types                                              *)

Enrolment == [present : {TRUE}, online : BOOLEAN, expiry : Expiry, rejected : BOOLEAN,
              available : SUBSET Route, approved : SUBSET Route, served : SUBSET Route]
MadeKey == [present : {TRUE}, expiry : Expiry, reusable : BOOLEAN, used : BOOLEAN]

OverviewTypeOK ==
  /\ today \in 0 .. LastDay /\ own \in Expiry
  /\ machine \in [1 .. Machines -> Enrolment \cup {None_}]
  /\ authKey \in [1 .. AuthKeys -> MadeKey \cup {None_}]

\* Headscale serves what is advertised and approved.
ServedIsApproved ==
  \A n \in Enrolled : machine[n].served \subseteq machine[n].available \cap machine[n].approved

OverviewInvariant == OverviewTypeOK /\ ServedIsApproved

LEMMA Days ==
  /\ LastDay \in Nat /\ FUTURE \in Nat /\ Never \in Nat /\ LastDay < Never
  /\ Expiry \subseteq Nat /\ Never \in Expiry
  /\ SOON \in Nat /\ WARN \in Nat /\ PAST \in Nat /\ MAX_ITEMS \in Nat
  /\ Machines \in Nat /\ AuthKeys \in Nat
<1>1. {Machines, AuthKeys, SOON, WARN, PAST, FUTURE, MAX_ITEMS, LastDay} \subseteq Nat
  BY OverviewAssumption
<1> QED BY <1>1, SMT DEF Never, Expiry

LEMMA PresentTypes ==
  /\ None_ \notin Enrolment /\ None_ \notin MadeKey /\ ~None_.present
  /\ \A m \in Enrolment : m.present
  /\ \A k \in MadeKey : k.present
<1>1. ~None_.present
  BY DEF None_
<1>2. \A m \in Enrolment : m.present
  BY DEF Enrolment
<1>3. \A k \in MadeKey : k.present
  BY DEF MadeKey
<1> QED BY <1>1, <1>2, <1>3

LEMMA EnrolledTypes ==
  ASSUME OverviewTypeOK
  PROVE  /\ \A n \in 1 .. Machines : machine[n].present => machine[n] \in Enrolment
         /\ \A k \in 1 .. AuthKeys : authKey[k].present => authKey[k] \in MadeKey
         /\ \A n \in Enrolled : machine[n] \in Enrolment
         /\ \A k \in Kept : authKey[k] \in MadeKey
<1>1. \A n \in 1 .. Machines : machine[n] \in Enrolment \/ machine[n] = None_
  BY DEF OverviewTypeOK
<1>2. \A k \in 1 .. AuthKeys : authKey[k] \in MadeKey \/ authKey[k] = None_
  BY DEF OverviewTypeOK
<1> QED BY <1>1, <1>2, PresentTypes DEF Enrolled, Kept

\* A step that writes one machine's record.
LEMMA OneMachine ==
  ASSUME OverviewInvariant, NEW n \in 1 .. Machines, NEW m \in Enrolment \cup {None_},
         m.present => m.served \subseteq m.available \cap m.approved,
         machine' = [machine EXCEPT ![n] = m], UNCHANGED <<today, authKey, own>>
  PROVE  OverviewInvariant'
<1>1. OverviewTypeOK'
  BY DEF OverviewInvariant, OverviewTypeOK
<1>2. \A x \in 1 .. Machines : machine'[x] = IF x = n THEN m ELSE machine[x]
  BY DEF OverviewInvariant, OverviewTypeOK
<1>3. ServedIsApproved'
  BY <1>2 DEF OverviewInvariant, ServedIsApproved, Enrolled
<1> QED BY <1>1, <1>3 DEF OverviewInvariant

LEMMA OneAuthKey ==
  ASSUME OverviewInvariant, NEW k \in 1 .. AuthKeys, NEW new \in MadeKey,
         authKey' = [authKey EXCEPT ![k] = new], UNCHANGED <<today, machine, own>>
  PROVE  OverviewInvariant'
<1>1. OverviewTypeOK'
  BY DEF OverviewInvariant, OverviewTypeOK
<1>2. ServedIsApproved'
  BY DEF OverviewInvariant, ServedIsApproved, Enrolled
<1> QED BY <1>1, <1>2 DEF OverviewInvariant

\* A machine that changes: what is served stays advertised and approved.
LEMMA OneChange ==
  ASSUME NEW n \in 1 .. Machines, machine \in [1 .. Machines -> Enrolment \cup {None_}],
         machine[n] \in Enrolment,
         machine[n].served \subseteq machine[n].available \cap machine[n].approved,
         Changes(n)
  PROVE  \E m \in Enrolment : /\ m.served \subseteq m.available \cap m.approved
                              /\ machine' = [machine EXCEPT ![n] = m]
<1> DEFINE was == machine[n]
           Fine(m) == /\ m \in Enrolment /\ m.served \subseteq m.available \cap m.approved
                      /\ machine' = [machine EXCEPT ![n] = m]
<1>0. /\ was \in Enrolment /\ was.served \subseteq was.available \cap was.approved
      /\ DOMAIN machine = 1 .. Machines
  OBVIOUS
<1>1. CASE machine' = [machine EXCEPT ![n].online = ~@]
  <2>1. Fine([was EXCEPT !.online = ~@])
    BY <1>0, <1>1 DEF Enrolment
  <2> QED BY <2>1
<1>6. CASE machine' = [machine EXCEPT ![n].rejected = ~@]
  <2>1. Fine([was EXCEPT !.rejected = ~@])
    BY <1>0, <1>6 DEF Enrolment
  <2> QED BY <2>1
<1>2. ASSUME NEW e \in Expiry, machine' = [machine EXCEPT ![n].expiry = e]
      PROVE  \E m \in Enrolment : Fine(m)
  <2>1. Fine([was EXCEPT !.expiry = e])
    BY <1>0, <1>2 DEF Enrolment
  <2> QED BY <2>1
<1>3. ASSUME NEW r \in SUBSET Route,
             machine' = [machine EXCEPT ![n].available = r, ![n].served = @ \cap r]
      PROVE  \E m \in Enrolment : Fine(m)
  <2>1. Fine([was EXCEPT !.available = r, !.served = @ \cap r])
    BY <1>0, <1>3 DEF Enrolment
  <2> QED BY <2>1
<1>4. ASSUME NEW r \in SUBSET Route,
             machine' = [machine EXCEPT ![n].approved = r, ![n].served = @ \cap r]
      PROVE  \E m \in Enrolment : Fine(m)
  <2>1. Fine([was EXCEPT !.approved = r, !.served = @ \cap r])
    BY <1>0, <1>4 DEF Enrolment
  <2> QED BY <2>1
<1>5. ASSUME NEW r \in SUBSET (was.available \cap was.approved),
             machine' = [machine EXCEPT ![n].served = r]
      PROVE  \E m \in Enrolment : Fine(m)
  <2>1. Fine([was EXCEPT !.served = r])
    BY <1>0, <1>5 DEF Enrolment
  <2> QED BY <2>1
<1> QED BY <1>1, <1>2, <1>3, <1>4, <1>5, <1>6 DEF Changes

LEMMA OverviewKept ==
  ASSUME OverviewInvariant, [OverviewNext]_overviewVars
  PROVE  OverviewInvariant'
<1>t. OverviewTypeOK
  BY DEF OverviewInvariant
<1>1. CASE UNCHANGED overviewVars
  BY <1>1, Zenon DEF OverviewInvariant, OverviewTypeOK, ServedIsApproved, Enrolled, overviewVars
<1>2. CASE DayPasses
  <2>1. today' \in 0 .. LastDay
    BY <1>2, <1>t, Days, SMT DEF DayPasses, OverviewTypeOK
  <2> QED BY <1>2, <2>1 DEF DayPasses, OverviewInvariant, OverviewTypeOK, ServedIsApproved, Enrolled
<1>3. ASSUME NEW n \in 1 .. Machines, Enrols(n)
      PROVE  OverviewInvariant'
  <2>1. PICK e \in Expiry : machine' = [machine EXCEPT ![n] =
          [present |-> TRUE, online |-> TRUE, expiry |-> e, rejected |-> FALSE,
           available |-> {}, approved |-> {}, served |-> {}]]
    BY <1>3 DEF Enrols
  <2> DEFINE m == [present |-> TRUE, online |-> TRUE, expiry |-> e, rejected |-> FALSE,
                   available |-> {}, approved |-> {}, served |-> {}]
  <2>2. m \in Enrolment /\ m.served \subseteq m.available \cap m.approved
    BY DEF Enrolment
  <2>3. UNCHANGED <<today, authKey, own>>
    BY <1>3 DEF Enrols
  <2> HIDE DEF m
  <2>4. machine' = [machine EXCEPT ![n] = m]
    BY <2>1 DEF m
  <2> QED BY <2>2, <2>3, <2>4, OneMachine
<1>4. ASSUME NEW n \in 1 .. Machines, Changes(n)
      PROVE  OverviewInvariant'
  <2>1. machine[n].present /\ UNCHANGED <<today, authKey, own>>
    BY <1>4 DEF Changes
  <2>2. /\ machine[n] \in Enrolment /\ n \in Enrolled
        /\ machine[n].served \subseteq machine[n].available \cap machine[n].approved
    BY <1>t, <2>1, EnrolledTypes DEF Enrolled, OverviewInvariant, ServedIsApproved
  <2>3. \E m \in Enrolment : /\ m.served \subseteq m.available \cap m.approved
                             /\ machine' = [machine EXCEPT ![n] = m]
    BY <1>4, <1>t, <2>2, OneChange DEF OverviewTypeOK
  <2> QED BY <2>1, <2>3, OneMachine
<1>5. ASSUME NEW n \in 1 .. Machines, Leaves(n)
      PROVE  OverviewInvariant'
  <2>1. machine' = [machine EXCEPT ![n] = None_] /\ UNCHANGED <<today, authKey, own>>
    BY <1>5 DEF Leaves
  <2> QED BY <2>1, OneMachine, PresentTypes
<1>6. ASSUME NEW k \in 1 .. AuthKeys, KeyMade(k)
      PROVE  OverviewInvariant'
  <2>1. PICK e \in Expiry, r \in BOOLEAN : authKey' = [authKey EXCEPT ![k] =
          [present |-> TRUE, expiry |-> e, reusable |-> r, used |-> FALSE]]
    BY <1>6 DEF KeyMade
  <2>2. [present |-> TRUE, expiry |-> e, reusable |-> r, used |-> FALSE] \in MadeKey
    BY DEF MadeKey
  <2>3. UNCHANGED <<today, machine, own>>
    BY <1>6 DEF KeyMade
  <2> QED BY <2>1, <2>2, <2>3, OneAuthKey
<1>7. ASSUME NEW k \in 1 .. AuthKeys, KeyUsed(k)
      PROVE  OverviewInvariant'
  <2>1. authKey[k] \in MadeKey /\ UNCHANGED <<today, machine, own>>
    BY <1>7, <1>t, EnrolledTypes DEF KeyUsed
  <2>2. authKey' = [authKey EXCEPT ![k] = [authKey[k] EXCEPT !.used = TRUE]]
    BY <1>7 DEF KeyUsed
  <2>3. [authKey[k] EXCEPT !.used = TRUE] \in MadeKey
    BY <2>1 DEF MadeKey
  <2> QED BY <2>1, <2>2, <2>3, OneAuthKey
<1> QED BY <1>1, <1>2, <1>3, <1>4, <1>5, <1>6, <1>7 DEF OverviewNext

LEMMA OverviewAlways == OverviewSpec => []OverviewInvariant
<1>1. OverviewInit => OverviewInvariant
  <2> SUFFICES ASSUME OverviewInit PROVE OverviewInvariant
    OBVIOUS
  <2>1. OverviewTypeOK
    BY Days, SMT DEF OverviewInit, OverviewTypeOK
  <2>2. Enrolled = {}
    BY PresentTypes DEF OverviewInit, Enrolled
  <2> QED BY <2>1, <2>2 DEF OverviewInvariant, ServedIsApproved
<1>2. OverviewInvariant /\ [OverviewNext]_overviewVars => OverviewInvariant'
  BY OverviewKept
<1> QED BY <1>1, <1>2, PTL DEF OverviewSpec

-----------------------------------------------------------------------------
(* The pages that read: they agree                                         *)

\* The list's view of a machine and its page's are the same, but that only the
\* list has the served routes.
LEMMA TwoViews ==
  ASSUME OverviewInvariant, NEW n \in Enrolled
  PROVE  /\ OnItsPage(n).expired = InList(n).expired
         /\ OnItsPage(n).expiresSoon = InList(n).expiresSoon
         /\ OnItsPage(n).invalidTags = InList(n).invalidTags
         /\ OnItsPage(n).isExitNode = InList(n).isExitNode
         /\ OnItsPage(n).advertisesExit = InList(n).advertisesExit
         /\ OnItsPage(n).enabledRoutes = InList(n).enabledRoutes
         /\ OnItsPage(n).pendingRoutes = InList(n).pendingRoutes
         /\ OnItsPage(n).subnetRoutes = {}
         /\ InList(n).subnetRoutes \subseteq InList(n).enabledRoutes
<1>1. machine[n].served \subseteq machine[n].available \cap machine[n].approved
  BY DEF OverviewInvariant, ServedIsApproved
<1>2. ("exit" \in machine[n].served \cup (machine[n].available \cap machine[n].approved))
        = ("exit" \in {} \cup (machine[n].available \cap machine[n].approved))
  BY <1>1
<1> QED BY <1>1, <1>2 DEF InList, OnItsPage, toNodeView

View == [online : BOOLEAN, expired : BOOLEAN, expiresSoon : BOOLEAN, invalidTags : BOOLEAN,
         isExitNode : BOOLEAN, advertisesExit : BOOLEAN, subnetRoutes : SUBSET Route,
         enabledRoutes : SUBSET Route, staleApprovals : SUBSET Route,
         pendingRoutes : SUBSET Route]

\* A view: a machine is not expired and about to.
LEMMA ViewTypes ==
  ASSUME OverviewInvariant, NEW n \in Enrolled
  PROVE  InList(n) \in View /\ ~(InList(n).expired /\ InList(n).expiresSoon)
<1>1. machine[n] \in Enrolment /\ today \in Nat /\ machine[n].expiry \in Nat
  <2>1. machine[n] \in Enrolment /\ today \in 0 .. LastDay
    BY EnrolledTypes DEF OverviewInvariant, OverviewTypeOK
  <2>2. machine[n].expiry \in Expiry
    BY <2>1 DEF Enrolment
  <2>3. today \in Nat
    BY <2>1, Days, SMT
  <2>4. machine[n].expiry \in Nat
    BY <2>2, Days
  <2> QED BY <2>1, <2>3, <2>4
<1>2. InList(n) \in View
  <2>1. /\ machine[n].online \in BOOLEAN /\ machine[n].rejected \in BOOLEAN
        /\ machine[n].available \in SUBSET Route /\ machine[n].approved \in SUBSET Route
        /\ machine[n].served \in SUBSET Route
    BY <1>1 DEF Enrolment
  <2>2. /\ expired(machine[n].expiry) \in BOOLEAN /\ expiresSoon(machine[n].expiry) \in BOOLEAN
    BY DEF expired, expiresSoon
  <2> HIDE DEF View
  <2> QED BY <2>1, <2>2 DEF InList, toNodeView, View
<1>3. ~(expired(machine[n].expiry) /\ expiresSoon(machine[n].expiry))
  BY <1>1, Days, SMT DEF expired, expiresSoon
<1>4. /\ InList(n).expired = expired(machine[n].expiry)
      /\ InList(n).expiresSoon = expiresSoon(machine[n].expiry)
  BY DEF InList, toNodeView
<1> QED BY <1>2, <1>3, <1>4

\* The chips of a card in the list, one by one.
LEMMA Chips ==
  ASSUME NEW v
  PROVE  /\ HostCard(v) \subseteq {"exit", "exit pending", "served", "pending", "expired",
                                   "expiring", "invalid"}
         /\ "exit pending" \in HostCard(v) <=> v.advertisesExit
         /\ "expired" \in HostCard(v) <=> v.expired
         /\ "expiring" \in HostCard(v) <=> v.expiresSoon
         /\ "pending" \in HostCard(v) <=> v.pendingRoutes # {}
         /\ "invalid" \in HostCard(v) <=> v.invalidTags
         /\ MachineRow(v) = HostCard(v) \ {"expired"}
BY DEF HostCard, MachineRow, Chip

\* The machine's page bears the marks of its card, which counts what is served.
LEMMA PageMarks ==
  ASSUME NEW v, NEW p,
         p.expired = v.expired, p.expiresSoon = v.expiresSoon, p.invalidTags = v.invalidTags,
         p.isExitNode = v.isExitNode, p.advertisesExit = v.advertisesExit,
         p.pendingRoutes = v.pendingRoutes
  PROVE  MachineDetail(p) = HostCard(v) \ {"served"}
<1>1. RoutesCard(p).pending = v.pendingRoutes
  BY DEF RoutesCard
<1>2. MachineDetail(p) = DetailHeader(v) \cup IdentityCard(v) \cup Chip("pending", v.pendingRoutes # {})
  BY <1>1 DEF MachineDetail, DetailHeader, IdentityCard
<1> QED BY <1>2 DEF DetailHeader, IdentityCard, HostCard, Chip

\* What the row, the segments, the export and the dashboard make of one view.
LEMMA MarksAgree ==
  ASSUME NEW v \in View, ~(v.expired /\ v.expiresSoon)
  PROVE  /\ matchesStatus(v, "issues") <=>
              edgeStatus(v) = "critical" \/ MachineRow(v) \ {"exit", "served"} # {}
         /\ toAttention(v) = "none" => matchesStatus(v, "online") /\ ~v.expiresSoon
         /\ toAttention(v) \in {"expired", "expiring"} => matchesStatus(v, "issues")
         /\ \A f \in {"online", "offline"} : matchesStatus(v, f) <=> cellsFor(v).status = f
<1>1. matchesStatus(v, "issues") <=> hasIssue(v)
  BY DEF matchesStatus
<1>2. hasIssue(v) <=> edgeStatus(v) = "critical" \/ MachineRow(v) \ {"exit", "served"} # {}
  <2>1. edgeStatus(v) = "critical" <=> v.expired
    BY DEF edgeStatus, nodeDot
  <2> DEFINE row == MachineRow(v)
             Issue == {"exit pending", "expiring", "pending", "invalid"}
  <2>2. /\ row \subseteq Issue \cup {"exit", "served"}
        /\ "exit pending" \in row <=> v.advertisesExit
        /\ "expiring" \in row <=> v.expiresSoon
        /\ "pending" \in row <=> v.pendingRoutes # {}
        /\ "invalid" \in row <=> v.invalidTags
    BY Chips
  <2> HIDE DEF row
  <2>3. ASSUME NEW x \in row \ {"exit", "served"}
        PROVE  x \in Issue
    BY <2>2, <2>3
  <2>4. ASSUME NEW x \in Issue, x \in row
        PROVE  x \in row \ {"exit", "served"}
    BY <2>4
  <2>5. row \ {"exit", "served"} # {} <=> \E x : x \in row \ {"exit", "served"}
    BY Zenon
  <2>6. row \ {"exit", "served"} # {} <=>
          v.advertisesExit \/ v.expiresSoon \/ v.pendingRoutes # {} \/ v.invalidTags
    BY <2>2, <2>3, <2>4, <2>5
  <2> QED BY <2>1, <2>6 DEF hasIssue, row
<1>3. toAttention(v) = "none" => matchesStatus(v, "online") /\ ~v.expiresSoon
  BY DEF toAttention, matchesStatus
<1>4. toAttention(v) \in {"expired", "expiring"} => hasIssue(v)
  BY DEF toAttention, hasIssue
<1>5. \A f \in {"online", "offline"} : matchesStatus(v, f) <=> cellsFor(v).status = f
  BY DEF matchesStatus, cellsFor
<1> QED BY <1>1, <1>2, <1>3, <1>4, <1>5

\* What a key still enrols, and what the tables make of it.
LEMMA KeysAgree ==
  ASSUME OverviewInvariant, NEW k \in Kept
  PROVE  /\ Enrolling(authKey[k]) <=> ~isInactive(authKey[k])
         /\ Enrolling(authKey[k]) <=> StateChip(authKey[k]) \in {"active", "expiring"}
         /\ authKey[k].expiry <= today <=> StateChip(authKey[k]) = "expired"
<1> DEFINE key == authKey[k]
<1>1. key \in MadeKey /\ today \in 0 .. LastDay
  BY EnrolledTypes DEF OverviewInvariant, OverviewTypeOK
<1>2. key.expiry \in Nat /\ today \in Nat /\ today < Never /\ key.reusable \in BOOLEAN
      /\ key.used \in BOOLEAN
  <2>1. key.expiry \in Expiry /\ key.reusable \in BOOLEAN /\ key.used \in BOOLEAN
    BY <1>1 DEF MadeKey
  <2>2. today \in Nat /\ today < Never
    BY <1>1, Days, SMT
  <2> QED BY <2>1, <2>2, Days
<1> HIDE DEF key
<1>3. describeExpiry(key.expiry) = "expired" <=> key.expiry <= today
  BY <1>2, Days, SMT DEF describeExpiry
<1>4. ~(key.expiry <= today) <=> key.expiry > today
  BY <1>2, SMT
<1>5. Enrolling(key) <=> ~isInactive(key)
  BY <1>2, <1>3, <1>4 DEF Enrolling, isInactive
<1>6. StateChip(key) \in {"active", "expiring"} <=> ~isInactive(key)
  BY DEF StateChip, isInactive
<1>7. StateChip(key) = "expired" <=> key.expiry <= today
  BY <1>3 DEF StateChip
<1> QED BY <1>5, <1>6, <1>7 DEF key

\* Pages rendered at the same moment say the same of a machine and of a key
\* (lib/machines, the list, its export, the machine's page, the key tables and the
\* dashboard), though only the list has the served routes and no header has the
\* rejected tags.
THEOREM PagesDoAgree == OverviewSpec => []PagesAgree
<1>1. ASSUME OverviewInvariant
      PROVE  PagesAgree
  <2>1. ASSUME NEW n \in Enrolled
        PROVE  LET list == InList(n)  itsPage == OnItsPage(n)
                   card == RoutesCard(itsPage)  row == MachineRow(list)  cells == cellsFor(list)
               IN /\ MachineDetail(itsPage) = HostCard(list) \ {"served"}
                  /\ row = HostCard(list) \ {"expired"}
                  /\ cells.subnet \subseteq card.routes /\ cells.pending = card.pending
                  /\ card.exit = "active" <=> cells.exit = "exit"
                  /\ card.exit = "pending" <=> cells.exit = "exit(pending)"
                  /\ matchesStatus(list, "issues") <=>
                       edgeStatus(list) = "critical" \/ row \ {"exit", "served"} # {}
                  /\ n \notin Attention => matchesStatus(list, "online") /\ ~list.expiresSoon
                  /\ toAttention(list) \in {"expired", "expiring"} => matchesStatus(list, "issues")
                  /\ \A f \in {"online", "offline"} :
                       matchesStatus(list, f) <=> cells.status = f
                  /\ \A e \in expiryEvents, tone \in {"critical", "warn"} : e.of = n =>
                       /\ e.tone = tone <=> LifecycleCard(itsPage) = tone
                       /\ e.tone = tone <=> lifecycleEvents(itsPage) = tone
    <3> DEFINE v == InList(n)
               p == OnItsPage(n)
    <3>1. v \in View /\ ~(v.expired /\ v.expiresSoon)
      BY <1>1, ViewTypes
    <3>2. /\ p.expired = v.expired /\ p.expiresSoon = v.expiresSoon
          /\ p.invalidTags = v.invalidTags /\ p.isExitNode = v.isExitNode
          /\ p.advertisesExit = v.advertisesExit /\ p.enabledRoutes = v.enabledRoutes
          /\ p.pendingRoutes = v.pendingRoutes
          /\ p.subnetRoutes = {} /\ v.subnetRoutes \subseteq v.enabledRoutes
      BY <1>1, TwoViews
    <3>3. n \notin Attention => toAttention(v) = "none"
      BY DEF Attention
    <3>4. ASSUME NEW e \in expiryEvents, e.of = n
          PROVE  e.tone = IF v.expired THEN "critical" ELSE IF v.expiresSoon THEN "warn" ELSE "healthy"
      <4>1. PICK m \in Enrolled :
              e = [of |-> m, tone |-> IF InList(m).expired THEN "critical"
                                      ELSE IF InList(m).expiresSoon THEN "warn" ELSE "healthy"]
        BY DEF expiryEvents
      <4> QED BY <3>4, <4>1
    <3>n. InList(n) = v /\ OnItsPage(n) = p
      OBVIOUS
    <3> HIDE DEF v, p
    <3>5. MachineDetail(p) = HostCard(v) \ {"served"}
      BY <3>2, PageMarks
    <3>6. MachineRow(v) = HostCard(v) \ {"expired"}
      BY Chips
    <3>7. /\ matchesStatus(v, "issues") <=>
               edgeStatus(v) = "critical" \/ MachineRow(v) \ {"exit", "served"} # {}
          /\ toAttention(v) = "none" => matchesStatus(v, "online") /\ ~v.expiresSoon
          /\ toAttention(v) \in {"expired", "expiring"} => matchesStatus(v, "issues")
          /\ \A f \in {"online", "offline"} : matchesStatus(v, f) <=> cellsFor(v).status = f
      BY <3>1, MarksAgree
    <3>8. /\ cellsFor(v).subnet \subseteq RoutesCard(p).routes
          /\ cellsFor(v).pending = RoutesCard(p).pending
          /\ RoutesCard(p).exit = "active" <=> cellsFor(v).exit = "exit"
          /\ RoutesCard(p).exit = "pending" <=> cellsFor(v).exit = "exit(pending)"
      BY <3>2 DEF cellsFor, RoutesCard
    <3>9. \A e \in expiryEvents, tone \in {"critical", "warn"} : e.of = n =>
            /\ e.tone = tone <=> LifecycleCard(p) = tone
            /\ e.tone = tone <=> lifecycleEvents(p) = tone
      BY <3>2, <3>4 DEF LifecycleCard, lifecycleEvents
    <3> QED BY <3>n, <3>3, <3>5, <3>6, <3>7, <3>8, <3>9
  <2>2. ASSUME NEW k \in Kept
        PROVE  /\ Enrolling(authKey[k]) <=> k \in PreAuthKeysTable(TRUE)
               /\ Enrolling(authKey[k]) <=> StateChip(authKey[k]) \in {"active", "expiring"}
    BY <1>1, <2>2, KeysAgree DEF PreAuthKeysTable
  <2>3. ASSUME NEW i \in expiringSoon, i.kind = "key"
        PROVE  i.expired <=> StateChip(authKey[i.place]) = "expired"
    <3>1. i \in OwnItems \cup NodeItems \cup AuthKeyItems
      BY DEF expiringSoon
    <3>2. i \in AuthKeyItems
      BY <2>3, <3>1 DEF OwnItems, NodeItems
    <3>3. PICK k \in Kept : i = [kind |-> "key", place |-> k, time |-> authKey[k].expiry,
                                 expired |-> authKey[k].expiry <= today]
      BY <3>2 DEF AuthKeyItems
    <3>4. i.place = k /\ i.expired = (authKey[k].expiry <= today)
      BY <3>3
    <3> QED BY <1>1, <3>4, KeysAgree
  <2> QED BY <2>1, <2>2, <2>3 DEF PagesAgree
<1> QED BY <1>1, OverviewAlways, PTL

-----------------------------------------------------------------------------
(* The pages that read: the list of what expires soon                      *)

\* In a finite set under a strict order, here each item with the set of those before
\* it, whoever has at least N before it has N of the first N before it.
LEMMA FirstOnesFillTheList ==
  ASSUME NEW items, IsFiniteSet(items), NEW Pred \in [items -> SUBSET items],
         \A i \in items : i \notin Pred[i],
         \A i \in items : \A j \in Pred[i] : Pred[j] \subseteq Pred[i],
         NEW N \in Nat, NEW x \in items, Cardinality(Pred[x]) >= N
  PROVE  Cardinality({i \in Pred[x] : Cardinality(Pred[i]) < N}) >= N
<1> DEFINE Late == {i \in {x} \cup Pred[x] : Cardinality(Pred[i]) >= N}
           T == {Pred[i] : i \in Late}
           R == StrictSubsetOrdering(items)
<1>1. \A i \in items : IsFiniteSet(Pred[i]) /\ Cardinality(Pred[i]) \in Nat
  BY FS_Subset, FS_CardinalityType
<1>2. T \subseteq FiniteSubsetsOf(items) /\ T # {}
  <2>1. x \in Late
    OBVIOUS
  <2>2. \A i \in Late : Pred[i] \in FiniteSubsetsOf(items)
    BY <1>1 DEF FiniteSubsetsOf
  <2> QED BY <2>1, <2>2
<1>3. IsWellFoundedOn(R, FiniteSubsetsOf(items))
  BY FS_StrictSubsetOrderingWellFounded
<1>4. \E s \in T : \A u \in T : ~(<<u, s>> \in R)
  <2> HIDE DEF T, R
  <2> QED BY <1>2, <1>3, WFMin
<1>5. PICK y \in Late : \A u \in T : ~(<<u, Pred[y]>> \in R)
  BY <1>4
<1>6. y \in items /\ Pred[y] \subseteq Pred[x] /\ Cardinality(Pred[y]) >= N
  OBVIOUS
<1>7. \A p \in Pred[y] : p \in Pred[x] /\ Cardinality(Pred[p]) < N
  <2> TAKE p \in Pred[y]
  <2>1. p \in Pred[x] /\ p \in items
    BY <1>6
  <2>2. Pred[p] \subseteq Pred[y] /\ p \notin Pred[p] /\ Pred[p] # Pred[y]
    BY <1>6, <2>1
  <2>3. <<Pred[p], Pred[y]>> \in R
    BY <1>6, <2>1, <2>2 DEF StrictSubsetOrdering
  <2>4. p \notin Late
    BY <1>5, <2>3
  <2> QED BY <1>1, <2>1, <2>4, SMT
<1>8. Pred[y] \subseteq {i \in Pred[x] : Cardinality(Pred[i]) < N}
  BY <1>7
<1>9. /\ IsFiniteSet({i \in Pred[x] : Cardinality(Pred[i]) < N})
      /\ Cardinality({i \in Pred[x] : Cardinality(Pred[i]) < N}) \in Nat
  <2>1. IsFiniteSet(Pred[x]) /\ {i \in Pred[x] : Cardinality(Pred[i]) < N} \in SUBSET Pred[x]
    BY <1>1
  <2> QED BY <2>1, FS_Subset, FS_CardinalityType
<1>10. Cardinality(Pred[y]) <= Cardinality({i \in Pred[x] : Cardinality(Pred[i]) < N})
  BY <1>8, <1>9, FS_Subset
<1> QED BY <1>1, <1>6, <1>9, <1>10, SMT

LEMMA ImageIsFinite ==
  ASSUME NEW S, IsFiniteSet(S), NEW f, f = [x \in S |-> f[x]]
  PROVE  IsFiniteSet({f[x] : x \in S})
<1> DEFINE T == {f[x] : x \in S}
<1>1. f \in [S -> T]
  OBVIOUS
<1>2. \A t \in T : \E s \in S : f[s] = t
  OBVIOUS
<1>3. f \in Surjection(S, T)
  BY <1>1, <1>2, Zenon DEF Surjection
<1> HIDE DEF T
<1>4. IsFiniteSet(T)
  BY <1>3, FS_Surjection
<1> QED BY <1>4 DEF T

Items == OwnItems \cup NodeItems \cup AuthKeyItems
Item == [kind : {"own", "node", "key"}, place : Nat, time : Nat, expired : BOOLEAN]

LEMMA ItemsAreFinite == ASSUME OverviewInvariant PROVE IsFiniteSet(Items)
<1>1. IsFiniteSet(1 .. Machines) /\ IsFiniteSet(1 .. AuthKeys)
  BY Days, FS_Interval
<1>2. IsFiniteSet(OwnItems)
  <2> DEFINE S == {e \in {own} : InWindow(e, SOON)}
             f == [e \in S |-> [kind |-> "own", place |-> 0, time |-> e,
                                expired |-> describeExpiry(e) = "expired"]]
  <2>1. IsFiniteSet(S)
    <3>1. IsFiniteSet({own}) /\ S \in SUBSET {own}
      BY FS_Singleton
    <3> QED BY <3>1, FS_Subset
  <2>2. IsFiniteSet({f[e] : e \in S})
    <3>1. f = [e \in S |-> f[e]]
      OBVIOUS
    <3> HIDE DEF S, f
    <3> QED BY <2>1, <3>1, ImageIsFinite
  <2>3. OwnItems = {f[e] : e \in S}
    BY DEF OwnItems
  <2> QED BY <2>2, <2>3
<1>3. IsFiniteSet(NodeItems)
  <2> DEFINE S == {m \in Enrolled : InWindow(machine[m].expiry, SOON)}
             f == [n \in S |-> [kind |-> "node", place |-> n, time |-> machine[n].expiry,
                                expired |-> InList(n).expired]]
  <2>1. IsFiniteSet(S)
    <3>1. S \in SUBSET (1 .. Machines)
      BY DEF Enrolled
    <3> QED BY <1>1, <3>1, FS_Subset
  <2>2. IsFiniteSet({f[n] : n \in S})
    <3>1. f = [n \in S |-> f[n]]
      OBVIOUS
    <3> HIDE DEF S, f
    <3> QED BY <2>1, <3>1, ImageIsFinite
  <2>3. NodeItems = {f[n] : n \in S}
    BY DEF NodeItems
  <2> QED BY <2>2, <2>3
<1>4. IsFiniteSet(AuthKeyItems)
  <2> DEFINE S == {j \in Kept : /\ ~(authKey[j].used /\ ~authKey[j].reusable)
                                /\ InWindow(authKey[j].expiry, SOON)}
             f == [k \in S |-> [kind |-> "key", place |-> k, time |-> authKey[k].expiry,
                                expired |-> authKey[k].expiry <= today]]
  <2>1. IsFiniteSet(S)
    <3>1. S \in SUBSET (1 .. AuthKeys)
      BY DEF Kept
    <3> QED BY <1>1, <3>1, FS_Subset
  <2>2. IsFiniteSet({f[k] : k \in S})
    <3>1. f = [k \in S |-> f[k]]
      OBVIOUS
    <3> HIDE DEF S, f
    <3> QED BY <2>1, <3>1, ImageIsFinite
  <2>3. AuthKeyItems = {f[k] : k \in S}
    BY DEF AuthKeyItems
  <2> QED BY <2>2, <2>3
<1> QED BY <1>2, <1>3, <1>4, FS_Union DEF Items

LEMMA ItemTypes == ASSUME OverviewInvariant PROVE Items \subseteq Item
<1>t. own \in Nat /\ today \in 0 .. LastDay
  BY Days DEF OverviewInvariant, OverviewTypeOK
<1>1. OwnItems \subseteq Item
  <2>1. \A i \in OwnItems : i = [kind |-> "own", place |-> 0, time |-> own,
                                 expired |-> describeExpiry(own) = "expired"]
    BY DEF OwnItems
  <2>2. (describeExpiry(own) = "expired") \in BOOLEAN
    OBVIOUS
  <2>3. [kind |-> "own", place |-> 0, time |-> own, expired |-> describeExpiry(own) = "expired"] \in Item
    BY <1>t, <2>2 DEF Item
  <2> QED BY <2>1, <2>3
<1>2. NodeItems \subseteq Item
  <2>1. ASSUME NEW n \in Enrolled
        PROVE  n \in Nat /\ machine[n].expiry \in Nat /\ InList(n).expired \in BOOLEAN
    <3>1. n \in 1 .. Machines /\ machine[n] \in Enrolment
      BY EnrolledTypes DEF OverviewInvariant, Enrolled
    <3>2. n \in Nat
      BY <3>1, Days, SMT
    <3>3. machine[n].expiry \in Nat
      BY <3>1, Days DEF Enrolment
    <3>4. InList(n).expired \in BOOLEAN
      BY ViewTypes DEF View
    <3> QED BY <3>2, <3>3, <3>4
  <2> QED BY <2>1 DEF NodeItems, Item
<1>3. AuthKeyItems \subseteq Item
  <2>1. ASSUME NEW k \in Kept
        PROVE  /\ k \in Nat /\ authKey[k].expiry \in Nat
               /\ (authKey[k].expiry <= today) \in BOOLEAN
    <3>1. k \in 1 .. AuthKeys /\ authKey[k] \in MadeKey
      BY EnrolledTypes DEF OverviewInvariant, Kept
    <3>2. k \in Nat
      BY <3>1, Days, SMT
    <3>3. authKey[k].expiry \in Nat
      BY <3>1, Days DEF MadeKey
    <3> QED BY <3>2, <3>3
  <2>2. ASSUME NEW i \in AuthKeyItems
        PROVE  i \in Item
    <3>1. PICK k \in Kept : i = [kind |-> "key", place |-> k, time |-> authKey[k].expiry,
                                 expired |-> authKey[k].expiry <= today]
      BY DEF AuthKeyItems
    <3> DEFINE over == authKey[k].expiry <= today
    <3>2. over \in BOOLEAN /\ k \in Nat /\ authKey[k].expiry \in Nat
      BY <2>1
    <3>3. i = [kind |-> "key", place |-> k, time |-> authKey[k].expiry, expired |-> over]
      BY <3>1
    <3> HIDE DEF over
    <3> QED BY <3>2, <3>3 DEF Item
  <2> QED BY <2>2
<1> QED BY <1>1, <1>2, <1>3 DEF Items

\* The order of the list is a strict one.
LEMMA BeforeIsStrict ==
  /\ \A a \in Item : ~Before(a, a)
  /\ \A a, b, c \in Item : Before(a, b) /\ Before(b, c) => Before(a, c)
<1>1. \A a \in Item : /\ a.time \in Nat /\ a.place \in Nat /\ a.expired \in BOOLEAN
                      /\ a.kind \in {"own", "node", "key"} /\ Rank[a.kind] \in Nat
  BY DEF Item, Rank
<1>2. \A a \in Item : ~Before(a, a)
  BY <1>1 DEF Before
<1>3. ASSUME NEW a \in Item, NEW b \in Item, NEW c \in Item, Before(a, b), Before(b, c)
      PROVE  Before(a, c)
  <2> DEFINE Sooner(i, j) == \/ i.time < j.time
                             \/ i.time = j.time /\ Rank[i.kind] < Rank[j.kind]
                             \/ i.time = j.time /\ i.kind = j.kind /\ i.place < j.place
  <2>1. \A i, j : Before(i, j) <=> \/ i.expired /\ ~j.expired
                                   \/ i.expired = j.expired /\ Sooner(i, j)
    BY DEF Before
  <2>2. Sooner(a, b) /\ Sooner(b, c) => Sooner(a, c)
    BY <1>1
  <2> HIDE DEF Sooner
  <2> QED BY <1>1, <1>3, <2>1, <2>2
<1> QED BY <1>2, <1>3

\* An item is in the list, or the list is full of items before it.
LEMMA ListedOrFull ==
  ASSUME OverviewInvariant, Enrolled # {}, NEW x \in Items
  PROVE  \/ x \in expiringSoon
         \/ Cardinality({i \in expiringSoon : Before(i, x)}) >= MAX_ITEMS
<1> DEFINE Pred == [i \in Items |-> {j \in Items : Before(j, i)}]
<1>1. IsFiniteSet(Items) /\ Items \subseteq Item /\ MAX_ITEMS \in Nat
  BY ItemsAreFinite, ItemTypes, Days
<1>2. expiringSoon = {i \in Items : Cardinality(Pred[i]) < MAX_ITEMS}
  BY DEF expiringSoon, Items
<1>3. Cardinality(Pred[x]) \in Nat
  <2>1. Pred[x] \in SUBSET Items
    OBVIOUS
  <2> QED BY <1>1, <2>1, FS_Subset, FS_CardinalityType
<1>4. CASE Cardinality(Pred[x]) < MAX_ITEMS
  BY <1>2, <1>4
<1>5. CASE Cardinality(Pred[x]) >= MAX_ITEMS
  <2>1. Pred \in [Items -> SUBSET Items]
    OBVIOUS
  <2>2. \A i \in Items : i \notin Pred[i]
    BY <1>1, BeforeIsStrict
  <2>3. \A i \in Items : \A j \in Pred[i] : Pred[j] \subseteq Pred[i]
    <3> TAKE i \in Items
    <3> TAKE j \in Pred[i]
    <3>1. ASSUME NEW k \in Pred[j] PROVE k \in Pred[i]
      <4>1. i \in Item /\ j \in Item /\ k \in Item /\ Before(j, i) /\ Before(k, j)
        BY <1>1, <3>1
      <4>2. Before(k, i)
        BY <4>1, BeforeIsStrict
      <4> QED BY <3>1, <4>2
    <3> QED BY <3>1
  <2>4. {i \in expiringSoon : Before(i, x)} = {i \in Pred[x] : Cardinality(Pred[i]) < MAX_ITEMS}
    BY <1>2
  <2> HIDE DEF Pred
  <2>5. Cardinality({i \in Pred[x] : Cardinality(Pred[i]) < MAX_ITEMS}) >= MAX_ITEMS
    BY <1>1, <1>5, <2>1, <2>2, <2>3, FirstOnesFillTheList
  <2> QED BY <2>4, <2>5
<1> QED BY <1>1, <1>3, <1>4, <1>5, SMT

\* What comes before an item that has not expired has expired or is due no later.
LEMMA FullListIsEarlier ==
  ASSUME OverviewInvariant, Enrolled # {}, NEW x \in Items, ~x.expired, x \notin expiringSoon
  PROVE  Cardinality({i \in expiringSoon : i.expired \/ i.time <= x.time}) >= MAX_ITEMS
<1> DEFINE A == {i \in expiringSoon : Before(i, x)}
           B == {i \in expiringSoon : i.expired \/ i.time <= x.time}
<1>1. Cardinality(A) >= MAX_ITEMS
  BY ListedOrFull
<1>2. A \subseteq B
  <2>1. ASSUME NEW i \in expiringSoon, Before(i, x), ~i.expired
        PROVE  i.time <= x.time
    <3>1. i \in Item /\ x \in Item
      BY ItemTypes DEF expiringSoon, Items
    <3>2. i.time \in Nat /\ x.time \in Nat
      BY <3>1 DEF Item
    <3> QED BY <2>1, <3>2 DEF Before
  <2> QED BY <2>1
<1>3. IsFiniteSet(B)
  <2>1. B \in SUBSET Items
    BY DEF expiringSoon, Items
  <2> HIDE DEF B
  <2> QED BY <2>1, ItemsAreFinite, FS_Subset
<1> HIDE DEF A, B
<1>4. Cardinality(A) <= Cardinality(B) /\ IsFiniteSet(A)
  BY <1>2, <1>3, FS_Subset
<1>5. Cardinality(A) \in Nat /\ Cardinality(B) \in Nat /\ MAX_ITEMS \in Nat
  BY <1>3, <1>4, FS_CardinalityType, Days
<1> QED BY <1>1, <1>4, <1>5 DEF B

\* Whatever is due within the week is listed, or the list is full of what expired or
\* is due before it (the dashboard's "Expiring soon").
THEOREM RenewalsDoShow == OverviewSpec => []RenewalsAreListed
<1> DEFINE due(e) == e > today /\ e <= today + SOON
           listed(kind, place, e) ==
             \/ \E i \in expiringSoon : i.kind = kind /\ i.place = place /\ ~i.expired
             \/ Cardinality({i \in expiringSoon : i.expired \/ i.time <= e}) >= MAX_ITEMS
<1>1. ASSUME OverviewInvariant
      PROVE  RenewalsAreListed
  <2>t. /\ today \in Nat /\ today <= LastDay /\ SOON \in Nat /\ PAST \in Nat /\ LastDay \in Nat
        /\ own \in Nat
        /\ \A n \in Enrolled : machine[n] \in Enrolment /\ machine[n].expiry \in Nat
        /\ \A k \in Kept : authKey[k] \in MadeKey /\ authKey[k].expiry \in Nat
    <3>1. today \in 0 .. LastDay /\ own \in Expiry
      BY <1>1 DEF OverviewInvariant, OverviewTypeOK
    <3>2. today \in Nat /\ today <= LastDay
      BY <3>1, Days, SMT
    <3>3. \A n \in Enrolled : machine[n] \in Enrolment /\ machine[n].expiry \in Expiry
      BY <1>1, EnrolledTypes DEF OverviewInvariant, Enrolment
    <3>4. \A k \in Kept : authKey[k] \in MadeKey /\ authKey[k].expiry \in Expiry
      BY <1>1, EnrolledTypes DEF OverviewInvariant, MadeKey
    <3> QED BY <3>1, <3>2, <3>3, <3>4, Days
  <2>w. ASSUME NEW e \in Nat, due(e)
        PROVE  InWindow(e, SOON) /\ ~(e <= today)
    BY <2>t, <2>w, SMT DEF InWindow
  <2>l. ASSUME Enrolled # {}, NEW x \in Items, ~x.expired
        PROVE  listed(x.kind, x.place, x.time)
    BY <1>1, <2>l, FullListIsEarlier
  <2>1. ASSUME Enrolled # {}, due(own)
        PROVE  listed("own", 0, own)
    <3> DEFINE x == [kind |-> "own", place |-> 0, time |-> own,
                     expired |-> describeExpiry(own) = "expired"]
    <3>1. x \in Items
      <4>1. InWindow(own, SOON)
        BY <2>t, <2>w, <2>1
      <4> QED BY <4>1 DEF Items, OwnItems
    <3>2. ~x.expired
      BY <2>t, <2>w, <2>1 DEF describeExpiry
    <3>3. x.kind = "own" /\ x.place = 0 /\ x.time = own
      OBVIOUS
    <3> HIDE DEF x
    <3>4. listed(x.kind, x.place, x.time)
      BY <2>1, <2>l, <3>1, <3>2
    <3> QED BY <3>3, <3>4
  <2>2. ASSUME Enrolled # {}, NEW n \in Enrolled, due(machine[n].expiry)
        PROVE  listed("node", n, machine[n].expiry)
    <3> DEFINE x == [kind |-> "node", place |-> n, time |-> machine[n].expiry,
                     expired |-> InList(n).expired]
    <3>1. InWindow(machine[n].expiry, SOON) /\ ~(machine[n].expiry <= today)
      BY <2>t, <2>w, <2>2
    <3>2. x \in Items
      BY <3>1 DEF Items, NodeItems
    <3>3. ~x.expired
      BY <3>1 DEF InList, toNodeView, expired
    <3>4. x.kind = "node" /\ x.place = n /\ x.time = machine[n].expiry
      OBVIOUS
    <3> HIDE DEF x
    <3>5. listed(x.kind, x.place, x.time)
      BY <2>2, <2>l, <3>2, <3>3
    <3> QED BY <3>4, <3>5
  <2>3. ASSUME Enrolled # {}, NEW k \in Kept, due(authKey[k].expiry), Enrolling(authKey[k])
        PROVE  listed("key", k, authKey[k].expiry)
    <3> DEFINE x == [kind |-> "key", place |-> k, time |-> authKey[k].expiry,
                     expired |-> authKey[k].expiry <= today]
    <3>1. InWindow(authKey[k].expiry, SOON) /\ ~(authKey[k].expiry <= today)
      BY <2>t, <2>w, <2>3
    <3>2. ~(authKey[k].used /\ ~authKey[k].reusable)
      BY <2>t, <2>3 DEF Enrolling, MadeKey
    <3>3. x \in Items
      BY <3>1, <3>2 DEF Items, AuthKeyItems
    <3>4. ~x.expired /\ x.kind = "key" /\ x.place = k /\ x.time = authKey[k].expiry
      BY <3>1
    <3> HIDE DEF x
    <3>5. listed(x.kind, x.place, x.time)
      BY <2>3, <2>l, <3>3, <3>4
    <3> QED BY <3>4, <3>5
  <2> HIDE DEF listed
  <2>4. Enrolled # {} =>
          /\ due(own) => listed("own", 0, own)
          /\ \A n \in Enrolled : due(machine[n].expiry) => listed("node", n, machine[n].expiry)
          /\ \A k \in Kept : due(authKey[k].expiry) /\ Enrolling(authKey[k]) =>
               listed("key", k, authKey[k].expiry)
    BY <2>1, <2>2, <2>3
  <2> QED BY <2>4 DEF RenewalsAreListed, listed
<1> HIDE DEF due, listed
<1> QED BY <1>1, OverviewAlways, PTL

-----------------------------------------------------------------------------
(* The forms: types                                                        *)

Setting == [main : Value \cup {Blank}, secret : Secret \cup {Blank}]
Submitted == [main : Value \cup {Blank}, secret : Secret \cup {Blank, Keep}]
Question == [op : {"probe", "save", "finish", "refresh"}, with : Submitted, props : Setting]
FormUi == [step : 0 .. 3, identity : {"operator", "oidc", "incomplete"},
           main : Value \cup {Blank}, secret : Secret \cup {Blank},
           asking : BOOLEAN, open : BOOLEAN, tested : [ok : BOOLEAN, of : Submitted],
           saved : BOOLEAN, error : BOOLEAN, health : Value \cup {Blank}]

FormsTypeOK ==
  /\ form \in Form /\ ui \in FormUi /\ asked \in Seq(Question)
  /\ stored \in Setting /\ page \in Setting /\ others \in BOOLEAN

\* Only these forms leave a stored secret alone by saying so.
Collapsing == {"agent", "provider"}
NothingKept ==
  form \notin Collapsing => \A i \in 1 .. Len(asked) : asked[i].with.secret # Keep

FormTypes == FormsTypeOK /\ NothingKept

LEMMA FormValues ==
  /\ Setting \subseteq Submitted /\ None \in Setting /\ Untested \in [ok : BOOLEAN, of : Submitted]
  /\ ~Untested.ok /\ Blank # Keep /\ Keep \notin Secret
BY FormsAssumption DEF Setting, Submitted, None, Untested

LEMMA QuestionAsked ==
  ASSUME FormTypes, NEW op \in {"probe", "save", "finish", "refresh"}, NEW with \in Submitted,
         Ask(op, with)
  PROVE  /\ asked' \in Seq(Question) /\ Len(asked') = Len(asked) + 1 /\ Len(asked) \in Nat
         /\ \A i \in 1 .. Len(asked) : i \in 1 .. Len(asked') /\ asked'[i] = asked[i]
         /\ asked'[Len(asked) + 1] = [op |-> op, with |-> with, props |-> page]
         /\ \A i \in 1 .. Len(asked') : i \in 1 .. Len(asked) \/ i = Len(asked) + 1
<1> DEFINE q == [op |-> op, with |-> with, props |-> page]
<1>1. asked \in Seq(Question) /\ page \in Setting
  BY DEF FormTypes, FormsTypeOK
<1>2. q \in Question
  BY <1>1 DEF Question
<1> HIDE DEF q
<1>3. /\ Append(asked, q) \in Seq(Question) /\ Len(Append(asked, q)) = Len(asked) + 1
      /\ \A i \in 1 .. Len(asked) : Append(asked, q)[i] = asked[i]
      /\ Append(asked, q)[Len(asked) + 1] = q
      /\ Len(asked) \in Nat
  BY <1>1, <1>2, AppendProperties, LenProperties
<1>4. asked' = Append(asked, q)
  BY DEF Ask, q
<1>5. /\ asked' \in Seq(Question) /\ Len(asked') = Len(asked) + 1 /\ Len(asked) \in Nat
      /\ \A i \in 1 .. Len(asked) : asked'[i] = asked[i]
      /\ asked'[Len(asked) + 1] = q
  BY <1>3, <1>4
<1> QED BY <1>5, SMT DEF q

LEMMA QuestionAnswered ==
  ASSUME FormTypes, asked # <<>>
  PROVE  /\ Tail(asked) \in Seq(Question) /\ Len(Tail(asked)) = Len(asked) - 1
         /\ Len(asked) \in Nat \ {0}
         /\ \A i \in 1 .. Len(Tail(asked)) :
              i + 1 \in 1 .. Len(asked) /\ Tail(asked)[i] = asked[i + 1]
         /\ \A i \in 1 .. Len(asked) : i = 1 \/ i - 1 \in 1 .. Len(Tail(asked))
         /\ Head(asked) = asked[1] /\ Head(asked) \in Question /\ 1 \in 1 .. Len(asked)
<1>1. asked \in Seq(Question)
  BY DEF FormTypes, FormsTypeOK
<1>2. /\ Head(asked) = asked[1] /\ asked[1] \in Question /\ Len(asked) \in Nat \ {0}
      /\ Tail(asked) \in Seq(Question) /\ Len(Tail(asked)) = Len(asked) - 1
      /\ \A k \in 1 .. Len(asked) - 1 : k + 1 \in 1 .. Len(asked) /\ Tail(asked)[k] = asked[k + 1]
  BY <1>1, Rest
<1> QED BY <1>2, SMT

\* What a form submits.
LEMMA SubmittedTypes ==
  ASSUME FormTypes
  PROVE  Entered \in Submitted /\ Draft \in Submitted /\ Entered.secret # Keep /\ None \in Submitted
         /\ None.secret # Keep
BY FormValues DEF FormTypes, FormsTypeOK, FormUi, Entered, Draft, Submitted, None

LEMMA MountedTypes ==
  ASSUME NEW f \in Form, NEW s \in Setting, NEW v \in Value \cup {Blank}
  PROVE  Mounted(f, s, v) \in FormUi /\ Mounted(f, s, v).step = 0
BY FormValues DEF Mounted, FormUi, Setting

\* A wizard at its last step asks once to finish, with what it shows.
FinishIsShown ==
  Wizard => \A i \in 1 .. Len(asked) : asked[i].op = "finish" =>
    /\ asked[i].with = Entered /\ ui.step = 2
    /\ \A j \in 1 .. Len(asked) : asked[j].op = "finish" => j = i

\* What this wizard wrote it still shows, unless it went back to the first step and
\* edited it: there no probe succeeds any more.
WrittenIsShown ==
  Wizard /\ ~others => /\ stored = None \/ stored = Entered \/ (ui.step = 0 /\ ~ui.tested.ok)
                       /\ ui.step = 3 => stored = Entered

\* A saved panel is probed, or is being probed.
SavedIsProbed ==
  form = "agent" /\ ui.saved /\ ~ui.error => ui.health = stored.main \/ Busy("refresh")

FormsInvariant == FormTypes /\ FinishIsShown /\ WrittenIsShown /\ SavedIsProbed

-----------------------------------------------------------------------------
(* The forms: the types are kept                                           *)

\* What the server stores when an answer is applied is a setting.
LEMMA MergedTypes ==
  ASSUME FormTypes, asked # <<>>
  PROVE  /\ With \in Submitted /\ With.main \in Value \cup {Blank}
         /\ (form \notin Collapsing => With \in Setting)
         /\ Head(asked).props \in Setting
         /\ Merged(With) \in Setting
         /\ [main |-> With.main,
             secret |-> IF With.secret = Blank THEN stored.secret ELSE With.secret] \in
              [main : Value \cup {Blank}, secret : Secret \cup {Blank, Keep}]
         /\ [main |-> With.main,
             secret |-> IF With.secret \in Secret THEN With.secret ELSE stored.secret] \in Setting
         /\ [stored EXCEPT !.main = With.main] \in Setting
<1>1. /\ Head(asked) \in Question /\ Head(asked) = asked[1] /\ 1 \in 1 .. Len(asked)
      /\ stored \in Setting
  BY QuestionAnswered DEF FormTypes, FormsTypeOK
<1>2. With \in Submitted /\ Head(asked).props \in Setting
  BY <1>1 DEF With, Question
<1>3. form \notin Collapsing => With.secret # Keep
  BY <1>1 DEF With, FormTypes, NothingKept
<1> HIDE DEF With
<1>4. /\ With.main \in Value \cup {Blank} /\ With.secret \in Secret \cup {Blank, Keep}
      /\ With = [main |-> With.main, secret |-> With.secret]
      /\ stored.secret \in Secret \cup {Blank}
  BY <1>1, <1>2 DEF Submitted, Setting
<1>5. form \notin Collapsing => With \in Setting
  BY <1>3, <1>4 DEF Setting
<1>6. Merged(With) \in Setting
  BY <1>4 DEF Merged, Setting
<1>7. [stored EXCEPT !.main = With.main] \in Setting
  BY <1>1, <1>4 DEF Setting
<1>8. [main |-> With.main,
       secret |-> IF With.secret \in Secret THEN With.secret ELSE stored.secret] \in Setting
  BY <1>4 DEF Setting
<1> QED BY <1>1, <1>2, <1>4, <1>5, <1>6, <1>7, <1>8

\* The form's record keeps its shape under every assignment of its fields.
LEMMA UiFields ==
  ASSUME NEW u \in FormUi
  PROVE  /\ \A m \in Value \cup {Blank} :
              [u EXCEPT !.main = m] \in FormUi /\ [u EXCEPT !.health = m] \in FormUi
         /\ \A s \in Secret \cup {Blank} : [u EXCEPT !.secret = s] \in FormUi
         /\ \A b \in BOOLEAN : /\ [u EXCEPT !.asking = b] \in FormUi
                               /\ [u EXCEPT !.open = b] \in FormUi
                               /\ [u EXCEPT !.saved = b] \in FormUi
                               /\ [u EXCEPT !.error = b] \in FormUi
         /\ \A t \in [ok : BOOLEAN, of : Submitted] : [u EXCEPT !.tested = t] \in FormUi
         /\ \A k \in 0 .. 3 : [u EXCEPT !.step = k] \in FormUi
         /\ \A i \in {"operator", "oidc", "incomplete"} : [u EXCEPT !.identity = i] \in FormUi
BY DEF FormUi

\* Asking keeps the types; so does an answer that is taken.
LEMMA AskedTypes ==
  ASSUME FormTypes, NEW op \in {"probe", "save", "finish", "refresh"}, NEW with \in Submitted,
         Ask(op, with), form' = form, with.secret # Keep \/ form \in Collapsing
  PROVE  asked' \in Seq(Question) /\ NothingKept'
<1> DEFINE q == [op |-> op, with |-> with, props |-> page]
<1>1. /\ asked' \in Seq(Question)
      /\ \A i \in 1 .. Len(asked) : asked'[i] = asked[i]
      /\ asked'[Len(asked) + 1] = q
      /\ \A i \in 1 .. Len(asked') : i \in 1 .. Len(asked) \/ i = Len(asked) + 1
  BY QuestionAsked
<1>2. q.with = with
  OBVIOUS
<1> HIDE DEF q
<1>3. ASSUME form \notin Collapsing, NEW i \in 1 .. Len(asked')
      PROVE  asked'[i].with.secret # Keep
  <2>1. CASE i \in 1 .. Len(asked)
    BY <1>1, <1>3, <2>1 DEF FormTypes, NothingKept
  <2>2. CASE i = Len(asked) + 1
    BY <1>1, <1>2, <1>3, <2>2
  <2> QED BY <1>1, <2>1, <2>2
<1> QED BY <1>1, <1>3 DEF NothingKept

LEMMA AnsweredTypes ==
  ASSUME FormTypes, asked # <<>>, asked' = Tail(asked), form' = form
  PROVE  asked' \in Seq(Question) /\ NothingKept'
<1>1. /\ asked' \in Seq(Question)
      /\ \A i \in 1 .. Len(asked') : i + 1 \in 1 .. Len(asked) /\ asked'[i] = asked[i + 1]
  BY QuestionAnswered
<1>2. ASSUME form \notin Collapsing, NEW i \in 1 .. Len(asked')
      PROVE  asked'[i].with.secret # Keep
  BY <1>1, <1>2 DEF FormTypes, NothingKept
<1> QED BY <1>1, <1>2 DEF NothingKept

LEMMA WizardTypes ==
  ASSUME FormTypes, WizardNext
  PROVE  FormTypes'
<1>0. /\ form = "wizard" /\ form' = form /\ form \in Form /\ ui \in FormUi
      /\ asked \in Seq(Question) /\ stored \in Setting /\ page \in Setting /\ others \in BOOLEAN
      /\ page' = page /\ NothingKept
  BY DEF FormTypes, FormsTypeOK, WizardNext, WizardEdit, WizardTest, WizardTested, WizardIdentity,
         WizardContinue, WizardBack, WizardFinish, WizardFinished, SetupElsewhere, Wizard
<1>f. /\ ui.step \in 0 .. 3 /\ Untested \in [ok : BOOLEAN, of : Submitted]
      /\ Value \subseteq Value \cup {Blank}
  BY <1>0, FormValues DEF FormUi
<1>k. ASSUME asked' = asked PROVE asked' \in Seq(Question) /\ NothingKept'
  BY <1>0, <1>k DEF NothingKept
<1>1. CASE WizardEdit
  <2>1. PICK m \in Value, s \in Secret \cup {Blank} :
             ui' = [ui EXCEPT !.main = m, !.secret = s, !.tested = Untested]
    BY <1>1 DEF WizardEdit
  <2>2. ui' \in FormUi
    BY <1>0, <1>f, <2>1 DEF FormUi
  <2> QED BY <1>0, <1>1, <1>k, <2>2 DEF WizardEdit, FormTypes, FormsTypeOK, server
<1>2. CASE WizardTest
  <2>1. Ask("probe", Entered) /\ ui' = ui /\ stored' = stored /\ others' = others
    BY <1>2 DEF WizardTest, server
  <2>2. asked' \in Seq(Question) /\ NothingKept'
    BY <1>0, <2>1, AskedTypes, SubmittedTypes
  <2> QED BY <1>0, <2>1, <2>2 DEF FormTypes, FormsTypeOK
<1>3. CASE WizardTested
  <2>1. asked # <<>> /\ asked' = Tail(asked) /\ stored' = stored /\ others' = others
    BY <1>3 DEF WizardTested, Answered, server
  <2>2. asked' \in Seq(Question) /\ NothingKept' /\ With \in Submitted
    BY <1>0, <2>1, AnsweredTypes, MergedTypes
  <2>3. ui' \in FormUi
    <3>1. \E ok \in BOOLEAN : ui' = [ui EXCEPT !.tested = [ok |-> ok, of |-> With]]
      BY <1>3 DEF WizardTested, Tested
    <3> QED BY <1>0, <2>2, <3>1, UiFields
  <2> QED BY <1>0, <2>1, <2>2, <2>3 DEF FormTypes, FormsTypeOK
<1>4. CASE WizardIdentity
  <2>1. ui' \in FormUi
    BY <1>0, <1>4, UiFields DEF WizardIdentity
  <2> QED BY <1>0, <1>4, <1>k, <2>1 DEF WizardIdentity, FormTypes, FormsTypeOK, server
<1>5. CASE WizardContinue
  <2>1. ui.step + 1 \in 0 .. 3 /\ ui' = [ui EXCEPT !.step = ui.step + 1]
    BY <1>5 DEF WizardContinue
  <2>2. ui' \in FormUi
    BY <1>0, <2>1, UiFields
  <2> QED BY <1>0, <1>5, <1>k, <2>2 DEF WizardContinue, FormTypes, FormsTypeOK, server
<1>6. CASE WizardBack
  <2>1. ui.step - 1 \in 0 .. 3 /\ ui' = [ui EXCEPT !.step = ui.step - 1]
    BY <1>6 DEF WizardBack
  <2>2. ui' \in FormUi
    BY <1>0, <2>1, UiFields
  <2> QED BY <1>0, <1>6, <1>k, <2>2 DEF WizardBack, FormTypes, FormsTypeOK, server
<1>7. CASE WizardFinish
  <2>1. Ask("finish", Entered) /\ stored' = stored /\ others' = others
    BY <1>7 DEF WizardFinish, server
  <2>2. asked' \in Seq(Question) /\ NothingKept'
    BY <1>0, <2>1, AskedTypes, SubmittedTypes
  <2>3. ui' \in FormUi
    BY <1>0, <1>7, UiFields DEF WizardFinish
  <2> QED BY <1>0, <2>1, <2>2, <2>3 DEF FormTypes, FormsTypeOK
<1>8. CASE WizardFinished
  <2>1. asked # <<>> /\ asked' = Tail(asked) /\ others' = others
        /\ (stored' = With \/ stored' = stored)
    BY <1>8 DEF WizardFinished, Answered
  <2>2. asked' \in Seq(Question) /\ NothingKept' /\ With \in Setting
    BY <1>0, <2>1, AnsweredTypes, MergedTypes DEF Collapsing
  <2>3. ui' = [ui EXCEPT !.error = TRUE] \/ ui' = [ui EXCEPT !.step = 3]
    BY <1>8, SMT DEF WizardFinished
  <2>4. 3 \in 0 .. 3 /\ TRUE \in BOOLEAN
    OBVIOUS
  <2>5. [ui EXCEPT !.error = TRUE] \in FormUi /\ [ui EXCEPT !.step = 3] \in FormUi
    BY <1>0, <2>4, UiFields, Zenon
  <2> QED BY <1>0, <2>1, <2>2, <2>3, <2>5 DEF FormTypes, FormsTypeOK
<1>9. CASE SetupElsewhere
  <2>1. stored' \in Setting /\ others' \in BOOLEAN /\ ui' = ui /\ asked' = asked
    BY <1>9 DEF SetupElsewhere, Setting
  <2> QED BY <1>0, <1>k, <2>1 DEF FormTypes, FormsTypeOK
<1> QED BY <1>1, <1>2, <1>3, <1>4, <1>5, <1>6, <1>7, <1>8, <1>9 DEF WizardNext

\* What the settings' forms share changes the form alone.
LEMMA SecretTypes ==
  ASSUME FormTypes, SecretNext
  PROVE  FormTypes'
<1>0. /\ form' = form /\ asked' = asked /\ page' = page /\ stored' = stored /\ others' = others
      /\ ui \in FormUi
  BY DEF FormTypes, FormsTypeOK, SecretNext, EditMain, EditSecret, OpenSecret, KeepSecret, server
<1>1. Edited \in FormUi
  BY <1>0, FormValues DEF Edited, FormUi
<1>2. \/ \E m \in Value : ui' = [Edited EXCEPT !.main = m]
      \/ \E s \in Secret \cup {Blank} : ui' = [Edited EXCEPT !.secret = s]
      \/ ui' = [Edited EXCEPT !.asking = TRUE]
      \/ ui' = [Edited EXCEPT !.asking = FALSE, !.secret = Blank]
  BY Zenon DEF SecretNext, EditMain, EditSecret, OpenSecret, KeepSecret
<1>3. [Edited EXCEPT !.asking = FALSE, !.secret = Blank] \in FormUi
  BY <1>1 DEF FormUi
<1>4. /\ \A m \in Value : [Edited EXCEPT !.main = m] \in FormUi
      /\ \A s \in Secret \cup {Blank} : [Edited EXCEPT !.secret = s] \in FormUi
      /\ [Edited EXCEPT !.asking = TRUE] \in FormUi
  <2>1. Value \subseteq Value \cup {Blank} /\ TRUE \in BOOLEAN
    OBVIOUS
  <2> HIDE DEF FormUi
  <2> QED BY <1>1, <2>1, UiFields, Zenon
<1>5. ui' \in FormUi
  BY <1>2, <1>3, <1>4, Zenon
<1> QED BY <1>0, <1>5 DEF FormTypes, FormsTypeOK, NothingKept

\* An answer of failure, or a lost one, leaves a form of the same shape.
LEMMA FailedTypes ==
  ASSUME FormTypes, NEW new \in Setting, form' = form, form # "wizard",
         Failed(new) \/ Thrown(new)
  PROVE  ui' \in FormUi /\ stored' \in Setting /\ page' = page
<1>1. /\ ui \in FormUi /\ stored \in Setting /\ page \in Setting /\ form \in Form
      /\ page.main \in Value \cup {Blank}
  BY DEF FormTypes, FormsTypeOK, Setting
<1>2. CASE Failed(new)
  BY <1>1, <1>2, UiFields DEF Failed
<1>3. CASE Thrown(new)
  BY <1>1, <1>3, MountedTypes DEF Thrown
<1> QED BY <1>2, <1>3

LEMMA ConnectionTypes ==
  ASSUME FormTypes, ConnectionNext
  PROVE  FormTypes'
<1>0. /\ form = "connection" /\ form' = form /\ form \in Form /\ ui \in FormUi
      /\ stored \in Setting /\ page \in Setting /\ others' = others /\ others \in BOOLEAN
  BY DEF FormTypes, FormsTypeOK, ConnectionNext, ConnectionTest, ConnectionTested,
         ConnectionSave, ConnectionSaved, CanProbe, server
<1>1. CASE ConnectionTest \/ ConnectionSave
  <2>1. /\ Ask("probe", Entered) \/ Ask("save", Entered)
        /\ page' = page /\ stored' = stored
        /\ \/ ui' = [ui EXCEPT !.saved = FALSE]
           \/ ui' = [ui EXCEPT !.saved = FALSE, !.error = FALSE]
    BY <1>1, Zenon DEF ConnectionTest, ConnectionSave, server
  <2>2. asked' \in Seq(Question) /\ NothingKept'
    BY <1>0, <2>1, AskedTypes, SubmittedTypes
  <2>3. /\ [ui EXCEPT !.saved = FALSE] \in FormUi
        /\ [ui EXCEPT !.saved = FALSE, !.error = FALSE] \in FormUi
    BY <1>0 DEF FormUi
  <2> QED BY <1>0, <2>1, <2>2, <2>3 DEF FormTypes, FormsTypeOK
<1>2. CASE ConnectionTested
  <2>1. asked # <<>> /\ asked' = Tail(asked) /\ stored' = stored /\ page' = page
    BY <1>2 DEF ConnectionTested, Answered, server
  <2>2. asked' \in Seq(Question) /\ NothingKept' /\ With \in Submitted
    BY <1>0, <2>1, AnsweredTypes, MergedTypes
  <2>3. ui' \in FormUi
    <3>1. \E ok \in BOOLEAN : ui' = [ui EXCEPT !.tested = [ok |-> ok, of |-> With]]
      BY <1>2 DEF ConnectionTested, Tested
    <3> QED BY <1>0, <2>2, <3>1, UiFields
  <2> QED BY <1>0, <2>1, <2>2, <2>3 DEF FormTypes, FormsTypeOK
<1>3. CASE ConnectionSaved
  <2> DEFINE new == [main |-> With.main,
                     secret |-> IF With.secret = Blank THEN stored.secret ELSE With.secret]
  <2>1. asked # <<>> /\ asked' = Tail(asked)
    BY <1>3 DEF ConnectionSaved, Answered
  <2>2. asked' \in Seq(Question) /\ NothingKept' /\ With \in Setting
    BY <1>0, <2>1, AnsweredTypes, MergedTypes DEF Collapsing
  <2>3. new \in Setting
    BY <1>0, <2>2 DEF Setting
  <2>4. \/ /\ stored' = new /\ page' = stored'
           /\ ui' = [ui EXCEPT !.saved = TRUE, !.secret = Blank, !.asking = FALSE,
                               !.tested = Untested]
        \/ Failed(new)
    BY <1>3 DEF ConnectionSaved, Rendered
  <2>5. [ui EXCEPT !.saved = TRUE, !.secret = Blank, !.asking = FALSE, !.tested = Untested]
          \in FormUi
    BY <1>0, FormValues DEF FormUi
  <2> HIDE DEF new
  <2>6. ui' \in FormUi /\ stored' \in Setting /\ page' \in Setting
    BY <1>0, <2>3, <2>4, <2>5, FailedTypes
  <2> QED BY <1>0, <2>2, <2>6 DEF FormTypes, FormsTypeOK
<1> QED BY <1>1, <1>2, <1>3 DEF ConnectionNext

LEMMA AgentTypes ==
  ASSUME FormTypes, AgentNext
  PROVE  FormTypes'
<1>0. /\ form = "agent" /\ form' = form /\ form \in Form /\ ui \in FormUi
      /\ stored \in Setting /\ page \in Setting /\ others' = others /\ others \in BOOLEAN
  BY DEF FormTypes, FormsTypeOK, AgentNext, AgentProbe, AgentProbed, AgentSave, AgentSaved, server
<1>n. NothingKept'
  BY <1>0 DEF NothingKept, Collapsing
<1>1. CASE AgentProbe
  <2>1. Ask("probe", None) /\ page' = page /\ stored' = stored /\ ui' = ui
    BY <1>1 DEF AgentProbe, server
  <2>2. asked' \in Seq(Question)
    BY <1>0, <2>1, AskedTypes, SubmittedTypes
  <2> QED BY <1>0, <1>n, <2>1, <2>2 DEF FormTypes, FormsTypeOK
<1>2. CASE AgentProbed
  <2>1. /\ asked # <<>> /\ asked' = Tail(asked) /\ stored' = stored /\ page' = page
        /\ \/ ui' = [ui EXCEPT !.health = stored.main]
           \/ ui' = ui
           \/ ui' = [ui EXCEPT !.error = TRUE]
    BY <1>2, Zenon DEF AgentProbed, Answered, server
  <2>2. asked' \in Seq(Question)
    BY <1>0, <2>1, AnsweredTypes
  <2>3. stored.main \in Value \cup {Blank} /\ TRUE \in BOOLEAN
    BY <1>0 DEF Setting
  <2>4. ui' \in FormUi
    BY <1>0, <2>1, <2>3, UiFields, Zenon
  <2> QED BY <1>0, <1>n, <2>1, <2>2, <2>4 DEF FormTypes, FormsTypeOK
<1>3. CASE AgentSave
  <2>1. /\ Ask("save", Draft) /\ page' = page /\ stored' = stored
        /\ ui' = [ui EXCEPT !.saved = FALSE, !.error = FALSE]
    BY <1>3 DEF AgentSave, server
  <2>2. asked' \in Seq(Question)
    BY <1>0, <2>1, AskedTypes, SubmittedTypes DEF Collapsing
  <2>3. [ui EXCEPT !.saved = FALSE, !.error = FALSE] \in FormUi
    BY <1>0 DEF FormUi
  <2> QED BY <1>0, <1>n, <2>1, <2>2, <2>3 DEF FormTypes, FormsTypeOK
<1>4. CASE AgentSaved
  <2> DEFINE q == [op |-> "refresh", with |-> None, props |-> stored']
  <2>1. /\ asked # <<>>
        /\ \/ /\ stored' = Merged(With) /\ page' = stored'
              /\ ui' = [ui EXCEPT !.saved = TRUE, !.secret = Blank, !.asking = FALSE]
              /\ asked' = Append(Tail(asked), q)
           \/ Failed(Merged(With)) /\ asked' = Tail(asked)
    BY <1>4 DEF AgentSaved, Rendered
  <2>2. Merged(With) \in Setting /\ Tail(asked) \in Seq(Question)
    BY <2>1, MergedTypes, QuestionAnswered
  <2>3. [ui EXCEPT !.saved = TRUE, !.secret = Blank, !.asking = FALSE] \in FormUi
    BY <1>0 DEF FormUi
  <2>4. ui' \in FormUi /\ stored' \in Setting /\ page' \in Setting
    BY <1>0, <2>1, <2>2, <2>3, FailedTypes
  <2>5. q \in Question
    BY <2>4, FormValues DEF Question
  <2> HIDE DEF q
  <2>6. asked' \in Seq(Question)
    BY <2>1, <2>2, <2>5, AppendProperties
  <2> QED BY <1>0, <1>n, <2>4, <2>6 DEF FormTypes, FormsTypeOK
<1> QED BY <1>1, <1>2, <1>3, <1>4 DEF AgentNext

LEMMA ValueTypes ==
  ASSUME FormTypes, ValueNext
  PROVE  FormTypes'
<1>0. /\ form \in {"authentication", "sampling"} /\ form' = form /\ form \in Form /\ ui \in FormUi
      /\ stored \in Setting /\ page \in Setting /\ others' = others /\ others \in BOOLEAN
      /\ asked \in Seq(Question) /\ NothingKept
  BY DEF FormTypes, FormsTypeOK, ValueNext, SelectMode, EditInterval, SaveValue, ValueSaved, server
<1>1. CASE SelectMode \/ EditInterval
  <2>1. /\ asked' = asked /\ page' = page /\ stored' = stored
        /\ \E m \in Value : \/ ui' = [ui EXCEPT !.main = m, !.saved = FALSE, !.error = FALSE]
                            \/ ui' = [ui EXCEPT !.main = m, !.saved = FALSE]
    BY <1>1, Zenon DEF SelectMode, EditInterval, server
  <2>2. \A m \in Value : /\ [ui EXCEPT !.main = m, !.saved = FALSE, !.error = FALSE] \in FormUi
                         /\ [ui EXCEPT !.main = m, !.saved = FALSE] \in FormUi
    BY <1>0 DEF FormUi
  <2>3. ui' \in FormUi
    BY <2>1, <2>2, Zenon
  <2> QED BY <1>0, <2>1, <2>3 DEF FormTypes, FormsTypeOK, NothingKept
<1>2. CASE SaveValue
  <2>1. /\ Ask("save", Entered) /\ page' = page /\ stored' = stored
        /\ ui' = [ui EXCEPT !.saved = FALSE, !.error = FALSE]
    BY <1>2 DEF SaveValue, server
  <2>2. asked' \in Seq(Question) /\ NothingKept'
    BY <1>0, <2>1, AskedTypes, SubmittedTypes
  <2>3. [ui EXCEPT !.saved = FALSE, !.error = FALSE] \in FormUi
    BY <1>0 DEF FormUi
  <2> QED BY <1>0, <2>1, <2>2, <2>3 DEF FormTypes, FormsTypeOK
<1>3. CASE ValueSaved
  <2> DEFINE new == [stored EXCEPT !.main = With.main]
  <2>1. /\ asked # <<>> /\ asked' = Tail(asked)
        /\ \/ stored' = new /\ page' = stored' /\ ui' = [ui EXCEPT !.saved = TRUE]
           \/ Failed(IF form = "authentication" THEN new ELSE stored)
           \/ Thrown(new)
    BY <1>3, Zenon DEF ValueSaved, Answered, Rendered
  <2>2. asked' \in Seq(Question) /\ NothingKept' /\ new \in Setting
    BY <1>0, <2>1, AnsweredTypes, MergedTypes
  <2> HIDE DEF new
  <2>3. (IF form = "authentication" THEN new ELSE stored) \in Setting
    BY <1>0, <2>2
  <2>4. [ui EXCEPT !.saved = TRUE] \in FormUi
    BY <1>0 DEF FormUi
  <2>5. ui' \in FormUi /\ stored' \in Setting /\ page' \in Setting
    BY <1>0, <2>1, <2>2, <2>3, <2>4, FailedTypes
  <2> QED BY <1>0, <2>2, <2>5 DEF FormTypes, FormsTypeOK
<1> QED BY <1>1, <1>2, <1>3 DEF ValueNext

LEMMA ProviderTypes ==
  ASSUME FormTypes, ProviderNext
  PROVE  FormTypes'
<1>0. /\ form = "provider" /\ form' = form /\ form \in Form /\ ui \in FormUi
      /\ stored \in Setting /\ page \in Setting /\ others' = others /\ others \in BOOLEAN
      /\ asked \in Seq(Question)
  BY DEF FormTypes, FormsTypeOK, ProviderNext, OpenProvider, CloseProvider, EditProvider,
         SubmitProvider, ProviderSaved, server
<1>n. NothingKept'
  BY <1>0 DEF NothingKept, Collapsing
<1>r. ASSUME NEW s \in Setting PROVE Reset(s) \in FormUi
  BY <1>0 DEF Reset, FormUi, Setting
<1>1. CASE OpenProvider
  <2>1. [ui EXCEPT !.open = TRUE] \in FormUi
    BY <1>0 DEF FormUi
  <2> QED BY <1>0, <1>1, <1>n, <2>1 DEF OpenProvider, FormTypes, FormsTypeOK, server
<1>2. CASE CloseProvider
  <2>1. Reset(page) \in FormUi
    BY <1>0, <1>r
  <2> QED BY <1>0, <1>2, <1>n, <2>1 DEF CloseProvider, FormTypes, FormsTypeOK, server
<1>3. CASE EditProvider
  <2>1. /\ asked' = asked /\ page' = page /\ stored' = stored
        /\ \/ \E m \in Value : ui' = [ui EXCEPT !.main = m]
           \/ ui' = [ui EXCEPT !.asking = TRUE]
           \/ ui' = [ui EXCEPT !.asking = FALSE, !.secret = Blank]
           \/ \E s \in Secret : ui' = [ui EXCEPT !.secret = s]
    BY <1>3, Zenon DEF EditProvider, server
  <2>2. /\ \A m \in Value : [ui EXCEPT !.main = m] \in FormUi
        /\ \A s \in Secret : [ui EXCEPT !.secret = s] \in FormUi
        /\ [ui EXCEPT !.asking = TRUE] \in FormUi
        /\ [ui EXCEPT !.asking = FALSE, !.secret = Blank] \in FormUi
    BY <1>0 DEF FormUi
  <2>3. ui' \in FormUi
    BY <2>1, <2>2, Zenon
  <2> QED BY <1>0, <1>n, <2>1, <2>3 DEF FormTypes, FormsTypeOK
<1>4. CASE SubmitProvider
  <2>1. /\ Ask("save", Draft) /\ page' = page /\ stored' = stored
        /\ ui' = [ui EXCEPT !.error = FALSE]
    BY <1>4 DEF SubmitProvider, server
  <2>2. asked' \in Seq(Question)
    BY <1>0, <2>1, AskedTypes, SubmittedTypes DEF Collapsing
  <2>3. [ui EXCEPT !.error = FALSE] \in FormUi
    BY <1>0 DEF FormUi
  <2> QED BY <1>0, <1>n, <2>1, <2>2, <2>3 DEF FormTypes, FormsTypeOK
<1>5. CASE ProviderSaved
  <2> DEFINE new == [main |-> With.main,
                     secret |-> IF With.secret \in Secret THEN With.secret ELSE stored.secret]
  <2>1. /\ asked # <<>> /\ asked' = Tail(asked)
        /\ \/ stored' = new /\ page' = stored' /\ ui' = Reset(Head(asked).props)
           \/ Failed(stored)
           \/ Thrown(new)
    BY <1>5, Zenon DEF ProviderSaved, Answered, Rendered
  <2>2. asked' \in Seq(Question) /\ new \in Setting /\ Head(asked).props \in Setting
    BY <1>0, <2>1, AnsweredTypes, MergedTypes
  <2>3. Reset(Head(asked).props) \in FormUi
    BY <1>r, <2>2
  <2> HIDE DEF new
  <2>4. ui' \in FormUi /\ stored' \in Setting /\ page' \in Setting
    BY <1>0, <2>1, <2>2, <2>3, FailedTypes
  <2> QED BY <1>0, <1>n, <2>2, <2>4 DEF FormTypes, FormsTypeOK
<1> QED BY <1>1, <1>2, <1>3, <1>4, <1>5 DEF ProviderNext

LEMMA SettingsTypes ==
  ASSUME NEW f \in Form
  PROVE  Settings(f) \subseteq Setting
BY FormValues DEF Settings, Setting

LEMMA FormTypesInit ==
  ASSUME FormsInit
  PROVE  FormTypes
<1>1. /\ form \in Form /\ stored \in Setting /\ page = stored /\ asked = <<>> /\ others = FALSE
  BY SettingsTypes DEF FormsInit
<1>2. ui \in FormUi
  BY <1>1, MountedTypes DEF FormsInit
<1>3. asked \in Seq(Question) /\ Len(asked) = 0
  BY <1>1
<1>4. NothingKept
  BY <1>3 DEF NothingKept
<1>5. page \in Setting /\ others \in BOOLEAN
  BY <1>1
<1> QED BY <1>1, <1>2, <1>3, <1>4, <1>5 DEF FormTypes, FormsTypeOK

LEMMA FormTypesKept ==
  ASSUME FormTypes, [FormsNext]_formVars
  PROVE  FormTypes'
<1>1. CASE Navigate
  <2>1. /\ asked = <<>> /\ asked' = asked /\ others' = others /\ page' = stored'
        /\ form' \in Form /\ stored' \in Settings(form')
        /\ ui' = Mounted(form', stored', stored'.main)
    BY <1>1 DEF Navigate
  <2>2. stored' \in Setting /\ stored'.main \in Value \cup {Blank}
    BY <2>1, SettingsTypes DEF Setting
  <2>3. ui' \in FormUi
    BY <2>1, <2>2, MountedTypes
  <2>4. asked' \in Seq(Question) /\ Len(asked') = 0
    BY <2>1
  <2> QED BY <2>1, <2>2, <2>3, <2>4 DEF FormTypes, FormsTypeOK, NothingKept
<1>2. CASE UNCHANGED formVars
  BY <1>2 DEF formVars, FormTypes, FormsTypeOK, NothingKept
<1> QED BY <1>1, <1>2, WizardTypes, SecretTypes, ConnectionTypes, AgentTypes, ValueTypes,
           ProviderTypes DEF FormsNext

-----------------------------------------------------------------------------
(* The forms: what the wizard wrote is what it shows                       *)

\* Outside the wizard these parts say nothing; an agent's panel alone has the third.
LEMMA OtherFormsWrite ==
  ASSUME FormsInvariant, SecretNext \/ ConnectionNext \/ ValueNext \/ ProviderNext
  PROVE  (FinishIsShown /\ WrittenIsShown /\ SavedIsProbed)'

<1>1. form' = form /\ form # "wizard"
  BY Zenon DEF SecretNext, EditMain, EditSecret, OpenSecret, KeepSecret, ConnectionNext,
         ConnectionTest, ConnectionTested, ConnectionSave, ConnectionSaved, CanProbe, ValueNext,
         SelectMode, EditInterval, SaveValue, ValueSaved, ProviderNext, OpenProvider,
         CloseProvider, EditProvider, SubmitProvider, ProviderSaved
<1>2. SavedIsProbed'
  <2>1. CASE SecretNext
    <3>1. ui \in FormUi
      BY DEF FormsInvariant, FormTypes, FormsTypeOK
    <3>2. Edited \in FormUi /\ Edited.saved = FALSE
      BY <3>1, FormValues DEF Edited, FormUi
    <3> HIDE DEF FormUi
    <3>3. \/ \E m \in Value : ui' = [Edited EXCEPT !.main = m]
          \/ \E s \in Secret \cup {Blank} : ui' = [Edited EXCEPT !.secret = s]
          \/ ui' = [Edited EXCEPT !.asking = TRUE]
          \/ ui' = [Edited EXCEPT !.asking = FALSE, !.secret = Blank]
      BY <2>1, Zenon DEF SecretNext, EditMain, EditSecret, OpenSecret, KeepSecret
    <3>4. ui'.saved = FALSE
      BY <3>2, <3>3 DEF FormUi
    <3> QED BY <3>4 DEF SavedIsProbed
  <2>2. CASE ConnectionNext \/ ValueNext \/ ProviderNext
    <3>1. form # "agent"
      BY <2>2, Zenon DEF ConnectionNext, ConnectionTest, ConnectionTested, ConnectionSave,
             ConnectionSaved, CanProbe, ValueNext, SelectMode, EditInterval, SaveValue,
             ValueSaved, ProviderNext, OpenProvider, CloseProvider, EditProvider,
             SubmitProvider, ProviderSaved
    <3> QED BY <1>1, <3>1 DEF SavedIsProbed
  <2> QED BY <2>1, <2>2
<1> QED BY <1>1, <1>2 DEF FinishIsShown, WrittenIsShown, Wizard

LEMMA AgentWrites ==
  ASSUME FormsInvariant, AgentNext
  PROVE  (FinishIsShown /\ WrittenIsShown /\ SavedIsProbed)'
<1>0. form = "agent" /\ form' = form /\ ui \in FormUi /\ FormTypes /\ asked \in Seq(Question)
  BY DEF FormsInvariant, FormTypes, FormsTypeOK, AgentNext, AgentProbe, AgentProbed, AgentSave,
         AgentSaved
<1>b. ASSUME Busy("refresh"), Ask("probe", None)
      PROVE  Busy("refresh")'
  <2>1. PICK i \in 1 .. Len(asked) : asked[i].op = "refresh"
    BY <1>b DEF Busy
  <2>2. i \in 1 .. Len(asked') /\ asked'[i] = asked[i]
    BY <1>0, <1>b, <2>1, QuestionAsked, SubmittedTypes
  <2> QED BY <2>1, <2>2 DEF Busy
<1>1. CASE AgentProbe
  <2>1. ui' = ui /\ stored' = stored /\ Ask("probe", None)
    BY <1>1 DEF AgentProbe, server
  <2>2. SavedIsProbed
    BY DEF FormsInvariant
  <2> QED BY <1>0, <1>b, <2>1, <2>2 DEF SavedIsProbed, FinishIsShown, WrittenIsShown, Wizard
<1>2. CASE AgentProbed
  <2>1. /\ asked # <<>> /\ asked' = Tail(asked) /\ stored' = stored
        /\ \/ ui' = [ui EXCEPT !.health = stored.main]
           \/ ui' = ui /\ Head(asked).op = "probe"
           \/ ui' = [ui EXCEPT !.error = TRUE]
    BY <1>2, Zenon DEF AgentProbed, Answered, server
  <2>2. CASE ui' = [ui EXCEPT !.health = stored.main]
    <3>1. ui'.health = stored.main
      BY <1>0, <2>2 DEF FormUi
    <3> QED BY <1>0, <2>1, <3>1 DEF SavedIsProbed, FinishIsShown, WrittenIsShown, Wizard
  <2>3. CASE ui' = ui /\ Head(asked).op = "probe"
    <3>1. ASSUME Busy("refresh") PROVE Busy("refresh")'
      <4>1. PICK i \in 1 .. Len(asked) : asked[i].op = "refresh"
        BY <3>1 DEF Busy
      <4>2. i # 1 /\ i - 1 \in 1 .. Len(asked') /\ asked'[i - 1] = asked[i - 1 + 1]
        BY <1>0, <2>1, <2>3, <4>1, QuestionAnswered
      <4>3. i - 1 + 1 = i
        BY <4>1
      <4> QED BY <4>1, <4>2, <4>3 DEF Busy
    <3>2. SavedIsProbed
      BY DEF FormsInvariant
    <3> QED BY <1>0, <2>1, <2>3, <3>1, <3>2 DEF SavedIsProbed, FinishIsShown, WrittenIsShown,
                                                 Wizard
  <2>4. CASE ui' = [ui EXCEPT !.error = TRUE]
    <3>1. ui'.error
      BY <1>0, <2>4 DEF FormUi
    <3> QED BY <1>0, <3>1 DEF SavedIsProbed, FinishIsShown, WrittenIsShown, Wizard
  <2> QED BY <2>1, <2>2, <2>3, <2>4
<1>3. CASE AgentSave
  <2>1. ui' = [ui EXCEPT !.saved = FALSE, !.error = FALSE]
    BY <1>3 DEF AgentSave
  <2>2. ~ui'.saved
    BY <1>0, <2>1 DEF FormUi
  <2> QED BY <1>0, <2>2 DEF SavedIsProbed, FinishIsShown, WrittenIsShown, Wizard
<1>4. CASE AgentSaved
  <2> DEFINE q == [op |-> "refresh", with |-> None, props |-> stored']
  <2>1. /\ asked # <<>>
        /\ \/ asked' = Append(Tail(asked), q)
           \/ ui' = [ui EXCEPT !.error = TRUE]
    BY <1>4 DEF AgentSaved, Failed
  <2>2. CASE asked' = Append(Tail(asked), q)
    <3>1. Tail(asked) \in Seq(Question) /\ stored' \in Setting
      BY <1>0, <1>4, <2>1, QuestionAnswered, AgentTypes DEF FormTypes, FormsTypeOK
    <3>2. q \in Question /\ q.op = "refresh"
      BY <3>1, FormValues DEF Question
    <3> HIDE DEF q
    <3>3. /\ Len(asked') \in Nat /\ Len(asked') = Len(Tail(asked)) + 1 /\ Len(Tail(asked)) \in Nat
          /\ asked'[Len(Tail(asked)) + 1] = q
      BY <2>2, <3>1, <3>2, AppendProperties, LenProperties
    <3>4. Len(asked') \in 1 .. Len(asked') /\ asked'[Len(asked')] = q
      BY <3>3
    <3> QED BY <1>0, <3>2, <3>4 DEF Busy, SavedIsProbed, FinishIsShown, WrittenIsShown, Wizard
  <2>3. CASE ui' = [ui EXCEPT !.error = TRUE]
    <3>1. ui'.error
      BY <1>0, <2>3 DEF FormUi
    <3> QED BY <1>0, <3>1 DEF SavedIsProbed, FinishIsShown, WrittenIsShown, Wizard
  <2> QED BY <2>1, <2>2, <2>3
<1> QED BY <1>1, <1>2, <1>3, <1>4 DEF AgentNext

LEMMA WizardWrites ==
  ASSUME FormsInvariant, WizardNext
  PROVE  (FinishIsShown /\ WrittenIsShown /\ SavedIsProbed)'
<1>0. /\ form = "wizard" /\ form' = form /\ ui \in FormUi /\ FormTypes /\ FinishIsShown
      /\ WrittenIsShown /\ ui.step \in 0 .. 3
  BY DEF FormsInvariant, FormTypes, FormsTypeOK, WizardNext, WizardEdit, WizardTest, WizardTested,
         WizardIdentity, WizardContinue, WizardBack, WizardFinish, WizardFinished,
         SetupElsewhere, Wizard, FormUi
<1>h. SavedIsProbed'
  BY <1>0 DEF SavedIsProbed
<1>f. /\ \A i \in 1 .. Len(asked) : asked[i].op = "finish" =>
           /\ asked[i].with = Entered /\ ui.step = 2
           /\ \A j \in 1 .. Len(asked) : asked[j].op = "finish" => j = i
      /\ ~others => /\ stored = None \/ stored = Entered \/ (ui.step = 0 /\ ~ui.tested.ok)
                    /\ ui.step = 3 => stored = Entered
  BY <1>0, SMT DEF FinishIsShown, WrittenIsShown, Wizard
<1>b. ASSUME ui.step # 2 \/ ~Busy("finish")
      PROVE  \A i \in 1 .. Len(asked) : asked[i].op # "finish"
  BY <1>b, <1>f DEF Busy
<1>1. CASE WizardEdit
  <2>1. /\ asked' = asked /\ stored' = stored /\ others' = others /\ ui.step = 0
        /\ \E m \in Value, s \in Secret \cup {Blank} :
             ui' = [ui EXCEPT !.main = m, !.secret = s, !.tested = Untested]
    BY <1>1 DEF WizardEdit, server
  <2>2. ui'.step = 0 /\ ui'.tested = Untested
    BY <1>0, <2>1 DEF FormUi
  <2>3. FinishIsShown'
    BY <1>b, <2>1 DEF FinishIsShown
  <2> QED BY <1>h, <2>2, <2>3, FormValues DEF WrittenIsShown
<1>2. CASE WizardTest
  <2>1. Ask("probe", Entered) /\ ui' = ui /\ stored' = stored /\ others' = others
    BY <1>2 DEF WizardTest, server
  <2>2. /\ \A i \in 1 .. Len(asked) : asked'[i] = asked[i]
        /\ asked'[Len(asked) + 1] = [op |-> "probe", with |-> Entered, props |-> page]
        /\ \A i \in 1 .. Len(asked') : i \in 1 .. Len(asked) \/ i = Len(asked) + 1
    BY <1>0, <2>1, QuestionAsked, SubmittedTypes
  <2>3. asked'[Len(asked) + 1].op # "finish" /\ Entered' = Entered
    BY <2>1, <2>2 DEF Entered
  <2>4. FinishIsShown'
    BY <1>f, <2>1, <2>2, <2>3 DEF FinishIsShown
  <2> QED BY <1>0, <1>h, <2>1, <2>3, <2>4 DEF WrittenIsShown, Wizard
<1>3. CASE WizardTested
  <2>1. /\ asked # <<>> /\ asked' = Tail(asked) /\ stored' = stored /\ others' = others
        /\ \E ok \in BOOLEAN : /\ ok => stored = None
                               /\ ui' = [ui EXCEPT !.tested = [ok |-> ok, of |-> With]]
    <3>1. /\ asked # <<>> /\ asked' = Tail(asked) /\ stored' = stored /\ others' = others
          /\ Tested(IF stored = None THEN testHeadscaleConnection(With.secret) ELSE {})
      BY <1>3 DEF WizardTested, Answered, server
    <3>2. PICK status \in (IF stored = None THEN testHeadscaleConnection(With.secret) ELSE {})
                          \cup {"error"} :
            ui' = [ui EXCEPT !.tested = [ok |-> status = "connected", of |-> With]]
      BY <3>1 DEF Tested
    <3>3. status = "connected" => stored = None
      BY <3>2
    <3> QED BY <3>1, <3>2, <3>3
  <2>2. /\ ui'.step = ui.step /\ ui'.main = ui.main /\ ui'.secret = ui.secret
        /\ stored = None \/ ~ui'.tested.ok
    BY <1>0, <2>1 DEF FormUi
  <2>3. Entered' = Entered
    BY <2>2 DEF Entered
  <2>4. \A i \in 1 .. Len(asked') : i + 1 \in 1 .. Len(asked) /\ asked'[i] = asked[i + 1]
    BY <1>0, <2>1, QuestionAnswered
  <2>5. FinishIsShown'
    <3> SUFFICES ASSUME NEW i \in 1 .. Len(asked'), asked'[i].op = "finish"
                 PROVE  /\ asked'[i].with = Entered' /\ ui'.step = 2
                        /\ \A j \in 1 .. Len(asked') : asked'[j].op = "finish" => j = i
      BY Zenon DEF FinishIsShown
    <3>1. asked'[i].with = Entered' /\ ui'.step = 2
      BY <1>f, <2>2, <2>3, <2>4
    <3>2. ASSUME NEW j \in 1 .. Len(asked'), asked'[j].op = "finish" PROVE j = i
      <4>1. j + 1 = i + 1
        BY <1>f, <2>4, <3>2
      <4> QED BY <4>1, SMT
    <3> QED BY <3>1, <3>2
  <2>6. WrittenIsShown'
    BY <1>f, <2>1, <2>2, <2>3 DEF WrittenIsShown
  <2> QED BY <1>h, <2>5, <2>6
<1>4. CASE WizardIdentity
  <2>1. /\ asked' = asked /\ stored' = stored /\ others' = others
        /\ \E i \in {"operator", "oidc", "incomplete"} : ui' = [ui EXCEPT !.identity = i]
    BY <1>4 DEF WizardIdentity, server
  <2>2. ui'.step = ui.step /\ ui'.main = ui.main /\ ui'.secret = ui.secret
        /\ ui'.tested = ui.tested
    BY <1>0, <2>1 DEF FormUi
  <2>3. Entered' = Entered
    BY <2>2 DEF Entered
  <2> QED BY <1>f, <1>h, <2>1, <2>2, <2>3 DEF FinishIsShown, WrittenIsShown
<1>5. CASE WizardContinue \/ WizardBack
  <2>1. /\ asked' = asked /\ stored' = stored /\ others' = others
        /\ \/ ui' = [ui EXCEPT !.step = ui.step + 1] /\ ui.step \in {0, 1}
           \/ ui' = [ui EXCEPT !.step = ui.step - 1] /\ ui.step \in {1, 2} /\ ~Busy("finish")
        /\ ui.step = 0 => ui.tested.ok
    <3>1. CASE WizardContinue
      BY <3>1 DEF WizardContinue, server
    <3>2. CASE WizardBack
      <4>1. ui.step # 0
        BY <3>2 DEF WizardBack
      <4> QED BY <3>2, <4>1 DEF WizardBack, server
    <3> QED BY <1>5, <3>1, <3>2
  <2>2. /\ ui'.step = ui.step + 1 \/ ui'.step = ui.step - 1
        /\ ui'.main = ui.main /\ ui'.secret = ui.secret /\ ui'.tested = ui.tested
        /\ ui'.step # 3 /\ (ui.step # 2 \/ ~Busy("finish"))
    BY <1>0, <2>1 DEF FormUi
  <2>3. Entered' = Entered
    BY <2>2 DEF Entered
  <2>4. FinishIsShown'
    BY <1>b, <2>1, <2>2 DEF FinishIsShown
  <2>5. WrittenIsShown'
    BY <1>f, <2>1, <2>2, <2>3 DEF WrittenIsShown
  <2> QED BY <1>h, <2>4, <2>5
<1>7. CASE WizardFinish
  <2>1. /\ Ask("finish", Entered) /\ stored' = stored /\ others' = others
        /\ ui.step = 2 /\ ~Busy("finish") /\ ui' = [ui EXCEPT !.error = FALSE]
    BY <1>7 DEF WizardFinish, server
  <2>2. ui'.step = ui.step /\ ui'.main = ui.main /\ ui'.secret = ui.secret
        /\ ui'.tested = ui.tested
    BY <1>0, <2>1 DEF FormUi
  <2>3. Entered' = Entered
    BY <2>2 DEF Entered
  <2>4. /\ \A i \in 1 .. Len(asked) : asked'[i] = asked[i]
        /\ asked'[Len(asked) + 1] = [op |-> "finish", with |-> Entered, props |-> page]
        /\ \A i \in 1 .. Len(asked') : i \in 1 .. Len(asked) \/ i = Len(asked) + 1
    BY <1>0, <2>1, QuestionAsked, SubmittedTypes
  <2>5. asked'[Len(asked) + 1].with = Entered
    BY <2>4
  <2>6. \A i \in 1 .. Len(asked') : asked'[i].op = "finish" => i = Len(asked) + 1
    BY <1>b, <2>1, <2>4
  <2>7. FinishIsShown'
    BY <2>1, <2>2, <2>3, <2>5, <2>6 DEF FinishIsShown
  <2>8. WrittenIsShown'
    BY <1>f, <2>1, <2>2, <2>3 DEF WrittenIsShown
  <2> QED BY <1>h, <2>7, <2>8
<1>8. CASE WizardFinished
  <2>1. /\ asked # <<>> /\ Head(asked).op = "finish" /\ asked' = Tail(asked)
        /\ others' = others
        /\ stored' = With \/ stored' = stored
        /\ stored # None => stored' = stored
        /\ ui' = [ui EXCEPT !.error = TRUE] \/ ui' = [ui EXCEPT !.step = 3]
        /\ ui' = [ui EXCEPT !.step = 3] /\ ui' # [ui EXCEPT !.error = TRUE] =>
             stored' = IF stored = None THEN With ELSE stored
    BY <1>8, SMT DEF WizardFinished, Answered
  <2>2. asked[1].op = "finish" /\ With = asked[1].with /\ 1 \in 1 .. Len(asked)
    BY <1>0, <2>1, QuestionAnswered DEF With
  <2>3. With = Entered /\ ui.step = 2
        /\ \A j \in 1 .. Len(asked) : asked[j].op = "finish" => j = 1
    BY <1>f, <2>2
  <2>4. /\ ui'.main = ui.main /\ ui'.secret = ui.secret /\ ui'.step \in {2, 3}
        /\ ui'.step = 3 => ui' # [ui EXCEPT !.error = TRUE] /\ ui' = [ui EXCEPT !.step = 3]
    BY <1>0, <2>1, <2>3 DEF FormUi
  <2>5. Entered' = Entered
    BY <2>4 DEF Entered
  <2>6. FinishIsShown'
    <3>1. \A i \in 1 .. Len(asked') : i + 1 \in 1 .. Len(asked) /\ asked'[i] = asked[i + 1]
      BY <1>0, <2>1, QuestionAnswered
    <3>2. ASSUME NEW i \in 1 .. Len(asked'), asked'[i].op = "finish" PROVE FALSE
      <4>1. i + 1 = 1
        BY <2>3, <3>1, <3>2
      <4> QED BY <4>1, SMT
    <3> QED BY <3>2 DEF FinishIsShown
  <2>7. WrittenIsShown'
    BY <1>f, <2>1, <2>3, <2>4, <2>5, SMT DEF WrittenIsShown
  <2> QED BY <1>h, <2>6, <2>7
<1>9. CASE SetupElsewhere
  <2>1. others' /\ ui' = ui /\ asked' = asked
    BY <1>9 DEF SetupElsewhere
  <2>2. Entered' = Entered
    BY <2>1 DEF Entered
  <2> QED BY <1>f, <1>h, <2>1, <2>2 DEF FinishIsShown, WrittenIsShown
<1> QED BY <1>1, <1>2, <1>3, <1>4, <1>5, <1>7, <1>8, <1>9 DEF WizardNext

LEMMA FormsAlways == FormsSpec => []FormsInvariant
<1>1. ASSUME FormsInit
      PROVE  FormsInvariant
  <2>1. FormTypes /\ asked = <<>> /\ (form = "wizard" => stored = None)
    BY <1>1, FormTypesInit DEF FormsInit, Settings
  <2>2. /\ form \in Form /\ stored \in Setting /\ Value \subseteq Value \cup {Blank}
        /\ Len(asked) = 0
    BY <2>1 DEF FormTypes, FormsTypeOK
  <2>3. ui.step = 0 /\ ui.saved = FALSE
    BY <1>1, <2>2 DEF FormsInit, Mounted
  <2>4. FinishIsShown
    BY <2>2 DEF FinishIsShown
  <2>5. WrittenIsShown /\ SavedIsProbed
    BY <2>1, <2>3 DEF WrittenIsShown, SavedIsProbed, Wizard
  <2> QED BY <2>1, <2>4, <2>5 DEF FormsInvariant
<1>2. ASSUME FormsInvariant, [FormsNext]_formVars
      PROVE  FormsInvariant'
  <2>1. FormTypes'
    BY <1>2, FormTypesKept DEF FormsInvariant
  <2>2. CASE WizardNext
    BY <1>2, <2>1, <2>2, WizardWrites DEF FormsInvariant
  <2>3. CASE AgentNext
    BY <1>2, <2>1, <2>3, AgentWrites DEF FormsInvariant
  <2>4. CASE SecretNext \/ ConnectionNext \/ ValueNext \/ ProviderNext
    BY <1>2, <2>1, <2>4, OtherFormsWrite DEF FormsInvariant
  <2>5. CASE Navigate
    <3>1. form' # "wizard" /\ ui' = Mounted(form', stored', stored'.main)
      BY <2>5 DEF Navigate
    <3>2. ~ui'.saved
      BY <3>1 DEF Mounted
    <3> QED BY <2>1, <3>1, <3>2 DEF FormsInvariant, FinishIsShown, WrittenIsShown, SavedIsProbed,
                                    Wizard
  <2>6. CASE UNCHANGED formVars
    <3>1. /\ form' = form /\ ui' = ui /\ asked' = asked /\ stored' = stored /\ others' = others
          /\ FinishIsShown /\ WrittenIsShown /\ SavedIsProbed
      BY <1>2, <2>6 DEF formVars, FormsInvariant
    <3>2. Entered' = Entered /\ (Busy("refresh") => Busy("refresh")')
      BY <3>1 DEF Entered, Busy
    <3>3. FinishIsShown'
      BY <3>1, <3>2 DEF FinishIsShown, Wizard
    <3>4. WrittenIsShown' /\ SavedIsProbed'
      BY <3>1, <3>2 DEF WrittenIsShown, SavedIsProbed, Wizard
    <3> QED BY <2>1, <3>3, <3>4 DEF FormsInvariant
  <2> QED BY <1>2, <2>2, <2>3, <2>4, <2>5, <2>6 DEF FormsNext
<1> QED BY <1>1, <1>2, PTL DEF FormsSpec

\* A wizard that enters the console nobody else set up finds stored what it showed for
\* review, also when it finished twice (app/setup, setup-wizard.tsx).
THEOREM SetupWasReviewed == FormsSpec => []SetupIsReviewed
<1>1. ASSUME FormsInvariant
      PROVE  SetupIsReviewed
  BY <1>1 DEF FormsInvariant, WrittenIsShown, SetupIsReviewed
<1> QED BY <1>1, FormsAlways, PTL

\* When nothing is under way, the agent's health beside a "saved" banner is of the
\* settings saved, unless the panel says that something failed (settings, agent-panel.tsx).
THEOREM HealthIsCurrent == FormsSpec => []HealthIsOfSaved
<1>1. ASSUME FormsInvariant
      PROVE  HealthIsOfSaved
  <2>1. asked = <<>> => ~Busy("refresh")
    BY DEF Busy
  <2> QED BY <1>1, <2>1 DEF FormsInvariant, SavedIsProbed, HealthIsOfSaved
<1> QED BY <1>1, FormsAlways, PTL

-----------------------------------------------------------------------------
(* The users' pages                                                        *)

\* A set of numbers has a least one.
LEMMA LeastNumber ==
  ASSUME NEW T, T \subseteq Nat, T # {}
  PROVE  \E k \in T : \A j \in T : k <= j
<1> DEFINE upTo(k) == 0 .. k
           R == StrictSubsetOrdering(Nat)
           S == {upTo(k) : k \in T}
<1>1. S \subseteq FiniteSubsetsOf(Nat) /\ S # {}
  <2>1. \A k \in T : IsFiniteSet(0 .. k) /\ 0 .. k \subseteq Nat
    BY FS_Interval
  <2> QED BY <2>1 DEF FiniteSubsetsOf
<1>2. IsWellFoundedOn(R, FiniteSubsetsOf(Nat))
  BY FS_StrictSubsetOrderingWellFounded
<1>3. \E s \in S : \A u \in S : ~(<<u, s>> \in R)
  <2> HIDE DEF S, R
  <2> QED BY <1>1, <1>2, WFMin
<1>4. PICK k \in T : \A u \in S : ~(<<u, upTo(k)>> \in R)
  BY <1>3
<1>5. ASSUME NEW j \in T, j < k
      PROVE  FALSE
  <2>1. /\ upTo(j) \subseteq upTo(k) /\ upTo(j) # upTo(k)
        /\ upTo(k) \subseteq Nat
    <3>1. j \in Nat /\ k \in Nat /\ k \in 0 .. k /\ k \notin 0 .. j
      BY <1>5
    <3> QED BY <1>5, <3>1
  <2>2. <<upTo(j), upTo(k)>> \in R
    BY <2>1 DEF StrictSubsetOrdering
  <2> QED BY <1>4, <2>2
<1> QED BY <1>5

\* Who is found by a name carries it, and if any account does one is found.
LEMMA FoundByName ==
  ASSUME accounts \in Seq(Account), NEW who, who # Absent, byName(who) = {}
  PROVE  \A k \in DOMAIN accounts : accounts[k].name # who
<1>1. DOMAIN accounts = 1 .. Len(accounts) /\ Len(accounts) \in Nat
  OBVIOUS
<1> DEFINE T == {j \in DOMAIN accounts : accounts[j].name = who}
<1>2. ASSUME T # {}
      PROVE  FALSE
  <2>1. T \subseteq Nat
    BY <1>1
  <2>2. PICK m \in T : \A j \in T : m <= j
    <3> HIDE DEF T
    <3> QED BY <1>2, <2>1, LeastNumber
  <2>3. ASSUME NEW j \in 1 .. m - 1, accounts[j].name = who
        PROVE  FALSE
    <3>1. j \in DOMAIN accounts /\ j \in Nat /\ m \in Nat
      BY <1>1, <2>2
    <3>2. j < m /\ m <= j
      BY <2>2, <2>3, <3>1
    <3> QED BY <3>1, <3>2
  <2>4. m \in byName(who)
    BY <2>2, <2>3 DEF byName, First
  <2> QED BY <2>4
<1> QED BY <1>2

DirectoryTypeOK == person \in TailnetUser /\ accounts \in Seq(Account)

LEMMA WithoutOne ==
  ASSUME NEW S, NEW s \in Seq(S), NEW k \in DOMAIN s
  PROVE  SubSeq(s, 1, k - 1) \in Seq(S) /\ SubSeq(s, k + 1, Len(s)) \in Seq(S)
<1>1. k \in Int /\ 1 <= k /\ k <= Len(s) /\ Len(s) \in Nat
  OBVIOUS
<1>2. k - 1 \in Int /\ k + 1 \in Int /\ k - 1 <= Len(s) /\ 1 <= k + 1
  BY <1>1
<1>3. \A i \in 1 .. Len(s) : s[i] \in S
  OBVIOUS
<1> QED BY <1>1, <1>2, <1>3, SubSeqProperties

LEMMA DirectoryTypes == DirectorySpec => []DirectoryTypeOK
<1>1. DirectoryInit => DirectoryTypeOK
  BY DEF DirectoryInit, DirectoryTypeOK
<1>2. ASSUME DirectoryTypeOK, [DirectoryNext]_directoryVars
      PROVE  DirectoryTypeOK'
  <2> USE <1>2 DEF DirectoryTypeOK
  <2>1. CASE SignsIn
    BY <2>1 DEF SignsIn
  <2>2. CASE Renamed
    BY <2>2 DEF Renamed
  <2>3. CASE Removed
    <3>1. PICK k \in DOMAIN accounts :
            accounts' = SubSeq(accounts, 1, k - 1) \o SubSeq(accounts, k + 1, Len(accounts))
      BY <2>3 DEF Removed
    <3>2. /\ SubSeq(accounts, 1, k - 1) \in Seq(Account)
          /\ SubSeq(accounts, k + 1, Len(accounts)) \in Seq(Account)
      BY <3>1, WithoutOne
    <3>3. accounts' \in Seq(Account)
      BY <3>1, <3>2, ConcatProperties
    <3>4. person' = person
      BY <2>3 DEF Removed
    <3> QED BY <3>3, <3>4
  <2>4. CASE PersonChanges
    BY <2>4 DEF PersonChanges
  <2>5. CASE UNCHANGED directoryVars
    BY <2>5 DEF directoryVars
  <2> QED BY <2>1, <2>2, <2>3, <2>4, <2>5 DEF DirectoryNext
<1> QED BY <1>1, <1>2, PTL DEF DirectorySpec

\* The list and a user's own page name the same account beside a user, unless the user's two
\* names belong to accounts of two persons (users/page.tsx, users/[id]/page.tsx).
THEOREM SameAccountIsShown == DirectorySpec => []SameAccountShown
<1>1. ASSUME DirectoryTypeOK
      PROVE  SameAccountShown
  <2> DEFINE d == person.displayName
             n == person.name
             names == First(LAMBDA a : a.name # Absent /\ a.name \in {d, n})
  <2>1. matchAccount = IF byEmail(person.email) # {} THEN byEmail(person.email) ELSE names
    BY DEF matchAccount, byEmail
  <2>2. matchAccounts = matchAccount =>
          UserRow = UserHeader /\ UserCard = UserHeader /\ UserIdentity = UserHeader.source
    BY DEF UserSource, HeaderSource, UserRow, UserCard, UserHeader, UserIdentity, Readout
  <2>3. CASE byEmail(person.email) # {}
    BY <2>1, <2>2, <2>3 DEF matchAccounts, SameAccountShown
  <2>4. ASSUME byName(d) = {}
        PROVE  names = byName(n)
    <3>1. \A k \in DOMAIN accounts : ~(d # Absent /\ accounts[k].name = d)
      BY <1>1, <2>4, FoundByName DEF DirectoryTypeOK
    <3>2. \A j \in DOMAIN accounts :
            accounts[j].name # Absent /\ accounts[j].name \in {d, n} <=> n # Absent /\ accounts[j].name = n
      BY <3>1
    <3>3. \A k \in DOMAIN accounts : \A j \in 1 .. k - 1 : j \in DOMAIN accounts
      BY <1>1 DEF DirectoryTypeOK
    <3> QED BY <3>2, <3>3 DEF byName, First
  <2>5. ASSUME byName(n) = {}
        PROVE  names = byName(d)
    <3>1. \A k \in DOMAIN accounts : ~(n # Absent /\ accounts[k].name = n)
      BY <1>1, <2>5, FoundByName DEF DirectoryTypeOK
    <3>2. \A j \in DOMAIN accounts :
            accounts[j].name # Absent /\ accounts[j].name \in {d, n} <=> d # Absent /\ accounts[j].name = d
      BY <3>1
    <3>3. \A k \in DOMAIN accounts : \A j \in 1 .. k - 1 : j \in DOMAIN accounts
      BY <1>1 DEF DirectoryTypeOK
    <3> QED BY <3>2, <3>3 DEF byName, First
  <2>6. ASSUME byName(d) # {}, byName(d) = byName(n)
        PROVE  names = byName(d)
    <3>1. PICK k \in byName(d) : TRUE
      BY <2>6
    <3>2. k \in byName(n)
      BY <2>6, <3>1
    <3>3. d = n
      BY <3>1, <3>2 DEF byName, First
    <3> QED BY <3>1, <3>3 DEF byName, First
  <2>7. ASSUME byEmail(person.email) = {},
               byName(d) = {} \/ byName(n) = {} \/ byName(d) = byName(n)
        PROVE  matchAccounts = names
    BY <2>4, <2>5, <2>6, <2>7 DEF matchAccounts
  <2> QED BY <2>1, <2>2, <2>3, <2>7 DEF SameAccountShown
<1> QED BY <1>1, DirectoryTypes, PTL

-----------------------------------------------------------------------------
(* The console                                                             *)

\* A behaviour of the console is one of each of its parts, so every theorem about a part
\* is one about the console.
THEOREM ConsoleIsItsParts ==
  ConsoleSpec => /\ SshSpec /\ FormsSpec /\ DialogsSpec /\ OverviewSpec
                 /\ DirectorySpec /\ PaletteSpec /\ TrailSpec
<1>1. ConsoleInit => /\ SshInit /\ FormsInit /\ DialogsInit /\ OverviewInit
                     /\ DirectoryInit /\ PaletteInit /\ TrailInit
  BY DEF ConsoleInit
<1>2. ASSUME [ConsoleNext]_consoleVars
      PROVE  /\ [SshNext]_sshVars /\ [FormsNext]_formVars
             /\ [DialogsNext]_dialogVars /\ [OverviewNext]_overviewVars
             /\ [DirectoryNext]_directoryVars /\ [PaletteNext]_paletteVars
             /\ [TrailNext]_trailVars
  BY <1>2, Zenon DEF ConsoleNext, consoleVars
<1> QED BY <1>1, <1>2, PTL DEF ConsoleSpec, SshSpec, FormsSpec, DialogsSpec, OverviewSpec,
         DirectorySpec, PaletteSpec, TrailSpec
=============================================================================
