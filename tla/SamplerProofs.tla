---------------------------- MODULE SamplerProofs ----------------------------
(***************************************************************************)
(* Theorems about Sampler for any number of overlapping ticks and visits,  *)
(* any intervals and any fleet: its types, and, for a single process, that *)
(* samples keep the distance of the setting they began under.              *)
(***************************************************************************)
EXTENDS Sampler, TLAPS

-----------------------------------------------------------------------------
(* Jobs: every action replaces one job by a well-formed one, or none.      *)

Moves(j) == \E q \in JobState : JobOK(q) /\ job' = [job EXCEPT ![j] = q]

LEMMA IdleOK == Idle \in JobState /\ JobOK(Idle)
  BY DEF Idle, JobState, JobOK

LEMMA FinishMoves == ASSUME NEW j \in Job, Finish(j) PROVE Moves(j)
  BY IdleOK DEF Finish, Moves

\* What Done and Fail leave of the report flags.
LEMMA ReportedType ==
  ASSUME TypeOK, NEW j \in Job, Done(j) \/ Fail(j)
  PROVE  Moves(j) /\ reported' \in [Instance -> BOOLEAN]
<1>1. Moves(j)
  BY FinishMoves DEF Done, Fail
<1>2. reported \in [Instance -> BOOLEAN]
  BY DEF TypeOK
<1> QED
  BY <1>1, <1>2 DEF Done, Fail

LEMMA BeginMoves ==
  ASSUME NEW j \in Job, NEW i \in Instance, NEW kind \in {"tick", "visit"},
         NEW pc \in {"check", "fetch"}, pc = "check" => kind = "tick",
         NEW window \in Nat \ {0}, Setting \in Nat, Begin(j, i, kind, pc, window)
  PROVE  Moves(j)
<1> DEFINE q == [Idle EXCEPT !.pc = pc, !.at = i, !.kind = kind, !.window = window,
                             !.due = Setting]
<1>1. job' = [job EXCEPT ![j] = q]
  BY DEF Begin
<1>2. q \in [pc : {pc}, at : {i}, kind : {kind}, window : {window}, due : {Setting},
             nodes : {{}}]
  BY DEF Idle
<1> HIDE DEF q
<1>3. q \in JobState
  BY <1>2 DEF JobState, OnThread
<1>4. JobOK(q)
  BY <1>2, SamplerAssumption DEF JobOK
<1> QED
  BY <1>1, <1>3, <1>4 DEF Moves

LEMMA FirstStepMoves ==
  ASSUME TypeOK, NEW j \in Job, NEW i \in Instance, Tick(j, i) \/ Visit(j, i)
  PROVE  Moves(j)
<1>1. Setting \in Nat \ {0} /\ (interval > 0 => interval \in Nat \ {0})
  BY SamplerAssumption DEF TypeOK, Setting
<1>2. CASE Tick(j, i)
  BY <1>1, <1>2, BeginMoves DEF Tick
<1>3. CASE Visit(j, i)
  BY <1>1, <1>3, BeginMoves DEF Visit
<1> QED
  BY <1>2, <1>3

LEMMA GotoMoves ==
  ASSUME TypeOK, NEW j \in Job, NEW pc \in {"fetch", "insert"},
         job[j].pc # "idle", Goto(j, pc)
  PROVE  Moves(j)
<1> DEFINE q == [job[j] EXCEPT !.pc = pc]
<1>1. job[j] \in JobState /\ JobOK(job[j])
  BY DEF TypeOK
<1>2. q \in JobState /\ JobOK(q)
  BY <1>1 DEF JobState, JobOK, OnThread
<1> QED
  BY <1>2 DEF Goto, Moves

LEMMA AnswerMoves == ASSUME TypeOK, NEW j \in Job, Answer(j) PROVE Moves(j)
<1> DEFINE q == [job[j] EXCEPT !.pc = "latest", !.nodes = Counted(j)]
<1>1. job[j] \in JobState /\ JobOK(job[j]) /\ job[j].pc = "fetch" /\ fleet \in SUBSET Node
  BY DEF TypeOK, Answer
<1>2. Counted(j) \in SUBSET Node
  BY <1>1 DEF Counted
<1>3. q \in JobState /\ JobOK(q)
  BY <1>1, <1>2 DEF JobState, JobOK, OnThread
<1> QED
  BY <1>3 DEF Answer, Moves

\* Every step is about one job, with the rest of the state in type, or is none
\* of the jobs' business.
LEMMA JobSteps ==
  ASSUME TypeOK, NEW j \in Job,
         (\E i \in Instance : Tick(j, i) \/ Visit(j, i)) \/ Run(j) \/ Settle(j) \/ Abort(j)
  PROVE  Moves(j) /\ reported' \in [Instance -> BOOLEAN]
<1>1. reported \in [Instance -> BOOLEAN]
  BY DEF TypeOK
<1>2. CASE \E i \in Instance : Tick(j, i) \/ Visit(j, i)
  BY <1>1, <1>2, FirstStepMoves DEF Tick, Visit
<1>3. CASE PreCheck(j)
  BY <1>1, <1>3, FinishMoves, GotoMoves DEF PreCheck
<1>4. CASE Latest(j)
  BY <1>1, <1>4, ReportedType, GotoMoves DEF Latest
<1>5. CASE Insert(j)
  BY <1>5, ReportedType DEF Insert
<1>6. CASE Answer(j)
  BY <1>1, <1>6, AnswerMoves DEF Answer
<1>7. CASE NoAnswer(j) \/ Abort(j)
  BY <1>7, ReportedType DEF NoAnswer, Abort
<1> QED
  BY <1>2, <1>3, <1>4, <1>5, <1>6, <1>7 DEF Run, Settle

LEMMA TypeNext == TypeOK /\ [Next]_vars => TypeOK'
<1> SUFFICES ASSUME TypeOK, [Next]_vars PROVE TypeOK'
  OBVIOUS
<1> USE SamplerAssumption
<1>1. ASSUME NEW j \in Job,
             (\E i \in Instance : Tick(j, i) \/ Visit(j, i)) \/ Run(j) \/ Settle(j) \/ Abort(j)
      PROVE  TypeOK'
  <2>1. PICK q \in JobState : JobOK(q) /\ job' = [job EXCEPT ![j] = q]
    BY <1>1, JobSteps DEF Moves
  <2>2. job' \in [Job -> JobState] /\ \A k \in Job : JobOK(job'[k])
    BY <2>1 DEF TypeOK
  <2>3. reported' \in [Instance -> BOOLEAN]
    BY <1>1, JobSteps
  <2>4. UNCHANGED <<config, world>>
    BY <1>1 DEF Tick, Visit, Run, PreCheck, Latest, Insert, Settle, Answer, NoAnswer, Abort
  <2>5. age' \in 0 .. MaxAge /\ last' \in [gap : 0 .. MaxAge, due : Nat, nodes : SUBSET Node]
    <3>1. CASE Insert(j)
      BY <3>1 DEF Insert, TypeOK, JobState
    <3>2. CASE ~Insert(j)
      BY <1>1, <3>2 DEF Tick, Visit, Run, PreCheck, Latest, Settle, Answer, NoAnswer, Abort,
         TypeOK
    <3> QED
      BY <3>1, <3>2
  <2> QED
    BY <2>2, <2>3, <2>4, <2>5 DEF TypeOK, config, world
<1>2. CASE Pass \/ Connect \/ Headscale \/ \E n \in Interval : SetInterval(n)
  <2>1. UNCHANGED <<last, job, reported>>
    BY <1>2 DEF Pass, Connect, Headscale, SetInterval
  <2>2. age' \in 0 .. MaxAge
    BY <1>2 DEF TypeOK, Pass, Connect, Headscale, SetInterval
  <2>3. /\ interval' \in Interval /\ connected' \in BOOLEAN
        /\ up' \in BOOLEAN /\ fleet' \in SUBSET Node
    BY <1>2 DEF TypeOK, Pass, Connect, Headscale, SetInterval, config, world
  <2> QED
    BY <2>1, <2>2, <2>3 DEF TypeOK
<1>3. ASSUME NEW i \in Instance, Restart(i) PROVE TypeOK'
  BY <1>3, IdleOK DEF TypeOK, Restart, config, world
<1>4. CASE UNCHANGED vars
  BY <1>4 DEF TypeOK, vars, config, world
<1> QED
  BY <1>1, <1>2, <1>3, <1>4 DEF Next

LEMMA TypeInit == Init => TypeOK
  BY SamplerAssumption, IdleOK DEF Init, TypeOK

\* Types, for any number of processes.
THEOREM TypeCorrect == Spec => []TypeOK
  BY TypeInit, TypeNext, PTL DEF Spec

-----------------------------------------------------------------------------
(* One process: the newest sample cannot change between the throttle's     *)
(* read and the insert.                                                    *)

\* Both writers throttle by the setting their job began under; one job has the
\* thread; a job about to insert has just found the newest sample old enough.
Throttled ==
  /\ \A j \in Job : job[j].pc # "idle" => job[j].window = job[j].due
  /\ \A j, k \in Job : job[j].pc \in OnThread /\ job[k].pc \in OnThread => j = k
  /\ \A j \in Job : job[j].pc = "insert" => age >= job[j].window
  /\ Spaced

LEMMA ThrottledInit == Init => Throttled
  BY SamplerAssumption DEF Init, Throttled, Spaced, Idle, OnThread

\* A step of one job that keeps its window and its due time, as all but the
\* first one do, and that does not write.
LEMMA QuietStep ==
  ASSUME TypeOK, Throttled, UNCHANGED <<age, last>>, NEW j \in Job, NEW q,
         job' = [job EXCEPT ![j] = q],
         q.pc # "idle" => q.window = q.due,
         q.pc \in OnThread => \A k \in Job \ {j} : job[k].pc \notin OnThread,
         q.pc = "insert" => age >= q.window
  PROVE  Throttled'
<1>1. job'[j] = q /\ \A k \in Job \ {j} : job'[k] = job[k]
  BY DEF TypeOK
<1>2. \A k \in Job : job'[k].pc # "idle" => job'[k].window = job'[k].due
  BY <1>1 DEF Throttled
<1>3. \A k, m \in Job : job'[k].pc \in OnThread /\ job'[m].pc \in OnThread => k = m
  BY <1>1 DEF Throttled
<1>4. \A k \in Job : job'[k].pc = "insert" => age' >= job'[k].window
  BY <1>1 DEF Throttled
<1> QED
  BY <1>2, <1>3, <1>4 DEF Throttled, Spaced

LEMMA FreeMeansNobody ==
  ASSUME NEW i, Instance = {i}, TypeOK, NEW a \in Instance, ThreadFree(a)
  PROVE  \A k \in Job : job[k].pc \notin OnThread
  BY DEF TypeOK, JobOK, ThreadFree, OnThread

LEMMA ThrottledNext ==
  ASSUME NEW i, Instance = {i}
  PROVE  TypeOK /\ Throttled /\ [Next]_vars => Throttled'
<1> SUFFICES ASSUME TypeOK, Throttled, [Next]_vars PROVE Throttled'
  OBVIOUS
<1>0. Idle.pc = "idle" /\ "idle" \notin OnThread
  BY DEF Idle, OnThread
<1>1. ASSUME NEW j \in Job, Finish(j), UNCHANGED <<age, last>> PROVE Throttled'
  <2> DEFINE q == Idle
  <2>1. job' = [job EXCEPT ![j] = q]
    BY <1>1 DEF Finish
  <2> HIDE DEF q
  <2>2. q.pc = "idle"
    BY <1>0 DEF q
  <2> QED
    BY <1>0, <1>1, <2>1, <2>2, QuietStep DEF OnThread
<1>2. ASSUME NEW j \in Job, NEW a \in Instance, Tick(j, a) PROVE Throttled'
  <2> DEFINE q == [Idle EXCEPT !.pc = "check", !.at = a, !.kind = "tick",
                               !.window = interval, !.due = Setting]
  <2>1. job' = [job EXCEPT ![j] = q] /\ UNCHANGED <<age, last>>
    BY <1>2 DEF Tick, Begin
  <2>2. q.pc = "check" /\ q.window = q.due
    BY <1>2 DEF Tick, Setting, Idle
  <2>3. \A k \in Job : job[k].pc \notin OnThread
    BY <1>2, FreeMeansNobody DEF Tick
  <2> HIDE DEF q
  <2> QED
    BY <2>1, <2>2, <2>3, QuietStep
<1>3. ASSUME NEW j \in Job, NEW a \in Instance, Visit(j, a) PROVE Throttled'
  <2> DEFINE q == [Idle EXCEPT !.pc = "fetch", !.at = a, !.kind = "visit",
                               !.window = Setting, !.due = Setting]
  <2>1. job' = [job EXCEPT ![j] = q] /\ UNCHANGED <<age, last>>
    BY <1>3 DEF Visit, Begin
  <2>2. q.pc = "fetch" /\ q.window = q.due
    BY DEF Idle
  <2> HIDE DEF q
  <2> QED
    BY <2>1, <2>2, QuietStep DEF OnThread
<1>4. ASSUME NEW j \in Job, Goto(j, "fetch"), UNCHANGED <<age, last>>, job[j].pc # "idle"
      PROVE  Throttled'
  <2> DEFINE q == [job[j] EXCEPT !.pc = "fetch"]
  <2>1. job[j] \in JobState /\ job[j].window = job[j].due
    BY <1>4 DEF TypeOK, Throttled
  <2>2. q.pc = "fetch" /\ q.window = q.due
    BY <2>1 DEF JobState
  <2>3. job' = [job EXCEPT ![j] = q]
    BY <1>4 DEF Goto
  <2> HIDE DEF q
  <2> QED
    BY <1>4, <2>2, <2>3, QuietStep DEF OnThread
<1>5. ASSUME NEW j \in Job, Goto(j, "insert"), UNCHANGED <<age, last>>, job[j].pc = "latest",
             ~(age < job[j].window)
      PROVE  Throttled'
  <2> DEFINE q == [job[j] EXCEPT !.pc = "insert"]
  <2>1. job[j] \in JobState /\ job[j].window = job[j].due /\ age \in Nat
    BY <1>5, SamplerAssumption DEF TypeOK, Throttled
  <2>2. q.pc = "insert" /\ q.window = q.due /\ q.window = job[j].window
    BY <2>1 DEF JobState
  <2>3. age >= q.window
    BY <1>5, <2>1, <2>2 DEF JobState
  <2>4. \A k \in Job \ {j} : job[k].pc \notin OnThread
    BY <1>5 DEF Throttled, OnThread
  <2>5. job' = [job EXCEPT ![j] = q]
    BY <1>5 DEF Goto
  <2> HIDE DEF q
  <2> QED
    BY <1>5, <2>2, <2>3, <2>4, <2>5, QuietStep
<1>6. ASSUME NEW j \in Job, Answer(j) PROVE Throttled'
  <2> DEFINE q == [job[j] EXCEPT !.pc = "latest", !.nodes = Counted(j)]
  <2>1. job[j] \in JobState /\ job[j].pc = "fetch" /\ JobOK(job[j])
    BY <1>6 DEF TypeOK, Answer
  <2>2. job[j].window = job[j].due /\ job[j].at \in Instance
    BY <2>1 DEF Throttled, JobOK
  <2>3. q.pc = "latest" /\ q.window = q.due
    BY <2>1, <2>2 DEF JobState
  <2>4. \A k \in Job : job[k].pc \notin OnThread
    BY <1>6, <2>2, FreeMeansNobody DEF Answer
  <2>5. job' = [job EXCEPT ![j] = q] /\ UNCHANGED <<age, last>>
    BY <1>6 DEF Answer
  <2> HIDE DEF q
  <2> QED
    BY <2>3, <2>4, <2>5, QuietStep
<1>7. ASSUME NEW j \in Job, Insert(j) PROVE Throttled'
  <2>1. job[j].pc = "insert" /\ age >= job[j].window /\ job[j].window = job[j].due
    BY <1>7 DEF Insert, Throttled
  <2>2. Spaced'
    BY <1>7, <2>1 DEF Insert, Spaced
  <2>3. \A k \in Job \ {j} : job[k].pc \notin OnThread
    BY <2>1 DEF Throttled, OnThread
  <2>4. job' = [job EXCEPT ![j] = Idle]
    BY <1>7 DEF Insert, Done, Finish
  <2>5. \A k \in Job : job'[k].pc \notin OnThread /\ (job'[k].pc # "idle" => job'[k] = job[k])
    BY <1>0, <2>3, <2>4 DEF TypeOK
  <2> QED
    BY <2>2, <2>5 DEF Throttled, OnThread
<1>8. CASE Pass
  <2>1. age' >= age \/ age' = MaxAge
    BY <1>8, SamplerAssumption DEF Pass, TypeOK
  <2> QED
    BY <1>8, SamplerAssumption DEF Pass, TypeOK, Throttled, Spaced, JobState
<1>9. CASE Connect \/ Headscale \/ (\E n \in Interval : SetInterval(n)) \/ UNCHANGED vars
  BY <1>9 DEF Connect, Headscale, SetInterval, vars, Throttled, Spaced
<1>10. ASSUME NEW a \in Instance, Restart(a) PROVE Throttled'
  <2>1. \A j \in Job : job'[j] = Idle \/ job'[j] = job[j]
    BY <1>10 DEF Restart
  <2> QED
    BY <1>0, <1>10, <2>1 DEF Restart, Throttled, Spaced, OnThread
<1>11. ASSUME NEW j \in Job, Run(j) \/ Settle(j) \/ Abort(j) PROVE Throttled'
  <2>1. CASE PreCheck(j)
    BY <1>1, <1>4, <2>1 DEF PreCheck
  <2>2. CASE Latest(j)
    BY <1>1, <1>5, <2>2 DEF Latest, Done
  <2>3. CASE NoAnswer(j) \/ Abort(j)
    BY <1>1, <2>3 DEF NoAnswer, Abort, Fail
  <2> QED
    BY <1>6, <1>7, <1>11, <2>1, <2>2, <2>3 DEF Run, Settle
<1> QED
  BY <1>2, <1>3, <1>8, <1>9, <1>10, <1>11 DEF Next

\* With one process no sample is closer to the one before it than the setting
\* its job began under, however ticks, visits and interval changes overlap.
THEOREM SamplesAreSpaced ==
  ASSUME NEW i, Instance = {i}
  PROVE  Spec => []Spaced
<1>1. Throttled => Spaced
  BY DEF Throttled
<1> QED
  BY <1>1, ThrottledInit, ThrottledNext, TypeCorrect, PTL DEF Spec
=============================================================================
