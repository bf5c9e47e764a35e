------------------------------- MODULE Sampler -------------------------------
(***************************************************************************)
(* The tailnet-size time series: the background tick (lib/sampler) and the *)
(* dashboard visit (dashboard/page.tsx), two writers of one table through  *)
(* one throttle (lib/db/snapshots.ts).  Ticks of one process may overlap;  *)
(* the process may restart at any time.                                    *)
(*                                                                         *)
(* Grain, as in Accounts: one action is one SQL statement or one answer    *)
(* from Headscale, and a job keeps its instance's thread in between.       *)
(***************************************************************************)
EXTENDS Naturals

CONSTANTS Job,        \* BOUND on the ticks and visits under way at once
          Instance,   \* Node processes sharing the database file
          Interval,   \* settings of the sampling interval; 0 is off
          Floor,      \* SNAPSHOT_MIN_INTERVAL_MS, in the model's time unit
          MaxAge,     \* BOUND: an age of MaxAge stands for every older one
          Node,       \* the tailnet's nodes
          AgentNode,  \* the sidecar's own
          None

ASSUME SamplerAssumption ==
  /\ Interval \subseteq Nat /\ Floor \in Nat \ {0} /\ MaxAge \in Nat
  /\ Floor <= MaxAge /\ \A n \in Interval : n <= MaxAge
  /\ AgentNode \in Node /\ None \notin {"tick", "visit"}

VARIABLES
  age,        \* time since the newest snapshot row was written, or MaxAge
  last,       \* history: how that row came about
  interval,   \* app_settings snapshot.interval_minutes
  connected,  \* getConfig().headscale is there
  up,         \* Headscale answers within the timeout
  fleet,      \* the nodes Headscale lists
  job,        \* ticks and visits under way
  reported    \* reportedFailure, by process

config == <<interval, connected>>
world == <<up, fleet>>
vars == <<age, last, config, world, job, reported>>

OnThread == {"check", "latest", "insert"}

JobState == [pc     : OnThread \cup {"idle", "fetch"},
             at     : Instance \cup {None},
             kind   : {"tick", "visit", None},
             window : Nat,              \* the throttle it goes by
             due    : Nat,              \* history: the setting when it began
             nodes  : SUBSET Node]      \* the nodes it counts

Idle == [pc |-> "idle", at |-> None, kind |-> None, window |-> 0, due |-> 0,
         nodes |-> {}]

ThreadFree(i) == \A j \in Job : job[j].at = i => job[j].pc \notin OnThread

Goto(j, pc) == job' = [job EXCEPT ![j].pc = pc]
Finish(j) == job' = [job EXCEPT ![j] = Idle]

\* A success re-arms the report of a tick's next failure.
Done(j) ==
  /\ Finish(j)
  /\ reported' = IF job[j].kind = "tick" THEN [reported EXCEPT ![job[j].at] = FALSE]
                                         ELSE reported

\* sampleTailnetSize reports a failure once; a visit stays silent.
Fail(j) ==
  /\ Finish(j)
  /\ reported' = IF job[j].kind = "tick" THEN [reported EXCEPT ![job[j].at] = TRUE]
                                         ELSE reported

-----------------------------------------------------------------------------
(* A job begins                                                            *)

\* "0 means no background sampling; a visit should then still record".
Setting == IF interval > 0 THEN interval ELSE Floor

Begin(j, i, kind, pc, window) ==
  job' = [job EXCEPT ![j] = [Idle EXCEPT !.pc = pc, !.at = i, !.kind = kind,
                                         !.window = window, !.due = Setting]]

\* MUTANT: the timer is not armed again after a failure.
Tick_StopsAfterFailure(j, i) ==
  /\ job[j].pc = "idle" /\ ThreadFree(i) /\ ~reported[i]
  /\ interval > 0 /\ connected
  /\ Begin(j, i, "tick", "check", interval)
  /\ UNCHANGED <<age, last, config, world, reported>>

\* The timer fires, and sampling is on.
Tick(j, i) ==
  /\ job[j].pc = "idle" /\ ThreadFree(i)
  /\ interval > 0 /\ connected
  /\ Begin(j, i, "tick", "check", interval)
  /\ UNCHANGED <<age, last, config, world, reported>>

\* The pre-check: no API calls for a sample that would be thrown away.
PreCheck(j) ==
  /\ job[j].pc = "check"
  /\ IF age < job[j].window THEN Finish(j) ELSE Goto(j, "fetch")
  /\ UNCHANGED <<age, last, config, world, reported>>

\* MUTANT: a visit throttles by the module's default, not the setting.
Visit_OwnFloor(j, i) ==
  /\ job[j].pc = "idle" /\ ThreadFree(i) /\ connected
  /\ Begin(j, i, "visit", "fetch", Floor)
  /\ UNCHANGED <<age, last, config, world, reported>>

\* A dashboard request: its first getConfig() is the one it keeps (React cache).
Visit(j, i) ==
  /\ job[j].pc = "idle" /\ ThreadFree(i) /\ connected
  /\ Begin(j, i, "visit", "fetch", Setting)
  /\ UNCHANGED <<age, last, config, world, reported>>

-----------------------------------------------------------------------------
(* Headscale answers, and the throttled write                              *)

\* The visit counts what withoutAgentNodes leaves, the tick counts every node.
Counted(j) == IF job[j].kind = "visit" THEN fleet \ {AgentNode} ELSE fleet

Answer(j) ==
  /\ job[j].pc = "fetch" /\ up /\ ThreadFree(job[j].at)
  /\ job' = [job EXCEPT ![j].pc = "latest", ![j].nodes = Counted(j)]
  /\ UNCHANGED <<age, last, config, world, reported>>

\* A timeout, a refusal or an error of either call.
NoAnswer(j) ==
  /\ job[j].pc = "fetch" /\ ~up /\ ThreadFree(job[j].at)
  /\ Fail(j)
  /\ UNCHANGED <<age, last, config, world>>

\* recordSnapshotThrottled asks how old the newest sample is ...
Latest(j) ==
  /\ job[j].pc = "latest"
  /\ IF age < job[j].window
     THEN Done(j)
     ELSE Goto(j, "insert") /\ UNCHANGED reported
  /\ UNCHANGED <<age, last, config, world>>

\* ... and recordSnapshot appends one.
Insert(j) ==
  /\ job[j].pc = "insert"
  /\ last' = [gap |-> age, due |-> job[j].due, nodes |-> job[j].nodes]
  /\ age' = 0
  /\ Done(j)
  /\ UNCHANGED <<config, world>>

\* A statement throws.
Abort(j) ==
  /\ job[j].pc \in OnThread
  /\ Fail(j)
  /\ UNCHANGED <<age, last, config, world>>

-----------------------------------------------------------------------------
(* Around the sampler                                                      *)

Pass == age' = (IF age < MaxAge THEN age + 1 ELSE MaxAge)
        /\ UNCHANGED <<last, config, world, job, reported>>

\* saveSamplingInterval; getConfig() reads the row afresh in the next job.
SetInterval(n) ==
  /\ interval' = n
  /\ UNCHANGED <<age, last, connected, world, job, reported>>

\* Setup completes.
Connect ==
  /\ ~connected
  /\ connected' = TRUE
  /\ UNCHANGED <<age, last, interval, world, job, reported>>

Headscale ==
  /\ up' \in BOOLEAN /\ fleet' \in SUBSET Node
  /\ UNCHANGED <<age, last, config, job, reported>>

\* The process dies and comes back: its jobs and its flag are gone.
Restart(i) ==
  /\ job' = [j \in Job |-> IF job[j].at = i THEN Idle ELSE job[j]]
  /\ reported' = [reported EXCEPT ![i] = FALSE]
  /\ UNCHANGED <<age, last, config, world>>

Init ==
  /\ age = MaxAge
  /\ last = [gap |-> MaxAge, due |-> 0, nodes |-> {}]
  /\ interval \in Interval /\ connected \in BOOLEAN
  /\ up \in BOOLEAN /\ fleet \in SUBSET Node
  /\ job = [j \in Job |-> Idle]
  /\ reported = [i \in Instance |-> FALSE]

Run(j) == PreCheck(j) \/ Latest(j) \/ Insert(j)
Settle(j) == Answer(j) \/ NoAnswer(j)

Next ==
  \/ \E j \in Job : \/ \E i \in Instance : Tick(j, i) \/ Visit(j, i)
                    \/ Run(j) \/ Settle(j) \/ Abort(j)
  \/ Pass \/ Connect \/ Headscale
  \/ \E n \in Interval : SetInterval(n)
  \/ \E i \in Instance : Restart(i)

Spec == Init /\ [][Next]_vars

\* Time passes; a job with the thread runs on; the answer or the timeout of a
\* request is handled, and the timer fires, though others use the thread (and
\* the model's job slots) in between.
FairSpec ==
  /\ Spec
  /\ WF_vars(Pass)
  /\ \A j \in Job : WF_vars(Run(j)) /\ SF_vars(Settle(j))
  /\ \A i \in Instance : SF_vars(\E j \in Job : Tick(j, i))

-----------------------------------------------------------------------------
(* Properties                                                              *)

JobOK(q) ==
  /\ q.pc # "idle" => q.at \in Instance /\ q.kind # None /\ q.window > 0
  /\ q.pc = "check" => q.kind = "tick"

\* Types; a job under way has a window, so "off" never samples in the background.
TypeOK ==
  /\ age \in 0 .. MaxAge
  /\ last \in [gap : 0 .. MaxAge, due : Nat, nodes : SUBSET Node]
  /\ interval \in Interval
  /\ connected \in BOOLEAN /\ up \in BOOLEAN
  /\ fleet \in SUBSET Node
  /\ job \in [Job -> JobState]
  /\ reported \in [Instance -> BOOLEAN]
  /\ \A j \in Job : JobOK(job[j])

\* A sample is never closer to the one before it than the setting its job began
\* under: "a dashboard visit and a tick can never both record inside one
\* interval", and "two server instances cannot double-sample".
Spaced == last.gap >= last.due

\* Once sampling is on, connected and Headscale keeps answering, samples keep
\* coming, whatever failed, restarted or changed before ("a missed tick
\* self-corrects"; a failure means "no sample this time, which the next tick
\* retries").
Steady(n) == connected /\ up /\ interval = n
Calm == <>[][(\A i \in Instance : ~Restart(i)) /\ (\A j \in Job : ~Abort(j))]_vars
SamplingResumes ==
  \A n \in Interval \ {0} : Calm /\ <>[]Steady(n) => []<>(age = 0)
=============================================================================
