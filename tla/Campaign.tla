------------------------------ MODULE Campaign ------------------------------
(***************************************************************************)
(* One campaign of cmd/purpleloop: runTasks groups the plan's tasks by     *)
(* platform, gates each platform with a canary, drives every task through  *)
(* runTechnique, and settles the result (blanking on a failed canary, then *)
(* labelling attribution) before it is reported.                           *)
(*                                                                         *)
(* Time is a tick counter. Commands, probes, cleanups and polling consume  *)
(* it, so windows, and the overlaps between them, are computed as the code *)
(* computes them. What the telemetry says is abstracted to the technique   *)
(* that caused an event and the instant it happened.                       *)
(***************************************************************************)
EXTENDS Integers

CONSTANTS
  N,            \* number of tasks in the plan
  Platforms,    \* platforms the rule map can name
  Plans,        \* the plans considered: a platform for each task
  Eps,          \* backward epsilon of a collection window
  Pad,          \* forward pad of a collection window (collectWindow)
  MinWait,      \* floor before the collector's first poll
  MaxWait,      \* bound: longest collection
  MaxCanary,    \* bound: longest canary
  MaxProbe,     \* bound: longest sequence of prerequisite probes
  MaxCommand,   \* bound: longest command
  MaxCleanup,   \* bound: longest cleanup
  MaxLinger,    \* bound: how long after its cleanup a technique leaves telemetry
  HostKnown     \* primaryHost resolves a host

ASSUME CampaignAssumption ==
  /\ N \in Nat
  /\ Plans \in SUBSET [1 .. N -> Platforms]
  /\ Eps \in Nat \ {0}
  /\ Pad \in Nat \ {0}
  /\ MinWait \in Nat
  /\ MinWait >= Eps
  /\ MaxWait \in Nat
  /\ MaxCanary \in Nat /\ MaxProbe \in Nat
  /\ MaxCommand \in Nat /\ MaxCleanup \in Nat /\ MaxLinger \in Nat
  /\ HostKnown \in BOOLEAN

Task == 1 .. N

(* The zero time.Time: no clock reading of a campaign is this old. *)
ZeroWindow == [start |-> 0, end |-> 0]
Origin == Eps + 1

Events  == [src : Task, at : Nat]
Windows == [start : Nat, end : Nat]

Claim    == {"DETECTED", "MISSED", "NO_TELEMETRY"}
NoClaim  == {"INCONCLUSIVE", "ERROR", "SKIPPED_PREREQ"}
Verdicts == Claim \cup NoClaim
Labels   == {"unscoped", "window_overlap", "window_scoped",
             "window_and_host_scoped"}

VARIABLES
  plan,           \* the platform of each task, in the feed's order
  synthetic,      \* some stage of the pipeline is dry
  noStack,        \* platforms whose stack cannot be built
  pc,             \* where runTasks / runTechnique stand
  now,            \* the clock
  active,         \* the platform being driven
  cur,            \* the task being driven
  handled,        \* platforms already driven, or given up
  canaryHealthy, inconclusive,           \* the result's trust fields
  win, got,       \* the current chain's window and collected events
  verdict, window, collected, label,     \* the appended chains, by task
  (* what happened in the lab, which the code never sees as a whole *)
  events,         \* telemetry caused by the techniques
  ran,            \* the tasks whose command was executed
  finish,         \* when each of them finished
  gate            \* the outcome of each platform's canary

inputs == <<plan, synthetic, noStack>>
trust  == <<canaryHealthy, inconclusive, gate>>
chains == <<verdict, window, collected>>
vars == <<inputs, trust, chains, pc, now, active, cur, handled, win, got,
          label, events, ran, finish>>

TypeOK ==
  /\ plan \in [Task -> Platforms]
  /\ synthetic \in BOOLEAN
  /\ noStack \in SUBSET Platforms
  /\ pc \in {"platform", "task", "execute", "collect", "evaluate", "done"}
  /\ now \in Nat
  /\ active \in Platforms \cup {"none"}
  /\ cur \in Task \cup {0}
  /\ handled \in SUBSET Platforms
  /\ canaryHealthy \in BOOLEAN
  /\ inconclusive \in BOOLEAN
  /\ win \in Windows
  /\ got \in SUBSET Events
  /\ verdict \in [Task -> Verdicts \cup {"none"}]
  /\ window \in [Task -> Windows]
  /\ collected \in [Task -> SUBSET Events]
  /\ label \in [Task -> Labels \cup {"none"}]
  /\ events \in SUBSET Events
  /\ ran \in SUBSET Task
  /\ finish \in [Task -> Nat]
  /\ gate \in [Platforms -> {"none", "healthy", "failed"}]

----------------------------------------------------------------------------
(* Mutant of Overlaps: only a window opened inside the other one counts. *)
OpensInside(w, o) == w.start <= o.start /\ o.start < w.end

(* TimeWindow.Overlaps. *)
Overlaps(w, o) == w.start < o.end /\ o.start < w.end

(* Mutant of Window: the slack for clock skew taken on both sides at once. *)
WindowWiderBack(s, f) == [start |-> s - 2 * Eps, end |-> f + Pad]

(* RunResult.Window: padded on the end only, plus the epsilon. *)
Window(s, f) == [start |-> s - Eps, end |-> f + Pad]

(* What labelAttribution writes on a chain. *)
OverlapsAnother(t) ==
  \E u \in Task \ {t} : window[u].start # 0 /\ Overlaps(window[t], window[u])

LabelOf(t) ==
  IF synthetic \/ window[t] = ZeroWindow THEN "unscoped"
  ELSE IF OverlapsAnother(t) THEN "window_overlap"
  ELSE IF HostKnown THEN "window_and_host_scoped"
  ELSE "window_scoped"

(* Mutant of FinalVerdict: a detection is kept, being good news. *)
FinalVerdictKeepsDetected(t) ==
  IF inconclusive /\ verdict[t] \notin {"ERROR", "DETECTED"}
  THEN "INCONCLUSIVE" ELSE verdict[t]

(* The verdict a chain keeps when the run is settled. *)
FinalVerdict(t) ==
  IF inconclusive /\ verdict[t] # "ERROR" THEN "INCONCLUSIVE" ELSE verdict[t]

(* Platforms are driven in the order of their first task. *)
Waiting == {t \in Task : plan[t] \notin handled}

IsNext(p) == \E t \in Waiting : plan[t] = p /\ \A u \in Waiting : t <= u

(* The tasks of a platform are driven in the plan's order. *)
Pending == {t \in Task : plan[t] = active /\ verdict[t] = "none"}

IsFirst(t) == t \in Pending /\ \A u \in Pending : t <= u

(* What a query for task t can return at an instant: its window, its host. *)
Visible(t, instant) ==
  {e \in events : /\ win.start <= e.at /\ e.at <= win.end
                  /\ e.at <= instant
                  /\ plan[e.src] = plan[t]}

(* What task t started leaves telemetry, or none, stamped in from..to. A dry
   executor runs nothing. *)
Leaves(t, from, to) ==
  \/ UNCHANGED events
  \/ /\ ~synthetic
     /\ \E x \in from .. to : events' = events \cup {[src |-> t, at |-> x]}

(* runTasks appends the chain of task t. *)
AppendChain(t, v, w, c) ==
  /\ verdict'   = [verdict EXCEPT ![t] = v]
  /\ window'    = [window EXCEPT ![t] = w]
  /\ collected' = [collected EXCEPT ![t] = c]
  /\ pc' = "task"
  /\ cur' = 0
  /\ win' = ZeroWindow
  /\ got' = {}

(* The chain runTasks substitutes when runTechnique returns an error: it
   keeps the technique and the reason, and nothing of the execution. *)
AppendError(t) == AppendChain(t, "ERROR", ZeroWindow, {})

----------------------------------------------------------------------------
Init ==
  /\ plan \in Plans
  /\ synthetic \in BOOLEAN
  /\ noStack \in SUBSET {plan[t] : t \in Task}
  /\ pc = "platform"
  /\ now = Origin
  /\ active = "none"
  /\ cur = 0
  /\ handled = {}
  /\ canaryHealthy = FALSE
  /\ inconclusive = FALSE
  /\ win = ZeroWindow
  /\ got = {}
  /\ verdict = [t \in Task |-> "none"]
  /\ window = [t \in Task |-> ZeroWindow]
  /\ collected = [t \in Task |-> {}]
  /\ label = [t \in Task |-> "none"]
  /\ events = {}
  /\ ran = {}
  /\ finish = [t \in Task |-> 0]
  /\ gate = [p \in Platforms |-> "none"]

(* Mutant of SkipPlatform: the loop continues without the ERROR chains. *)
SkipPlatformSilently(p) ==
  /\ pc = "platform" /\ IsNext(p)
  /\ p \in noStack
  /\ handled' = handled \cup {p}
  /\ UNCHANGED <<inputs, trust, chains, pc, now, active, cur, win, got, label,
                 events, ran, finish>>

(* stackFor failed: every task of the platform is an ERROR, none executes. *)
SkipPlatform(p) ==
  /\ pc = "platform" /\ IsNext(p)
  /\ p \in noStack
  /\ verdict' = [t \in Task |-> IF plan[t] = p THEN "ERROR" ELSE verdict[t]]
  /\ handled' = handled \cup {p}
  /\ UNCHANGED <<inputs, trust, window, collected, pc, now, active, cur,
                 win, got, label, events, ran, finish>>

(* Mutant of Gate: one healthy platform exempts the next ones. *)
GateOnce(p) ==
  /\ pc = "platform" /\ IsNext(p)
  /\ p \notin noStack
  /\ \/ (synthetic \/ canaryHealthy) /\ UNCHANGED <<trust, now>>
     \/ /\ ~synthetic /\ ~canaryHealthy
        /\ \E healthy \in BOOLEAN :
             /\ gate' = [gate EXCEPT ![p] =
                           IF healthy THEN "healthy" ELSE "failed"]
             /\ canaryHealthy' = healthy
             /\ inconclusive' = (inconclusive \/ ~healthy)
        /\ now' = now
  /\ active' = p
  /\ pc' = "task"
  /\ UNCHANGED <<inputs, chains, cur, handled, win, got, label, events, ran,
                 finish>>

(* The canary of a platform: skipped by a synthetic run, otherwise it either
   is detected or is not. Its tasks run in both cases. *)
Gate(p) ==
  /\ pc = "platform" /\ IsNext(p)
  /\ p \notin noStack
  /\ \/ synthetic /\ UNCHANGED <<trust, now>>
     \/ /\ ~synthetic
        /\ \E healthy \in BOOLEAN :
             /\ gate' = [gate EXCEPT ![p] =
                           IF healthy THEN "healthy" ELSE "failed"]
             /\ canaryHealthy' = (canaryHealthy \/ healthy)
             /\ inconclusive' = (inconclusive \/ ~healthy)
        /\ \E d \in 0 .. MaxCanary : now' = now + d
  /\ active' = p
  /\ pc' = "task"
  /\ UNCHANGED <<inputs, chains, cur, handled, win, got, label, events, ran,
                 finish>>

(* Mutant of Unresolved: the early return leaves the verdict unset. *)
UnresolvedUnset(t) ==
  /\ pc = "task" /\ IsFirst(t)
  /\ AppendChain(t, "", ZeroWindow, {})
  /\ UNCHANGED <<inputs, trust, now, active, handled, label, events, ran,
                 finish>>

(* The atomic does not resolve, or is for another platform. *)
Unresolved(t) ==
  /\ pc = "task" /\ IsFirst(t)
  /\ AppendChain(t, "ERROR", ZeroWindow, {})
  /\ UNCHANGED <<inputs, trust, now, active, handled, label, events, ran,
                 finish>>

(* A prerequisite probe fails, or cannot be run. *)
Unmet(t) ==
  /\ pc = "task" /\ IsFirst(t)
  /\ ~synthetic
  /\ \E d \in 0 .. MaxProbe : now' = now + d /\ Leaves(t, now, now + d)
  /\ AppendChain(t, "SKIPPED_PREREQ", ZeroWindow, {})
  /\ UNCHANGED <<inputs, trust, active, handled, label, ran, finish>>

(* The atomic resolves and its prerequisites, if any, hold. *)
Ready(t) ==
  /\ pc = "task" /\ IsFirst(t)
  /\ \E d \in 0 .. MaxProbe : now' = now + d /\ Leaves(t, now, now + d)
  /\ cur' = t
  /\ pc' = "execute"
  /\ UNCHANGED <<inputs, trust, chains, active, handled, win, got, label, ran,
                 finish>>

(* The executor could not start the command. *)
ExecuteFails(t) ==
  /\ pc = "execute" /\ cur = t
  /\ ~synthetic
  /\ AppendError(t)
  /\ UNCHANGED <<inputs, trust, now, active, handled, label, events, ran,
                 finish>>

(* The command ran for d ticks and its cleanup for c; what they started may
   outlive them. *)
Execute(t) ==
  /\ pc = "execute" /\ cur = t
  /\ \E d \in 0 .. MaxCommand, c \in 0 .. MaxCleanup :
       /\ now' = now + d + c
       /\ Leaves(t, now, now + d + c + MaxLinger)
       /\ finish' = [finish EXCEPT ![t] = now + d]
       /\ win' = Window(now, now + d)
  /\ ran' = ran \cup {t}
  /\ pc' = "collect"
  /\ UNCHANGED <<inputs, trust, chains, active, cur, handled, got, label>>

(* No rule is mapped to the technique: it returns without collecting, with
   the window it already has. *)
Unmapped(t) ==
  /\ pc = "collect" /\ cur = t
  /\ AppendChain(t, "ERROR", win, {})
  /\ UNCHANGED <<inputs, trust, now, active, handled, label, events, ran,
                 finish>>

(* A query fails: the dry collector never does. *)
CollectFails(t) ==
  /\ pc = "collect" /\ cur = t
  /\ ~synthetic
  /\ \E d \in MinWait .. MaxWait : now' = now + d
  /\ AppendError(t)
  /\ UNCHANGED <<inputs, trust, active, handled, label, events, ran, finish>>

(* Settle returns some of what the query can see: the rest is late. *)
Collect(t) ==
  /\ pc = "collect" /\ cur = t
  /\ \E d \in MinWait .. MaxWait : now' = now + d
  /\ got' \in SUBSET Visible(t, now')
  /\ pc' = "evaluate"
  /\ UNCHANGED <<inputs, trust, chains, active, cur, handled, win, label,
                 events, ran, finish>>

(* A mapped rule does not parse. *)
EvaluateFails(t) ==
  /\ pc = "evaluate" /\ cur = t
  /\ AppendError(t)
  /\ UNCHANGED <<inputs, trust, now, active, handled, label, events, ran,
                 finish>>

(* The host's background telemetry is not tracked, so any verdict a rule can
   give may go with any set of technique events. *)
Evaluate(t) ==
  /\ pc = "evaluate" /\ cur = t
  /\ \E v \in Claim \cup {"INCONCLUSIVE"} : AppendChain(t, v, win, got)
  /\ UNCHANGED <<inputs, trust, now, active, handled, label, events, ran,
                 finish>>

(* The loop over the platform's tasks ends. *)
NextPlatform ==
  /\ pc = "task" /\ Pending = {}
  /\ handled' = handled \cup {active}
  /\ pc' = "platform"
  /\ UNCHANGED <<inputs, trust, chains, now, active, cur, win, got, label,
                 events, ran, finish>>

(* Mutant of Conclude: the healthy mark of another platform survives. *)
ConcludeKeepsHealthy ==
  /\ pc = "platform" /\ Waiting = {}
  /\ verdict' = [t \in Task |-> FinalVerdict(t)]
  /\ label' = [t \in Task |-> LabelOf(t)]
  /\ pc' = "done"
  /\ UNCHANGED <<inputs, trust, window, collected, now, active, cur, handled,
                 win, got, events, ran, finish>>

(* After the loops: blank an inconclusive run, label every chain, report. *)
Conclude ==
  /\ pc = "platform" /\ Waiting = {}
  /\ verdict' = [t \in Task |-> FinalVerdict(t)]
  /\ canaryHealthy' = (canaryHealthy /\ ~inconclusive)
  /\ label' = [t \in Task |-> LabelOf(t)]
  /\ pc' = "done"
  /\ UNCHANGED <<inputs, inconclusive, gate, window, collected, now, active,
                 cur, handled, win, got, events, ran, finish>>

Done == pc = "done" /\ UNCHANGED vars

Technique(t) ==
  \/ Unresolved(t) \/ Unmet(t) \/ Ready(t)
  \/ ExecuteFails(t) \/ Execute(t)
  \/ Unmapped(t) \/ CollectFails(t) \/ Collect(t)
  \/ EvaluateFails(t) \/ Evaluate(t)

Next ==
  \/ \E p \in Platforms : SkipPlatform(p) \/ Gate(p)
  \/ \E t \in Task : Technique(t)
  \/ NextPlatform
  \/ Conclude
  \/ Done

Spec == Init /\ [][Next]_vars

(* Every command, probe and query returns: the code sets no deadline on the
   processes it starts, so this is an assumption about the lab. *)
FairSpec == Spec /\ WF_vars(Next)
----------------------------------------------------------------------------
(* The campaign keeps the trust contract. A synthetic run publishes nothing
   as evidence: it is marked, and the history and the snapshot refuse it. *)
Published ==
  IF pc = "done" /\ ~synthetic THEN verdict ELSE [t \in Task |-> "none"]

Contract == INSTANCE TrustContract WITH
  Tasks   <- Task,
  home    <- plan,
  proved  <- {p \in Platforms : gate[p] = "healthy"},
  refuted <- {p \in Platforms : gate[p] = "failed"},
  claims  <- Published

(* Every step of runTasks is a step the contract allows: in particular
   DETECTED, MISSED and NO_TELEMETRY are published only by a campaign whose
   controls all fired, on the technique's own platform too, and no task is
   left without a verdict. *)
ImplementsContract == Contract!Spec

(* The two booleans a reader sees say exactly what the controls said: one
   failed platform among several healthy ones, early or late in the campaign,
   makes the run inconclusive and takes the healthy mark away. *)
TrustFieldsAgree ==
  pc = "done" /\ ~synthetic =>
    /\ inconclusive = (\E p \in Platforms : gate[p] = "failed")
    /\ canaryHealthy = (/\ \A p \in Platforms : gate[p] # "failed"
                        /\ \E p \in Platforms : gate[p] = "healthy")

(* No technique executes in a real campaign before the control of its own
   platform has an outcome, whatever the other platforms' controls said. *)
ControlPrecedesExecution ==
  ~synthetic => \A t \in ran : gate[plan[t]] # "none"

(* A chain labelled as scoped collected nothing that the command of another
   recorded execution, its cleanup or what they left running caused before the
   end of that execution's own window: whenever the windows let such an event
   through, the label says window_overlap. *)
Scoped == {"window_scoped", "window_and_host_scoped"}

AttributionSound ==
  \A t, u \in Task :
    t # u /\ label[t] \in Scoped /\ window[u] # ZeroWindow =>
      \A e \in collected[t] : e.src = u => e.at >= window[u].end

(* The backward epsilon of a window does not reach a technique that was
   collected before this one: collection lasts at least MinWait. *)
EpsilonStaysClear ==
  \A t, u \in Task :
    /\ window[t] # ZeroWindow /\ window[u] # ZeroWindow
    /\ verdict[u] # "ERROR" /\ finish[u] < finish[t]
    => finish[u] <= window[t].start

(* The campaign ends in a report that names every task, however many stacks,
   executions, collections and evaluations fail on the way. *)
EventuallyReported ==
  <>(pc = "done" /\ \A t \in Task : verdict[t] # "none" /\ label[t] # "none")
=============================================================================
