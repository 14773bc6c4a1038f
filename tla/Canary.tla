------------------------------- MODULE Canary -------------------------------
(***************************************************************************)
(* Checker.Run, the positive control of one platform: the marker is        *)
(* executed once, then the collector is asked until the canary rule matches*)
(* an event that carries the marker or the timeout has elapsed, while the  *)
(* archive is written by everybody and may fail to be read.                *)
(*                                                                         *)
(* The marker is fresh: no line carries it before its command has started. *)
(* The context of a campaign is never cancelled, and the canary's cleanup, *)
(* which is empty, changes nothing.                                        *)
(***************************************************************************)
EXTENDS WazuhQuery

CONSTANTS
  Eps,            \* backward epsilon of the window
  WindowPad,      \* forward pad of the window
  Timeout,        \* how long the marker is waited for
  PollInterval,   \* gap between polls
  Shapes,         \* bound: the lines that may be written, but for their times
  Lag,            \* bound: how long a line may take to become visible
  MaxCommand,     \* bound: longest execution of the marker
  MaxQuery,       \* bound: longest query
  MaxLines,       \* bound: lines of the archive
  MaxClock        \* bound: the instants considered

Shape == [off : -DayLength .. DayLength, names : BOOLEAN, sound : BOOLEAN,
          long : BOOLEAN, rule : BOOLEAN, mark : {"own", "earlier", "none"}]

ASSUME CanaryAssumption ==
  /\ Eps \in Nat \ {0}
  /\ WindowPad \in Nat \ {0}
  /\ Timeout \in Nat \ {0}
  /\ PollInterval \in Nat \ {0}
  /\ Shapes \subseteq Shape
  /\ Lag \in Nat /\ MaxCommand \in Nat /\ MaxQuery \in Nat
  /\ MaxLines \in Nat /\ MaxClock \in Nat

VARIABLES
  clock,
  lines,      \* the archive
  rule,       \* the canary rule: usable, silent or broken
  pc,         \* execute, query, sleep, returned
  began,      \* StartedAt of the execution
  window,     \* the window of the execution
  asked,      \* when the query was sent
  wake,       \* when the sleep ends
  healthy, evidence, error,     \* the result
  (* what the checker does not record *)
  fired,      \* the marker was executed
  looked,     \* the lines that the last poll could read
  failed,     \* a poll gave an error
  clipped     \* a poll read part of the archive and did not say so

result == <<healthy, evidence, error>>
history == <<fired, looked, failed, clipped>>
vars == <<clock, lines, rule, pc, began, window, asked, wake, result, history>>

TypeOK ==
  /\ clock \in Nat
  /\ lines \in Seq(Line)
  /\ rule \in {"usable", "silent", "broken"}
  /\ pc \in {"execute", "query", "sleep", "returned"}
  /\ began \in Nat
  /\ window \in Window
  /\ asked \in Nat
  /\ wake \in Nat
  /\ healthy \in BOOLEAN
  /\ evidence \in SUBSET (1 .. Len(lines))
  /\ error \in BOOLEAN
  /\ fired \in BOOLEAN
  /\ looked \in 0 .. Len(lines)
  /\ failed \in BOOLEAN
  /\ clipped \in BOOLEAN

----------------------------------------------------------------------------
(* The first instant at which nothing can be stamped before time zero. *)
Origin == Eps + Lag

Init ==
  /\ clock = Origin
  /\ lines = <<>>
  /\ rule \in {"usable", "silent", "broken"}
  /\ pc = "execute"
  /\ began = Origin
  /\ window = ZeroWindow
  /\ asked = 0
  /\ wake = 0
  /\ healthy = FALSE
  /\ evidence = {}
  /\ error = FALSE
  /\ fired = FALSE
  /\ looked = 0
  /\ failed = FALSE
  /\ clipped = FALSE

(* A sleep ends on time, commands and queries take a bounded time. *)
Tick ==
  /\ pc # "returned"
  /\ clock < MaxClock
  /\ pc = "execute" => clock < began + MaxCommand
  /\ pc = "query" => clock < asked + MaxQuery
  /\ pc = "sleep" => clock < wake
  /\ clock' = clock + 1
  /\ UNCHANGED <<lines, rule, pc, began, window, asked, wake, result, history>>

(* A line becomes visible, stamped up to Lag before; one with the marker was
   caused by the execution. *)
Arrive ==
  /\ pc # "returned"
  /\ Len(lines) < MaxLines
  /\ \E s \in Shapes, t \in clock - Lag .. clock :
       /\ s.mark = "own" => t >= began
       /\ lines' = Append(lines,
            [at |-> t, off |-> s.off, came |-> clock, names |-> s.names,
             sound |-> s.sound, long |-> s.long, rule |-> s.rule,
             mark |-> s.mark])
  /\ UNCHANGED <<clock, rule, pc, began, window, asked, wake, result, history>>

ExecuteFails ==
  /\ pc = "execute"
  /\ pc' = "returned"
  /\ error' = TRUE
  /\ UNCHANGED <<clock, lines, rule, began, window, asked, wake, healthy,
                 evidence, history>>

(* Mutant of WindowOf: the pad on both sides. *)
WindowOfBoth(s, f) == [start |-> s - WindowPad, end |-> f + WindowPad]

(* RunResult.Window: the epsilon behind, the pad ahead. *)
WindowOf(s, f) == [start |-> s - Eps, end |-> f + WindowPad]

Execute ==
  /\ pc = "execute"
  /\ fired' = TRUE
  /\ window' = WindowOf(began, clock)
  /\ pc' = "query"
  /\ asked' = clock
  /\ UNCHANGED <<clock, lines, rule, began, wake, result, looked, failed, clipped>>

Finish == window.end - WindowPad

(* Mutant of GivesUp: the deadline moves with every poll. *)
GivesUpPerPoll == clock > asked + Timeout

GivesUp == clock > Finish + Timeout

(* A poll without proof gives up after the deadline, or waits for the next. *)
Continue ==
  /\ pc' = IF GivesUp THEN "returned" ELSE "sleep"
  /\ wake' = IF GivesUp THEN wake ELSE clock + PollInterval
  /\ UNCHANGED <<healthy, evidence>>

QueryFails ==
  /\ pc = "query"
  /\ error' = TRUE
  /\ failed' = TRUE
  /\ looked' = 0
  /\ Continue
  /\ UNCHANGED <<clock, lines, rule, began, window, asked, fired, clipped>>

(* The grep stopped after cut lines, and what it had printed is the answer. *)
Reads(cut) ==
  /\ pc = "query"
  /\ looked' = IF cut = Len(lines) THEN cut ELSE 0
  /\ clipped' = (clipped \/ cut # Len(lines))
  /\ UNCHANGED <<clock, lines, rule, began, window, asked, fired>>

Matched(cut) ==
  {n \in Answer(lines, window, cut) : rule = "usable" /\ lines[n].rule}

(* Mutant of Proves: any event the canary rule matches will do. *)
ProvesByRule(E) == E # {}

(* evidenceContainsMarker. *)
Proves(E) == \E n \in E : lines[n].mark = "own"

EvaluationFails ==
  \E cut \in 0 .. Len(lines) :
    /\ Reads(cut)
    /\ rule = "broken"
    /\ Answer(lines, window, cut) # {}
    /\ error' = TRUE
    /\ failed' = TRUE
    /\ Continue

(* Mutant of NotSeen: a poll that was answered forgets the errors. *)
NotSeenForgets ==
  \E cut \in 0 .. Len(lines) :
    /\ Reads(cut)
    /\ rule = "broken" => Answer(lines, window, cut) = {}
    /\ ~Proves(Matched(cut))
    /\ error' = FALSE
    /\ Continue
    /\ UNCHANGED failed

NotSeen ==
  \E cut \in 0 .. Len(lines) :
    /\ Reads(cut)
    /\ rule = "broken" => Answer(lines, window, cut) = {}
    /\ ~Proves(Matched(cut))
    /\ Continue
    /\ UNCHANGED <<error, failed>>

Seen ==
  \E cut \in 0 .. Len(lines) :
    /\ Reads(cut)
    /\ Proves(Matched(cut))
    /\ healthy' = TRUE
    /\ evidence' = Matched(cut)
    /\ error' = FALSE
    /\ pc' = "returned"
    /\ UNCHANGED <<wake, failed>>

Wake ==
  /\ pc = "sleep" /\ clock = wake
  /\ pc' = "query"
  /\ asked' = clock
  /\ UNCHANGED <<clock, lines, rule, began, window, wake, result, history>>

Poll == QueryFails \/ EvaluationFails \/ NotSeen \/ Seen

Next == Tick \/ Arrive \/ ExecuteFails \/ Execute \/ Poll \/ Wake

Spec == Init /\ [][Next]_vars

(* Time passes and the checker runs when it can; nothing makes a line come. *)
FairSpec == Spec /\ WF_vars(Tick) /\ WF_vars(ExecuteFails \/ Execute)
                 /\ WF_vars(Poll) /\ WF_vars(Wake)

----------------------------------------------------------------------------
(* A control is healthy only if the lab has just proved the pipeline: the
   evidence holds a line with this very marker, which the rule matches, that
   names the host and is not older than the execution but for the epsilon. The
   marker of an earlier control, or a line of before, never counts (Run's check
   of the evidence, RunResult.Window, Query's comparison). *)
HealthyIsProven ==
  pc = "returned" /\ healthy =>
    /\ ~error
    /\ \E n \in evidence : lines[n].mark = "own"
    /\ \A n \in evidence :
         /\ lines[n].rule /\ lines[n].names /\ lines[n].sound
         /\ began - Eps <= lines[n].at
         /\ lines[n].at <= window.end

(* The polling ends before the window does: 90 s, 5 s and a query, of 120 s. *)
Roomy == Timeout + PollInterval + MaxQuery <= WindowPad

(* A line that proves the pipeline, whatever the collector makes of it. *)
Proof(n) ==
  /\ lines[n].mark = "own"
  /\ lines[n].rule /\ lines[n].names /\ lines[n].sound /\ ~lines[n].long

(* A line that was dropped with all the ones behind it. *)
Swallowed(n) == \E m \in 1 .. n : lines[m].long /\ lines[m].names

(* An unhealthy control was given its time, and its last look at the archive
   found no proof: neither the coarse filter by days, whatever zone the stamps
   are written in, nor the end of the window hides one. Only a line that does
   not fit the scanner does, together with every line behind it
   (dateAlternation, scanLines, Run's deadline). *)
UnhealthyIsJustified ==
  pc = "returned" /\ fired /\ ~healthy =>
    /\ clock > Finish + Timeout
    /\ Roomy /\ rule = "usable" =>
         \A n \in 1 .. looked : Proof(n) => Swallowed(n)

(* The error of an unhealthy control tells whether a poll failed, any of them,
   and not how the last one went: without an error the marker was looked for
   to the end (Run keeps r.Err until the marker is seen). *)
ErrorIsSticky ==
  pc = "returned" /\ fired /\ ~healthy => (error <=> failed)

Latest(a, b) == IF a < b THEN b ELSE a

(* Proof that is visible is acted on at the next poll, and the control is over
   one poll after its timeout: the campaign behind it waits no longer. *)
DecidesPromptly ==
  pc \in {"query", "sleep"} =>
    /\ clock <= Finish + Timeout + PollInterval + MaxQuery
    /\ Roomy /\ rule = "usable" /\ ~failed /\ ~clipped =>
         \A n \in DOMAIN lines :
           Proof(n) /\ ~Swallowed(n) =>
             clock <= Latest(Finish, lines[n].came + PollInterval) + MaxQuery

(* The control ends, whether or not its marker is ever seen. *)
EventuallyReturns == <>(pc = "returned")
=============================================================================
