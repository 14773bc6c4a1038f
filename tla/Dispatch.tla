------------------------------ MODULE Dispatch ------------------------------
(***************************************************************************)
(* What runTechnique does with one task before and after its collection:   *)
(* choose an atomic, resolve it, check the platform, probe the             *)
(* prerequisites, run the command and clean up. How the telemetry is       *)
(* collected and graded is in Settle and Evaluation, and how the tasks of a*)
(* campaign follow each other in Campaign.                                 *)
(***************************************************************************)
EXTENDS Atomics

CONSTANTS
  NoId,            \* no atomic is named
  Named,           \* what a plan or the rule map may name
  Trees,           \* the vendored trees, technique by technique
  OverrideFiles    \* the contents of the overrides' file

ASSUME DispatchAssumption ==
  /\ \A x \in Trees : \A t \in Techniques :
       /\ x[t] \in Seq({x[t][n] : n \in DOMAIN x[t]})
       /\ \A n \in DOMAIN x[t] : IsUpstream(x[t][n])
  /\ \A o \in OverrideFiles :
       DOMAIN o \subseteq Id /\ \A id \in DOMAIN o : IsOverride(o[id])
  /\ Named \subseteq Id \cup {NoId, Malformed}
  /\ NoId \notin Id /\ Malformed \notin Id /\ NoId # Malformed

VARIABLES
  tree, overrides,     \* the registry
  task,                \* the technique, and the atomic the plan names for it
  entry,               \* the technique's rule-map entry: its atomic, its rules
  kind,                \* the platform of the target
  pc,                  \* load, resolve, probe, cleanup, grade, done, refused
  test,                \* the resolved test
  probe,               \* the prerequisite that is checked next
  sent,                \* what the executor was given, and how it ended
  verdict

inputs == <<tree, overrides, task, entry, kind>>
vars == <<inputs, pc, test, probe, sent, verdict>>

Graded == {"DETECTED", "MISSED", "NO_TELEMETRY", "INCONCLUSIVE"}

(* How a command ends: the executor fails, or the command exits. *)
Outcomes == {"err", "zero", "nonzero"}

NoTest == [platforms |-> {}, prereqs |-> <<>>, command |-> {}, cleanup |-> {},
           reason |-> FALSE]

Sent == [what : {"prereq", "command", "cleanup"}, text : Text, ended : Outcomes]

TypeOK ==
  /\ pc \in {"load", "resolve", "probe", "cleanup", "grade", "done", "refused"}
  /\ test \in Test
  /\ probe \in 1 .. Len(test.prereqs) + 1
  /\ sent \in Seq(Sent)
  /\ verdict \in Graded \cup {"none", "ERROR", "SKIPPED_PREREQ"}
  /\ verdict = "none" <=> pc # "done"

----------------------------------------------------------------------------
(* atomicIDFor: the plan's choice, then the mapping's, then the first test. *)
AtomicId ==
  CASE task.atomic # NoId  -> task.atomic
    [] task.atomic = NoId /\ entry.atomic # NoId -> entry.atomic
    [] OTHER -> [tech |-> task.tech, index |-> 1, plain |-> TRUE]

Init ==
  /\ tree \in Trees
  /\ overrides \in OverrideFiles
  /\ task \in [tech : Techniques, atomic : Named]
  /\ entry \in [atomic : Named, rules : BOOLEAN]
  /\ kind \in Platforms
  /\ pc = "load"
  /\ test = NoTest
  /\ probe = 1
  /\ sent = <<>>
  /\ verdict = "none"

End(v) == pc' = "done" /\ verdict' = v

Send(what, text, ended) ==
  sent' = Append(sent, [what |-> what, text |-> text, ended |-> ended])

(* A file of overrides that is not acceptable ends the program. *)
LoadRefuses ==
  /\ pc = "load"
  /\ ~Acceptable(overrides)
  /\ pc' = "refused"
  /\ UNCHANGED <<inputs, test, probe, sent, verdict>>

Load ==
  /\ pc = "load"
  /\ Acceptable(overrides)
  /\ pc' = "resolve"
  /\ UNCHANGED <<inputs, test, probe, sent, verdict>>

Unresolvable ==
  /\ pc = "resolve"
  /\ ~Resolvable(tree, overrides, AtomicId)
  /\ End("ERROR")
  /\ UNCHANGED <<inputs, test, probe, sent>>

WrongPlatform ==
  /\ pc = "resolve"
  /\ Resolvable(tree, overrides, AtomicId)
  /\ test' = Resolve(tree, overrides, AtomicId)
  /\ kind \notin test'.platforms
  /\ End("ERROR")
  /\ UNCHANGED <<inputs, probe, sent>>

ResolveTest ==
  /\ pc = "resolve"
  /\ Resolvable(tree, overrides, AtomicId)
  /\ test' = Resolve(tree, overrides, AtomicId)
  /\ kind \in test'.platforms
  /\ pc' = "probe"
  /\ UNCHANGED <<inputs, probe, sent, verdict>>

Probing == pc = "probe" /\ probe <= Len(test.prereqs)

(* A blank prerequisite is not checked. *)
PassOver ==
  /\ Probing
  /\ test.prereqs[probe] = {}
  /\ probe' = probe + 1
  /\ UNCHANGED <<inputs, pc, test, sent, verdict>>

(* Mutant of Probe: only a probe that could not be run is a failure. *)
ProbeIgnoresExit ==
  /\ Probing
  /\ test.prereqs[probe] # {}
  /\ \E ended \in Outcomes :
       /\ Send("prereq", test.prereqs[probe], ended)
       /\ \/ ended # "err" /\ probe' = probe + 1 /\ UNCHANGED <<pc, verdict>>
          \/ ended = "err" /\ End("SKIPPED_PREREQ") /\ UNCHANGED probe
  /\ UNCHANGED <<inputs, test>>

(* The first prerequisite that is not met ends the task. *)
Probe ==
  /\ Probing
  /\ test.prereqs[probe] # {}
  /\ \E ended \in Outcomes :
       /\ Send("prereq", test.prereqs[probe], ended)
       /\ \/ ended = "zero" /\ probe' = probe + 1 /\ UNCHANGED <<pc, verdict>>
          \/ ended # "zero" /\ End("SKIPPED_PREREQ") /\ UNCHANGED probe
  /\ UNCHANGED <<inputs, test>>

(* Mutant of Execute: the chain is returned as it is, without a verdict. *)
ExecuteUnanswered ==
  /\ pc = "probe" /\ probe > Len(test.prereqs)
  /\ \E ended \in Outcomes :
       /\ Send("command", test.command, ended)
       /\ pc' = IF ended = "err" THEN "done" ELSE "cleanup"
  /\ UNCHANGED <<inputs, test, probe, verdict>>

(* The exit code of the command itself is not looked at. *)
Execute ==
  /\ pc = "probe" /\ probe > Len(test.prereqs)
  /\ \E ended \in Outcomes :
       /\ Send("command", test.command, ended)
       /\ \/ ended = "err" /\ End("ERROR")
          \/ ended # "err" /\ pc' = "cleanup" /\ UNCHANGED verdict
  /\ UNCHANGED <<inputs, test, probe>>

(* Best effort: how the clean-up ends is not looked at either. *)
Cleanup ==
  /\ pc = "cleanup"
  /\ \/ test.cleanup = {} /\ UNCHANGED sent
     \/ /\ test.cleanup # {}
        /\ \E ended \in Outcomes : Send("cleanup", test.cleanup, ended)
  /\ pc' = "grade"
  /\ UNCHANGED <<inputs, test, probe, verdict>>

(* A technique without rules has run all the same. *)
Grade ==
  /\ pc = "grade"
  /\ \/ ~entry.rules /\ End("ERROR")
     \/ entry.rules /\ \E v \in Graded \cup {"ERROR"} : End(v)
  /\ UNCHANGED <<inputs, test, probe, sent>>

Next == \/ LoadRefuses \/ Load \/ Unresolvable \/ WrongPlatform \/ ResolveTest
        \/ PassOver \/ Probe \/ Execute \/ Cleanup \/ Grade

Spec == Init /\ [][Next]_vars

----------------------------------------------------------------------------
(* A technique is graded only when its own command was given to the executor,
   once, on a platform it supports and after every prerequisite was found met;
   it is skipped only when one was not and nothing else ran; and nothing runs
   after a failed prerequisite (runTechnique, unmetPrereq). *)
VerdictNeedsExecution ==
  LET Of(what) == {k \in DOMAIN sent : sent[k].what = what} IN
  /\ \A j, k \in Of("command") : j = k
  /\ \A j \in Of("prereq"), k \in DOMAIN sent : k > j => sent[j].ended = "zero"
  /\ \A k \in Of("cleanup") : \E j \in Of("command") : j < k
  /\ verdict \in Graded =>
       /\ kind \in test.platforms
       /\ \E k \in Of("command") :
            /\ sent[k].text = test.command /\ sent[k].ended # "err"
            /\ \A n \in DOMAIN test.prereqs : test.prereqs[n] # {} =>
                 \E j \in Of("prereq") : /\ j < k /\ sent[j].ended = "zero"
                                         /\ sent[j].text = test.prereqs[n]
  /\ verdict = "SKIPPED_PREREQ" =>
       /\ Of("command") = {}
       /\ \E j \in Of("prereq") : sent[j].ended # "zero"

(* The words a test may put on the target under an override: those of a command
   that replaces it; or its own, those of the pins, and those of the defaults
   that are not pinned. *)
Admitted(o, u) ==
  IF o.command # {} THEN o.command \cup o.cleanup
  ELSE u.command \cup u.cleanup
         \cup (UNION {u.prereqs[n] : n \in DOMAIN u.prereqs})
         \cup (UNION {o.inputs[i] : i \in DOMAIN o.inputs})
         \cup (UNION {u.inputs[i] : i \in DOMAIN u.inputs \ DOMAIN o.inputs})

UpstreamOf(id) ==
  IF id.index <= Len(tree[id.tech]) THEN tree[id.tech][id.index]
  ELSE [platforms |-> {}, inputs |-> NoPins, prereqs |-> <<>>, command |-> {},
        cleanup |-> {}]

OverrideWins(o) ==
  \A k \in DOMAIN sent :
    sent[k].text \cap Words \subseteq Admitted(overrides[o], UpstreamOf(AtomicId))

(* What the upstream test would run by itself. *)
OwnTexts(u) ==
  {Interpolate(x, u.inputs) :
     x \in {u.command, u.cleanup} \cup {u.prereqs[n] : n \in DOMAIN u.prereqs}}

(* An override that is written as the task's atomic is decides every word that
   reaches the target, prerequisites and clean-up included: the default of a
   pinned input never does. And whatever is given to the executor is the
   upstream test's own, or the report has a reason for it (Resolve). *)
SubstitutionsHold ==
  sent # <<>> =>
    /\ AtomicId \in DOMAIN overrides => OverrideWins(AtomicId)
    /\ \A k \in DOMAIN sent :
         sent[k].text \in OwnTexts(UpstreamOf(AtomicId)) \/ test.reason

(* The inputs whose value refers to one of S. *)
Referring(values, S) == {i \in DOMAIN values : values[i] \cap S # {}}

(* The inputs from which five references lead to another input: a circle, or
   values that nest deeper than that. *)
Tangled(values) ==
  LET back(S) == Referring(values, S)
  IN back(back(back(back(back(DOMAIN values)))))

(* A resolved text has a placeholder of known value left exactly when the text
   it comes from refers to a tangled input; and one whose value is not known is
   always left for the reader (interpolate). *)
PlaceholdersAreResolved ==
  pc \notin {"load", "resolve", "refused"} /\ test # NoTest
    /\ ~Replaces(overrides, AtomicId) =>
    LET u == UpstreamOf(AtomicId)
        v == Pinned(u.inputs, PinsOf(overrides, AtomicId))
        Good(x, y) == /\ y \cap DOMAIN v # {} <=> x \cap Tangled(v) # {}
                      /\ (x \cap Inputs) \ DOMAIN v \subseteq y
    IN /\ Good(u.command, test.command)
       /\ Good(u.cleanup, test.cleanup)
       /\ \A n \in DOMAIN u.prereqs : Good(u.prereqs[n], test.prereqs[n])
=============================================================================
