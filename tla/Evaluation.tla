----------------------------- MODULE Evaluation -----------------------------
(***************************************************************************)
(* The grading of one technique: evaluateExpected runs every expected rule *)
(* over the collected events (RuleMatcherEvaluator.Evaluate) and keeps the *)
(* best outcome. An event is what the normalizer tells apart: the blocks it*)
(* has and the canonical fields each of them fills.                        *)
(*                                                                         *)
(* Which events a rule's condition holds for is an input (finds): parser   *)
(* and matcher are not modelled here. User stands for User and ParentImage.*)
(***************************************************************************)
EXTENDS Integers, Sequences

Fields == {"Image", "CommandLine", "User"}

Event == [
  top     : SUBSET Fields,                   \* top-level fields
  channel : {"none", "win", "sysmon"},       \* data.win.eventdata, data.sysmon
  id      : {"absent", "creation", "other"}, \* its eventID
  body    : SUBSET (Fields \cup {"Caller"}), \* its fields; callerProcessName
  audit   : SUBSET Fields,                   \* data.audit; CommandLine: execve
  output  : BOOLEAN,                         \* full_log with "output: '...'"
  decoder : BOOLEAN]                         \* decoder.name

Rule == [
  file    : {"unmapped", "absent", "broken", "unsupported", "usable"},
  process : BOOLEAN,        \* logsource.category is process_creation
  finds   : SUBSET Event]   \* the normalized events its condition holds for

CONSTANTS
  Batches,    \* the collections of events considered
  RuleLists   \* the lists of expected rules considered

ASSUME EvaluationAssumption ==
  /\ \A b \in Batches : b \in Seq(Event)
  /\ \A l \in RuleLists : l \in Seq(Rule)

VARIABLES
  events,     \* what was collected
  rules,      \* the expected rules, in the rule map's order
  pc,         \* rule: evaluateExpected; scan: Evaluate's loop; returned
  r,          \* the rule being evaluated
  e,          \* the event being looked at
  usable,     \* usableEvents
  found,      \* matchedEvents, by position
  best,       \* the best verdict so far
  evidence,   \* <<rule, event>>: the evidence, and the rule it speaks for
  verdict     \* the verdict returned

inputs == <<events, rules>>
vars == <<inputs, pc, r, e, usable, found, best, evidence, verdict>>

(* From the weakest to the strongest: evaluateExpected's rank. *)
Ranked == <<"NO_TELEMETRY", "INCONCLUSIVE", "MISSED", "DETECTED">>
Grades == {Ranked[k] : k \in 1 .. 4}
Rank(v) == CHOOSE k \in 1 .. 4 : Ranked[k] = v

TypeOK ==
  /\ events \in Seq(Event)
  /\ rules \in Seq(Rule)
  /\ pc \in {"rule", "scan", "returned"}
  /\ r \in 1 .. Len(rules) + 1
  /\ e \in 1 .. Len(events) + 1
  /\ usable \in Nat
  /\ found \in SUBSET (1 .. Len(events))
  /\ best \in Grades
  /\ evidence \in SUBSET ((1 .. Len(rules)) \X (1 .. Len(events)))
  /\ verdict \in Grades \cup {"none", "ERROR"}

----------------------------------------------------------------------------
(* The normalizer. *)
Naming == {"Image", "CommandLine"}

(* Mutant of IsCreation: every event of a channel names a process. *)
IsCreationByName(ev) == ev.channel # "none" /\ Naming \cap ev.body # {}

(* isProcessCreation for Windows, eventID 1 for Linux-Sysmon. *)
IsCreation(ev) ==
  \/ ev.channel # "none" /\ ev.id = "creation"
  \/ ev.channel = "win" /\ Naming \subseteq ev.body

(* The blocks whose fields are proof that a process was created. *)
HighFidelity(ev) ==
  \/ Naming \cap ev.top # {}
  \/ IsCreation(ev)
  \/ "CommandLine" \in ev.audit

(* Fields a channel fills; callerProcessName only outside a creation. *)
FromChannel(ev) ==
  IF ev.channel = "none" THEN {}
  ELSE (ev.body \cap Fields) \cup
       {f \in {"Image"} : "Caller" \in ev.body /\ ev.channel = "win"
                                               /\ ~IsCreation(ev)}

Structured(ev) == ev.top \cup FromChannel(ev) \cup ev.audit

(* Text scraped from output, or a decoder's name where no Image was found. *)
LowFidelity(ev) ==
  \/ ev.channel # "none" /\ ~IsCreation(ev)
     /\ Naming \cap (ev.top \cup FromChannel(ev)) # {}
  \/ ev.output
  \/ ev.decoder /\ "Image" \notin Structured(ev)

(* The highest source that contributed decides. *)
Fidelity(ev) ==
  CASE HighFidelity(ev) -> "process_creation"
    [] ~HighFidelity(ev) /\ LowFidelity(ev) -> "log"
    [] OTHER -> "none"

(* Normalize returned no entry at all. *)
Blank(ev) ==
  /\ Structured(ev) = {}
  /\ ev.channel # "none" => ev.id = "absent"
  /\ Fidelity(ev) = "none"

----------------------------------------------------------------------------
Init ==
  /\ events \in Batches
  /\ rules \in RuleLists
  /\ pc = "rule"
  /\ r = 1
  /\ e = 1
  /\ usable = 0
  /\ found = {}
  /\ best = "NO_TELEMETRY"
  /\ evidence = {}
  /\ verdict = "none"

(* Mutant of Better: the last rule that says something decides. *)
BetterLast(v) == IF v = "NO_TELEMETRY" THEN best ELSE v

Better(v) == IF Rank(v) > Rank(best) THEN v ELSE best

(* Mutant of Grade: only a rule that improves on the others leaves evidence. *)
GradeIfBetter(v) ==
  /\ pc' = "rule"
  /\ r' = r + 1
  /\ best' = Better(v)
  /\ evidence' = IF Rank(v) > Rank(best)
                 THEN evidence \cup {<<r, n>> : n \in found'} ELSE evidence
  /\ UNCHANGED <<inputs, e, usable, verdict>>

(* evaluateExpected takes the verdict of one rule and goes on to the next. *)
Grade(v) ==
  /\ pc' = "rule"
  /\ r' = r + 1
  /\ best' = Better(v)
  /\ evidence' = evidence \cup {<<r, n>> : n \in found'}
  /\ UNCHANGED <<inputs, e, usable, verdict>>

AtRule == pc = "rule" /\ r <= Len(rules)

NothingCollected ==
  /\ AtRule
  /\ events = <<>>
  /\ found' = {}
  /\ Grade("NO_TELEMETRY")

(* No path, or no file behind it. *)
NoRule ==
  /\ AtRule
  /\ events # <<>>
  /\ rules[r].file \in {"unmapped", "absent"}
  /\ found' = {}
  /\ Grade("MISSED")

(* Mutant of ParseError: the error is one verdict among the others. *)
ParseErrorGraded ==
  /\ AtRule
  /\ events # <<>>
  /\ rules[r].file = "broken"
  /\ pc' = "rule"
  /\ r' = r + 1
  /\ best' = "ERROR"
  /\ UNCHANGED <<inputs, e, usable, found, evidence, verdict>>

(* A rule that does not parse ends it: what others matched is dropped. *)
ParseError ==
  /\ AtRule
  /\ events # <<>>
  /\ rules[r].file = "broken"
  /\ pc' = "returned"
  /\ verdict' = "ERROR"
  /\ evidence' = {}
  /\ UNCHANGED <<inputs, r, e, usable, found, best>>

(* The rule uses a feature that is not evaluated faithfully. *)
Unsupported ==
  /\ AtRule
  /\ events # <<>>
  /\ rules[r].file = "unsupported"
  /\ found' = {}
  /\ Grade("INCONCLUSIVE")

Open ==
  /\ AtRule
  /\ events # <<>>
  /\ rules[r].file = "usable"
  /\ pc' = "scan"
  /\ e' = 1
  /\ usable' = 0
  /\ found' = {}
  /\ UNCHANGED <<inputs, r, best, evidence, verdict>>

(* An event that may count for or against a rule. *)
Admissible(rule, ev) ==
  /\ ~Blank(ev)
  /\ rule.process => Fidelity(ev) = "process_creation"

Scanning == pc = "scan" /\ e <= Len(events)

Skip ==
  /\ Scanning
  /\ ~Admissible(rules[r], events[e])
  /\ e' = e + 1
  /\ UNCHANGED <<inputs, pc, r, usable, found, best, evidence, verdict>>

Look ==
  /\ Scanning
  /\ Admissible(rules[r], events[e])
  /\ e' = e + 1
  /\ usable' = usable + 1
  /\ found' = found \cup {n \in {e} : events[n] \in rules[r].finds}
  /\ UNCHANGED <<inputs, pc, r, best, evidence, verdict>>

Outcome ==
  CASE found # {} -> "DETECTED"
    [] found = {} /\ rules[r].process /\ usable = 0 -> "NO_TELEMETRY"
    [] OTHER -> "MISSED"

Judge ==
  /\ pc = "scan"
  /\ e > Len(events)
  /\ UNCHANGED found
  /\ Grade(Outcome)

Return ==
  /\ pc = "rule"
  /\ r > Len(rules)
  /\ pc' = "returned"
  /\ verdict' = best
  /\ UNCHANGED <<inputs, r, e, usable, found, best, evidence>>

Next == \/ NothingCollected \/ NoRule \/ ParseError \/ Unsupported
        \/ Open \/ Skip \/ Look \/ Judge \/ Return

Spec == Init /\ [][Next]_vars

----------------------------------------------------------------------------
(* What the rules say of the events, whatever the order they are run in. *)
Expected == DOMAIN rules
Seen(i) == {n \in DOMAIN events : Admissible(rules[i], events[n])}

(* The events that prove the i-th rule right. *)
Proof(i) ==
  IF rules[i].file = "usable"
  THEN {n \in Seen(i) : events[n] \in rules[i].finds}
  ELSE {}

Broken(i)  == events # <<>> /\ rules[i].file = "broken"
Unread(i)  == events # <<>> /\ rules[i].file = "unsupported"

(* A rule that had its chance: one that is not there, or one that was given
   telemetry of the kind it needs. *)
Looked(i) ==
  /\ events # <<>>
  /\ \/ rules[i].file \in {"unmapped", "absent"}
     \/ rules[i].file = "usable" /\ (rules[i].process => Seen(i) # {})

(* The strongest thing a set of rules says, without looking at their order. *)
Strongest(R) ==
  IF \E i \in R : Proof(i) # {} THEN "DETECTED"
  ELSE IF \E i \in R : Looked(i) THEN "MISSED"
  ELSE IF \E i \in R : Unread(i) THEN "INCONCLUSIVE"
  ELSE "NO_TELEMETRY"

(* The verdict is the strongest thing that the rules say of the events, in
   whatever order they are listed; only a rule that does not parse can cost it,
   and then all that is left is an error. So a technique is MISSED only when a
   rule was given telemetry of the kind it needs, or is missing itself, and none
   matched; and NO_TELEMETRY stands only if no rule saw any (evaluateExpected). *)
VerdictIsTheStrongest ==
  pc = "returned" =>
    \/ verdict = Strongest(Expected)
    \/ verdict = "ERROR" /\ \E i \in Expected : Broken(i)

(* The evidence of a verdict is all there is and nothing else: each rule that
   matched with every admissible event it matches, and a DETECTED always has
   some (evaluateExpected's evidence and matched lists). *)
EvidenceIsComplete ==
  pc = "returned" =>
    /\ verdict # "ERROR" =>
         evidence = {p \in Expected \X DOMAIN events : p[2] \in Proof(p[1])}
    /\ verdict = "DETECTED" <=> evidence # {}

(* Scraped(ev): all that the event says of a process was read from a log line,
   a decoder's name, or a record of something other than a creation. *)
Scraped(ev) ==
  /\ Naming \cap ev.top = {}
  /\ "CommandLine" \notin ev.audit
  /\ ev.channel # "none" => ev.id # "creation"
  /\ ev.channel = "win" => ~ (Naming \subseteq ev.body)

(* A log line that merely mentions a binary proves no process creation: no
   rule of that category is matched, nor given a chance to miss, by an event
   in which nothing but text and metadata names a process (sigma.go's fidelity
   gate). *)
LogIsNoProof ==
  pc = "returned" =>
    /\ \A p \in evidence : rules[p[1]].process => ~Scraped(events[p[2]])
    /\ verdict = "MISSED" =>
         \E i \in Expected :
           \/ rules[i].file \in {"unmapped", "absent"}
           \/ ~rules[i].process
           \/ \E n \in DOMAIN events : ~Scraped(events[n])
=============================================================================
