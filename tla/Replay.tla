------------------------------- MODULE Replay -------------------------------
(***************************************************************************)
(* The life of a run's telemetry: the campaign grades what each technique  *)
(* collected, capture.Write stores it one record per event, capture.Read   *)
(* and ByTechnique load it, and replayDataset grades it again, with the    *)
(* same rules, to be compared with the run (diff).                         *)
(*                                                                         *)
(* What a technique's expected rules make of a set of events is in Rule:   *)
(* the grade does not depend on the order of rules or events (module       *)
(* EvaluationProofs, Returned).                                            *)
(***************************************************************************)
EXTENDS Coverage

CONSTANTS
  Techniques,
  Events,
  Rules,      \* what the expected rules of a technique may be
  MaxTasks    \* bound: tasks of the plan

Rule == [mapped   : BOOLEAN,          \* the rule map names a rule
         broken   : BOOLEAN,          \* one does not parse
         unread   : BOOLEAN,          \* one is not evaluated faithfully
         admits   : SUBSET Events,    \* the events one is given a chance by
         finds    : SUBSET Events]    \* the events one matches

ASSUME ReplayAssumption ==
  /\ Rules \subseteq Rule
  /\ \A r \in Rules : r.finds \subseteq r.admits
  /\ IsFiniteSet(Events)
  /\ MaxTasks \in Nat

VARIABLES
  rules,        \* the rules of each technique
  chains,       \* the chains of the live run
  pc,           \* live, settled, captured, replay, failed, done
  synthetic, inconclusive,      \* of the live run
  dataset,      \* the records of events.jsonl, as <<chain, event>>
  file,         \* how it ended: absent, whole, short, torn, long
  replayed      \* the chains of the replay

live == <<chains, synthetic, inconclusive>>
vars == <<rules, live, pc, dataset, file, replayed>>

Chain == [tech      : Techniques,
          verdict   : Verdicts,
          collected : SUBSET Events,
          evidence  : SUBSET Events,
          graded    : Verdicts]     \* the verdict before it is blanked

Records == (1 .. MaxTasks) \X Events

TypeOK ==
  /\ rules \in [Techniques -> Rules]
  /\ chains \in Seq(Chain)
  /\ pc \in {"live", "settled", "captured", "replay", "failed", "done"}
  /\ synthetic \in BOOLEAN
  /\ inconclusive \in BOOLEAN
  /\ dataset \in SUBSET Records
  /\ file \in {"absent", "whole", "short", "torn", "long"}
  /\ replayed \in Seq(Chain)

----------------------------------------------------------------------------
(* Mutant of Grade: the matcher's own word for a rule it cannot read. *)
GradeUnsupported(r, E) ==
  CASE ~r.mapped -> "ERROR"
    [] r.mapped /\ E = {} -> "NO_TELEMETRY"
    [] OTHER -> IF r.unread THEN "UNSUPPORTED" ELSE "MISSED"

(* evaluateExpected on a set of events. *)
Grade(r, E) ==
  CASE ~r.mapped                               -> "ERROR"
    [] r.mapped /\ E = {}                      -> "NO_TELEMETRY"
    [] r.mapped /\ E # {} /\ r.broken          -> "ERROR"
    [] r.mapped /\ ~r.broken /\ E \cap r.finds # {} -> "DETECTED"
    [] r.mapped /\ ~r.broken /\ E \cap r.finds = {}
         /\ E \cap r.admits # {}               -> "MISSED"
    [] r.mapped /\ E # {} /\ ~r.broken /\ E \cap r.admits = {} /\ r.unread
                                               -> "INCONCLUSIVE"
    [] OTHER                                   -> "NO_TELEMETRY"

Proof(r, E) == IF Grade(r, E) = "DETECTED" THEN E \cap r.finds ELSE {}

Init ==
  /\ rules \in [Techniques -> Rules]
  /\ chains = <<>>
  /\ pc = "live"
  /\ synthetic \in BOOLEAN
  /\ inconclusive = FALSE
  /\ dataset = {}
  /\ file = "absent"
  /\ replayed = <<>>

ChainOf(t, v, E, P) ==
  [tech |-> t, verdict |-> v, collected |-> E, evidence |-> P, graded |-> v]

(* A technique that was collected for: an error drops what was collected. *)
Evaluate ==
  /\ pc = "live" /\ Len(chains) < MaxTasks
  /\ \E t \in Techniques, E \in SUBSET Events :
       LET v == Grade(rules[t], E) IN
       chains' = Append(chains,
         ChainOf(t, v, IF v = "ERROR" THEN {} ELSE E, Proof(rules[t], E)))
  /\ UNCHANGED <<rules, pc, synthetic, inconclusive, dataset, file, replayed>>

(* A technique that is not: nothing to run, nowhere to run it, or no way to
   collect; or a prerequisite that is not met. *)
GoWithout ==
  /\ pc = "live" /\ Len(chains) < MaxTasks
  /\ \E t \in Techniques, v \in {"ERROR", "SKIPPED_PREREQ"} :
       chains' = Append(chains, ChainOf(t, v, {}, {}))
  /\ UNCHANGED <<rules, pc, synthetic, inconclusive, dataset, file, replayed>>

(* A failed canary blanks every verdict but the errors; what was collected, and
   the evidence, stays. *)
Settle ==
  /\ pc = "live"
  /\ pc' = "settled"
  /\ inconclusive' \in {i \in BOOLEAN : i => ~synthetic}
  /\ chains' =
       [i \in DOMAIN chains |->
          [chains[i] EXCEPT !.verdict =
             IF inconclusive' /\ @ # "ERROR" THEN "INCONCLUSIVE" ELSE @]]
  /\ UNCHANGED <<rules, synthetic, dataset, file, replayed>>

Collected == {p \in Records : p[1] \in DOMAIN chains /\
                              p[2] \in chains[p[1]].collected}

NothingToCapture ==
  /\ pc = "settled"
  /\ synthetic \/ Collected = {}
  /\ pc' = "captured"
  /\ UNCHANGED <<rules, live, dataset, file, replayed>>

(* A record may be longer than what Read accepts for a line. *)
Capture ==
  /\ pc = "settled"
  /\ ~synthetic /\ Collected # {}
  /\ pc' = "captured"
  /\ dataset' = Collected
  /\ file' \in {"whole", "long"}
  /\ UNCHANGED <<rules, live, replayed>>

(* The process or the disk gives up on the way: the records of the earlier
   chains and some of this one's are there, perhaps a piece of the next. *)
CaptureCut ==
  /\ pc = "settled"
  /\ ~synthetic
  /\ \E i \in DOMAIN chains : \E K \in SUBSET chains[i].collected :
       /\ K # chains[i].collected
       /\ dataset' = {p \in Collected : p[1] < i \/ (p[1] = i /\ p[2] \in K)}
  /\ file' \in {"short", "torn"}
  /\ pc' = "captured"
  /\ UNCHANGED <<rules, live, replayed>>

(* Read refuses no file, no record, a record that does not parse or is too
   long; a file cut between two records is a shorter dataset. *)
Readable == file \in {"whole", "short"} /\ dataset # {}

ReadFails ==
  /\ pc = "captured"
  /\ ~Readable
  /\ pc' = "failed"
  /\ UNCHANGED <<rules, live, dataset, file, replayed>>

Read ==
  /\ pc = "captured"
  /\ Readable
  /\ pc' = "replay"
  /\ UNCHANGED <<rules, live, dataset, file, replayed>>

(* Mutant of Grouped: only the events of a technique's first execution. *)
GroupedFirst(t) ==
  LET first == {p \in dataset : /\ chains[p[1]].tech = t
                                /\ \A q \in dataset :
                                     chains[q[1]].tech = t => p[1] <= q[1]}
  IN {p[2] : p \in first}

(* Mutant of Grouped: the records are not told apart by their technique. *)
GroupedMixed(t) == {p[2] : p \in dataset}

(* ByTechnique: the events of all executions of a technique are one batch. *)
Grouped(t) == {p[2] : p \in {q \in dataset : chains[q[1]].tech = t}}

(* The techniques of the dataset that are still to be replayed. *)
Remaining ==
  {chains[p[1]].tech : p \in dataset} \ {replayed[i].tech : i \in DOMAIN replayed}

(* The technique whose first record comes first. *)
Upcoming ==
  {t \in Remaining :
     \E p \in dataset : /\ chains[p[1]].tech = t
                        /\ \A q \in dataset :
                             chains[q[1]].tech \in Remaining => p[1] <= q[1]}

ReplayTechnique ==
  /\ pc = "replay"
  /\ \E t \in Upcoming :
       replayed' = Append(replayed,
         ChainOf(t, Grade(rules[t], Grouped(t)), Grouped(t),
                 Proof(rules[t], Grouped(t))))
  /\ UNCHANGED <<rules, live, pc, dataset, file>>

Finish ==
  /\ pc = "replay"
  /\ Remaining = {}
  /\ pc' = "done"
  /\ UNCHANGED <<rules, live, dataset, file, replayed>>

Next == \/ Evaluate \/ GoWithout \/ Settle
        \/ NothingToCapture \/ Capture \/ CaptureCut
        \/ ReadFails \/ Read \/ ReplayTechnique \/ Finish

Spec == Init /\ [][Next]_vars

----------------------------------------------------------------------------
(* The chain's technique is tested by no other task of the plan. *)
Sole(i) == \A j \in DOMAIN chains : chains[j].tech = chains[i].tech => j = i

(* A replay of a whole dataset with the rules of the run grades every technique
   that the plan tests once and that collected anything exactly as the run did
   before a failed canary blanked it, on the same evidence; a technique that
   was tested twice is graded as well as its best execution (replayDataset,
   ByTechnique). *)
ReplayIsFaithful ==
  pc = "done" /\ file = "whole" =>
    \A i \in DOMAIN chains : chains[i].collected # {} =>
      \E k \in DOMAIN replayed :
        /\ replayed[k].tech = chains[i].tech
        /\ chains[i].evidence \subseteq replayed[k].evidence
        /\ Rank(replayed[k].verdict) >= Rank(chains[i].graded)
        /\ Sole(i) => /\ replayed[k].verdict = chains[i].graded
                      /\ replayed[k].evidence = chains[i].evidence

(* Whatever was lost on the way, a replay claims nothing that the run has not
   proved: what it detects, an execution of the same technique detected on the
   same event; and nothing it replays had ended in an error or was skipped
   (Write stores what was collected, Read takes all or nothing of a record). *)
ReplayClaimsNothingNew ==
  \A k \in DOMAIN replayed :
    /\ replayed[k].verdict # "ERROR"
    /\ \A e \in replayed[k].evidence :
         \E i \in DOMAIN chains :
           /\ chains[i].tech = replayed[k].tech
           /\ chains[i].graded = "DETECTED" /\ e \in chains[i].evidence

(* The comparison of a conclusive run with its replay never reports progress;
   from a whole dataset it reports no regression either, only the techniques
   that collected nothing. From a dataset cut short, a detection that was lost
   is a regression only if the technique is still there: otherwise it is listed
   as absent, which the gate on regressions lets pass (compareRuns,
   readCoverage). *)
DiffOfAReplay ==
  pc = "done" /\ ~inconclusive /\ (\A i \in DOMAIN chains : Sole(i)) =>
    /\ Improved(chains, replayed) = {}
    /\ file = "whole" =>
         /\ Regressed(chains, replayed) = {}
         /\ Otherwise(chains, replayed) =
              {chains[i].tech : i \in {j \in DOMAIN chains :
                                         chains[j].collected = {}}}
    /\ \A i \in DOMAIN chains : chains[i].verdict = "DETECTED" =>
         \/ /\ chains[i].tech \in Tested(replayed)
            /\ VerdictOf(replayed, chains[i].tech) = "DETECTED"
         \/ chains[i].tech \in Regressed(chains, replayed)
         \/ chains[i].tech \in Otherwise(chains, replayed) \ Tested(replayed)

(* The figures of a run and of its replay speak of the same things: what was
   exercised was detected or missed, nothing else counts against coverage, and
   full coverage is shown only when nothing was missed; the readiness gaps are
   what was missed and everything that never ran (buildCoverage). *)
Figures(c) ==
  LET d == Count(c, "DETECTED")
      m == Count(c, "MISSED")
  IN /\ Exercised(c) = d + m
     /\ ReadinessGaps(c) = m + (Len(c) - Exercised(c))
     /\ m + d < 200 => (CoveragePct(c) = 100 <=> m = 0 /\ d > 0)
     /\ CollectionGaps(c) = {} <=> Count(c, "NO_TELEMETRY") = 0

FiguresAddUp == pc # "live" => Figures(chains) /\ Figures(replayed)
=============================================================================
