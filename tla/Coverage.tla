------------------------------ MODULE Coverage ------------------------------
(***************************************************************************)
(* What is made of a result's chains: the figures of buildCoverage, the    *)
(* verdicts by technique that coverage.json, the history index and diff    *)
(* share, and compareRuns.                                                 *)
(*                                                                         *)
(* A chain is any record with a technique and a verdict.                   *)
(***************************************************************************)
EXTENDS Integers, Sequences, FiniteSets

Verdicts == {"DETECTED", "MISSED", "NO_TELEMETRY", "INCONCLUSIVE",
             "SKIPPED_PREREQ", "ERROR"}

Count(chains, v) == Cardinality({i \in DOMAIN chains : chains[i].verdict = v})

(* Mutant of Exercised: the errors stay in the denominator. *)
ExercisedOrFailed(chains) ==
  Len(chains) - Count(chains, "INCONCLUSIVE") - Count(chains, "NO_TELEMETRY")
              - Count(chains, "SKIPPED_PREREQ")

(* The denominator of coverage_pct: what never ran is taken away. *)
Exercised(chains) ==
  Len(chains) - Count(chains, "INCONCLUSIVE") - Count(chains, "NO_TELEMETRY")
              - Count(chains, "SKIPPED_PREREQ") - Count(chains, "ERROR")

(* Half a percent is rounded up. *)
Percent(part, whole) ==
  IF whole > 0 THEN (200 * part + whole) \div (2 * whole) ELSE 0

CoveragePct(chains) == Percent(Count(chains, "DETECTED"), Exercised(chains))

(* readiness.gaps. *)
ReadinessGaps(chains) == Len(chains) - Count(chains, "DETECTED")

(* The techniques collection_gaps names. *)
CollectionGaps(chains) ==
  {chains[i].tech : i \in {j \in DOMAIN chains :
                             chains[j].verdict = "NO_TELEMETRY"}}

(* The last chain of a technique is the one its verdict is taken from. *)
Tested(chains) == {chains[i].tech : i \in DOMAIN chains}

Last(chains, t) ==
  CHOOSE i \in DOMAIN chains :
    chains[i].tech = t /\ \A j \in DOMAIN chains : chains[j].tech = t => j <= i

VerdictOf(chains, t) == chains[Last(chains, t)].verdict

(* verdictRank. *)
Rank(v) ==
  CASE v = "DETECTED" -> 3 [] v = "MISSED" -> 2 [] v = "NO_TELEMETRY" -> 1
    [] OTHER -> 0

Both(a, b) == Tested(a) \cap Tested(b)

Regressed(a, b) ==
  {t \in Both(a, b) : Rank(VerdictOf(b, t)) < Rank(VerdictOf(a, t))}

Improved(a, b) ==
  {t \in Both(a, b) : Rank(VerdictOf(b, t)) > Rank(VerdictOf(a, t))}

(* Mutant of Otherwise: a technique that one run lacks is passed over. *)
OtherwiseOfBoth(a, b) ==
  {t \in Both(a, b) : /\ VerdictOf(a, t) # VerdictOf(b, t)
                      /\ Rank(VerdictOf(a, t)) = Rank(VerdictOf(b, t))}

(* A technique that only one run has is in the third list, whatever it was. *)
Otherwise(a, b) ==
  ((Tested(a) \cup Tested(b)) \ Both(a, b)) \cup
  {t \in Both(a, b) : /\ VerdictOf(a, t) # VerdictOf(b, t)
                      /\ Rank(VerdictOf(a, t)) = Rank(VerdictOf(b, t))}
=============================================================================
