# purple-loop in TLA+

This directory specifies purple-loop (Go): the engine that runs Atomic Red Team
tests in a lab, collects what the SIEM saw of them, evaluates Sigma rules over
it and reports, per technique, whether a detection works. The product of the
program is a *claim*, so the question asked everywhere below is: which claims
can it make that the run does not support?

Source references are to `src/`; the commit's own tests and docs are read as
statements about the code, and every definition is translated from the code.

## 1. The system

| Part | Source | State it keeps | Operations |
|---|---|---|---|
| campaign runner | `cmd/purpleloop/main.go` | the `CampaignResult` being built: chains, `Synthetic`, `CanaryHealthy`, `Inconclusive` | `runTasks` (group by platform, gate, drive, blank, label, capture, report), `runTechnique`, `unmetPrereq`, `evaluateExpected`, `labelAttribution` |
| model | `internal/model/model.go` | value types | `RunResult.Window`, `TimeWindow.Overlaps` |
| settler | `internal/collector/settle.go` | `last`, `stable`, the deadline | `Settle` |
| Wazuh collector | `internal/collector/wazuh.go` | none (reads the manager's archive) | `Query`, `readAlerts`, `dateAlternation`, `scanLines` |
| canary | `internal/canary/canary.go` | the result being polled for | `Checker.Run` |
| executors | `internal/executor/*.go` | none | `Run`, `Cleanup` (docker, ssh, dry) |
| evaluator | `internal/evaluator/*.go` | none | `Evaluate`, rule parser, matcher, normalizer |
| atomics registry | `internal/atomic/atomic.go` | overrides; the vendored tree is read on demand | `Load`, `ParseID`, `Resolve`, `interpolate` |
| rule map, targets, feeds | `internal/mapping`, `internal/lab`, `internal/feed` | parsed files | `ExpectedRules`, `AtomicFor`, `ForPlatform`, `Load` |
| capture | `internal/capture/capture.go` | `runs/<id>/events.jsonl` | `Write`, `Read`, `ByTechnique` |
| dashboard reporter | `internal/report/dashboard.go` | `runs/<id>/coverage.json`, `history.json`, `docs/data/coverage.json` | `Write`, `appendHistory`, `buildCoverage` |
| other reporters | `internal/report/report.go` | an output file | JSON, HTML, Navigator layer |
| server | `internal/server/server.go` | none (reads the reports directory) | `/api/runs`, `/api/runs/latest`, `/api/runs/<id>`, `/api/history` |
| replay, diff | `cmd/purpleloop/replay.go`, `diff.go` | none | re-evaluate a captured run; compare two coverage files |
| precision | `internal/precision`, `cmd/purpleloop/precision.go` | none | benign baseline false-positive count |

How they interact. A `run` command loads the registry, the rule map and the
targets, gets its tasks from a feed, and calls `runTasks`. For each platform, in
the order of its first task, `runTasks` builds a stack (executor, collector,
evaluator), runs the canary through it, then drives every task of the platform
through `runTechnique`: resolve the atomic, probe its prerequisites, execute,
clean up, let the settler poll the collector over the execution's window, and
evaluate the expected rules. When all platforms are done it blanks the run if
any canary failed, labels each chain's attribution from all the windows, writes
the captured events and hands the result to a reporter. Nothing in one process
runs concurrently; the processes that share the reports directory (several
`run`s, a `replay`, a `serve`) do, without a lock. The lab is concurrent with
all of it: the SIEM indexes events at its own pace, the commands' telemetry
outlives the commands, and two techniques on one host share one archive.

### What is hard here

- **Windows and attribution.** A query is bounded by the execution's window, and
  the window reaches two seconds back and ten minutes forward. Techniques that
  run one after the other have windows that intersect; which of them an event
  belongs to is decided after the fact, from the windows that were kept.
- **Partial failure.** Ten early returns lie between a task and its verdict; a
  failed one must neither stop the campaign, nor drop its technique, nor count
  as a gap.
- **The control.** One canary per platform decides what a whole run may claim. Its
  marker is looked for in an archive that keeps the markers of earlier controls,
  through a filter by calendar days and a pipeline that can lose part of the
  archive without an error.
- **Substitution.** Which command an atomic ID stands for depends on an override
  file, on defaults that refer to each other and on pins that must reach every
  text of the test.
- **Replays.** A dataset may be cut anywhere, groups by technique and not by
  execution, and its verdicts are compared with those of the run.
- **Late telemetry.** The settler stops early when it believes that ingestion has
  settled.
- **Shared files.** `history.json` is read, extended and rewritten in place by
  every run; a run can stop between any two writes; ids have one-second
  resolution; the server reads while runs write.
- **The evaluator's grading** (fidelity, unsupported features, missing rules)
  decides between "no claim" and "a detection gap".

PROJECT.json lists these as hazards, each at its line.

## 2. The plan

The order follows what the program's claims rest on, most important first.

| # | Module | Stands for | State |
|---|---|---|---|
| 1 | `TrustContract` | abstract: when a verdict that says something may be published | done, checked as a refinement |
| 2 | `Campaign` | `runTasks`, `runTechnique`, `labelAttribution` | done, all safety proved |
| 3 | `RunStore` | the reports directory under concurrent and interrupted `run`, `replay`, `serve` | done, all proved |
| 4 | `Collection` | abstract: what a collection promises the evaluation | done, checked as a refinement |
| 5 | `Settle` | the poll loop, against an archive that fills at any pace | done, safety proved |
| 6 | `Evaluation` | `evaluateExpected`, `Evaluate`, the grading of the normalizer | done, all proved |
| 7 | `WazuhQuery`, `Canary` | `Checker.Run` over `Query` and its stages | done, safety proved |
| 8 | `Coverage`, `Replay` | `buildCoverage`'s figures, `compareRuns`; capture's records, `ByTechnique`, `replayDataset` | done, all proved |
| 9 | `SigmaDialect`, `Matching` | the rule parser and the matcher, against a reference semantics of Sigma rules | done, all proved |
| 10 | `Atomics`, `Dispatch` | `Resolve`, `interpolate`; a task from its ID to its verdict | done, all proved |

**Composition.** `Campaign` instantiates `TrustContract` and `Settle` instantiates
`Collection`, each with a refinement mapping. `Campaign` takes the outcome of a
collection (some of what the query can see, or an error), of an evaluation (any
verdict that a rule can give, or an error) and of a canary (healthy or not) as
choices; `Settle`, `Evaluation`, `Canary` and `Dispatch` say which of those
choices are made when. `Canary` extends `WazuhQuery`, `Dispatch` extends
`Atomics`, and `Replay` extends `Coverage`: live run, dataset, replay and
comparison are one behaviour. `RunStore` takes a finished campaign as a process
with a result that is synthetic, inconclusive or neither.

**Runs.** One per question: a passing run for each of the eight state machines,
and four that show where the code and its comments part (section 5).

**Theorems.** For every state machine: types, each safety invariant, the
refinement where there is one. For the condition parser: that it reads back what
the reference writes, for trees of any depth.

**What is left.** Which block of a record the normalizer fills a field from; the
bodies of the server's other handlers; the counting of `precision`; the
transports of the executors.

## 3. The modules and the code

### TrustContract and Campaign

`TrustContract` is the promise in `model.CampaignResult`'s comments: DETECTED,
MISSED and NO_TELEMETRY (`Claim`) may be published only when no platform's
control failed and the technique's own platform's control fired. Controls are
settled once (`Prove`, `Refute`), publication comes last and once (`Publish`).

`Campaign` is `runTasks`, one action per outcome of each step:

| Model | Code |
|---|---|
| `plan`, `Waiting`, `IsNext`, `Pending`, `IsFirst` | grouping by platform, in order of first appearance; tasks in the plan's order |
| `SkipPlatform` | `stackFor` failed: ERROR chains, `continue` before the canary |
| `Gate` | the canary gate; `gate[p]` records its outcome, `canaryHealthy` and `inconclusive` are the result's fields |
| `Unresolved`, `Unmet`, `Ready`, `ExecuteFails`, `Execute`, `Unmapped`, `CollectFails`, `Collect`, `EvaluateFails`, `Evaluate` | the returns of `runTechnique`, in order. `CollectFails`, `EvaluateFails` and `ExecuteFails` are the errors for which `runTasks` substitutes a chain without a window (`AppendError`) |
| `Window`, `Overlaps`, `LabelOf` | `RunResult.Window`, `TimeWindow.Overlaps`, `labelAttribution` |
| `Conclude` | blanking, the healthy mark, labels |

Time is a tick counter that commands, probes, cleanups, polling and canaries
consume; what a command started may leave telemetry after its cleanup (`MaxLinger`). What the telemetry says is abstracted to who caused an event and when:
`events`, `ran` and `finish` are what happened in the lab, which the code never
sees; the properties relate it to what the code concludes. The host's background
telemetry is not tracked, so `Evaluate` allows any verdict with any collected
set. A dry run (`synthetic`) executes nothing, never fails a probe or a query
and skips the gate.

### RunStore

A process is a `run` or a `replay` that shares the reports directory. Its `pc`
stands between two file operations, since no operation of the code takes a lock
and `os.WriteFile` truncates and then writes:

| `pc` | next operation |
|---|---|
| `capture`, `captureFlush` | `capture.Write`: `os.Create`, then the buffered records |
| `report` | `newReporter`'s choice: `ReportElsewhere`, or `DashboardReporter.Write` |
| `coverageWrite` | the rest of `os.WriteFile` of `runs/<id>/coverage.json` |
| `history`, `historyTruncate`, `historyWrite` | `appendHistory`: read, truncate, write |
| `snapshotTruncate`, `snapshotWrite` | `docs/data/coverage.json` |

A content is the process that wrote it, or `empty`, or `torn` (two writers'
bytes, or a write cut short). A torn dataset is always refused by a replay; that
a dataset cut exactly after a record reads back as a shorter one is left out.
`Stop` is a kill or a failing write at any point; `LeftBehind` is what it
leaves. Run ids are seconds, so processes that start within one share a
directory. `ServeLatest` is one request of `/api/runs/latest`; the listing and
the read are one step, since the directory list only grows and the file read is
of a run already listed. `disturbed` remembers, for the properties alone,
whether an update of the index was overlapped or cut short.

### Collection and Settle

`Collection` promises that an answer holds what the archive held at that
instant and is given for a reason: a match, an archive that has been still for
`Quiet`, or patience that ran out. `Settle` is the code's loop: `Wake` (the
sleep ends, the query is sent), then one of `QueryFails`, `Satisfied` (the
predicate, before any counter) and `Poll` (the counters, `Settled`, `TimedOut`,
or back to sleep). The archive is when each event of the window became visible
(`arrived`) and which one a rule matches first (`hit`); `Arrive` may happen at
any instant, so the SIEM's pace is arbitrary.

### Evaluation

An event is the set of blocks the normalizer looks at (`top`, the Windows or
Linux-Sysmon `channel` with its `id` and `body`, `audit`, `output`, `decoder`)
and the canonical fields each fills. `IsCreation`, `HighFidelity`,
`LowFidelity`, `Fidelity` and `Blank` are `Normalize`'s decisions. Values are
not modelled: which normalized events a rule's condition holds for is an input
(`finds`), arbitrary in the proofs. A rule is unmapped, absent, broken (does not
parse), unsupported, or usable. `evaluateExpected`'s loop is `Grade` and
`Return`; `Evaluate`'s early returns are `NothingCollected`, `NoRule`,
`ParseError`, `Unsupported`; its loop over the events is `Open`, `Skip`, `Look`,
`Judge`.

### WazuhQuery and Canary

A line of the archive is what the stages of a query tell apart: the instant and
the offset of its stamp, whether the host's name occurs in it, whether it
parses, whether the scanner can hold it, whether the canary rule holds for it,
and whose marker it carries. `DateFilter` is the coarse `grep -E` over the days
of `dateAlternation` (`Span`, `Unfiltered`), applied to the date as the line
spells it; `Printed`, `Scanned` and `Answer` are what survives the greps, the
scanner and the comparison with the window. `cut` is how far the first grep came
before it failed: the status of a pipeline is that of its second grep.

`Canary` is `Checker.Run`: `ExecuteFails` and `Execute`, then polls. A poll is
`QueryFails`, `EvaluationFails`, `NotSeen` or `Seen`, and each but the last goes
through `Continue`, which gives up after the deadline or sleeps (`Wake`).
`Arrive` lets anybody write any line at any time; the fresh marker appears in no
line that is stamped before its command started. `fired`, `looked`, `failed` and
`clipped` are what the checker does not record.

### Coverage and Replay

`Coverage` has the operators on chains that three parts of the program share:
`Exercised`, `CoveragePct`, `ReadinessGaps` and `CollectionGaps` of
`buildCoverage`; the verdict by technique, which is that of the last chain; and
`Regressed`, `Improved`, `Otherwise` of `compareRuns`.

`Replay` follows a run's telemetry. The live part (`Evaluate`, `GoWithout`,
`Settle`) builds chains; `Grade` is `evaluateExpected` in closed form, which
`EvaluationProofs` establishes (`Returned`, the lemma under
`VerdictIsTheStrongest`), over what the expected rules of a technique admit and
find. `Capture` and `CaptureCut` are `capture.Write`:
the dataset is the set of pairs of a chain and an event, in the order of the
chains, and `file` says whether it is whole, cut after a record (`short`), within
one (`torn`), or holds a record that `Read` has no buffer for (`long`). `Read`,
`Grouped` (`ByTechnique`) and `ReplayTechnique` are the replay. The order of the
events of one chain is left out; nothing in a verdict depends on it.

### Atomics and Dispatch

A text is the set of its words and placeholders; the blank text is the empty set.
`Interpolate` is five passes of `Replaced`; `Pinned`, `Substitute`,
`Instantiate`, `Resolvable` and `Resolve` are the registry's. An ID has a
technique, an index and a spelling, since overrides are looked up by the string.

`Dispatch` is one task: `Load` or `LoadRefuses`, then `Unresolvable`,
`WrongPlatform` or `ResolveTest`; `PassOver` and `Probe` are `unmetPrereq`;
`Execute`, `Cleanup` and `Grade` the rest of `runTechnique`. `sent` is what the
executor was given and how that ended (it failed, or the command exited with
zero or not). `Campaign` has the same steps with their durations and windows;
what `Dispatch` adds is the commands.

### SigmaDialect and Matching

`Evaluation`'s `finds` is what these modules compute for one rule.
`SigmaDialect` is the reference: a rule is what its author has in mind, the tree
of the condition and its selections, each by the kind of its YAML node (a map of
keys; a list of strings, other scalars and maps; a scalar); `Means` and `Hit`
give its meaning, `Written` spells the tree. A tree is the sequence of its nodes, each after
its children (`Root`, `Child`, `Left`, `Right` take it apart), so that what is
recursive is a function whose argument gets shorter.

`Matching` is the code. `Refuse` is the error of yaml.v3 for a text in which a map
repeats a key (`Malformed`: the same field with the same modifiers), and `Parse`
is the rest of `RuleParser.Parse`. `FieldMaps` is `parseFieldMap`: the result for
a map depends on the order in which Go walks it, a list of values loses those
without text (`Entry`), a list keeps only its strings, and one without strings, or
a scalar, becomes the empty map, which holds for every event. `ParseOr` to `ParsePrimary`, `ParseOneOf`,
`ParseAllOf`, `readAggIdent` are the recursive descent, over words instead of
bytes. The loops of `parseOr` and `parseAnd` are `OrRest` and `AndRest`. A method
returns its tree and how many words it `took`, of which the whole parse makes
`pos`; `Reading` has the result of every `Call` at once. `Match` is
`Matcher.Match`, with `evalExpr` and what it calls. The value of a field is the set of comparisons it
passes, so regular expressions, globs and numbers are not computed; which
comparison a chain of modifiers selects is (`Comparison`). Blanks are not
modelled: each word is taken to be followed by one, a glob to stand only as
the operand of an aggregate, and no name to begin with a digit or with `them`, of
which the parser takes the beginning for a count or a target.

## 4. What the runs check

| Run | Bounds | Shows |
|---|---|---|
| `campaign` | 2 techniques, on one host or two; every stage failing or not; commands, cleanups, collection up to 1 tick, telemetry up to 1 tick after the cleanup, epsilon 1, pad 2 | types; `ImplementsContract`; `TrustFieldsAgree`; `ControlPrecedesExecution`; `AttributionSound`; `EpsilonStaysClear`; `EventuallyReported` |
| `runstore` | 3 processes, 2 seconds, 1 stop, symmetry on processes | types; `SyntheticStaysPrivate`; `HistoryKeepsEveryRun`; `SnapshotIsTheLastRun`; `HistoryIsBacked`; `LatestNeverGoesBack` |
| `settle` | 3 events, 15 instants; minimum wait 2, interval 3, timeout 9, streak 2, queries up to 1 | types; `ImplementsCollection`; `ReturnsInTime`; `DetectionIsPrompt`; `EventuallyReturns` |
| `evaluation` | up to 2 events of 12 kinds against up to 2 rules of 12 kinds | types; `VerdictIsTheStrongest`; `EvidenceIsComplete`; `LogIsNoProof` |
| `matching` | 3 identifiers (one a filter), up to 3 nested operators, one side of the outermost an identifier; selections of up to 2 keys on 2 fields, with the empty string among the values, and of keywords; texts with a repeated key; any 3 words; 34 events | types and the parser's bounds; `NothingLeftOver`; `MatchesAsMeant` |
| `canary` | 2 lines of 5 kinds, days of 4 instants, stamped up to 1 before they appear; timeout 3, interval 2, pad 7, queries and command up to 1 | types; `HealthyIsProven`; `UnhealthyIsJustified`; `ErrorIsSticky`; `DecidesPromptly`; `EventuallyReturns` |
| `replay` | up to 3 tasks on 2 techniques, 2 events, 5 kinds of rules, symmetry on techniques | types; `ReplayIsFaithful`; `ReplayClaimsNothingNew`; `DiffOfAReplay`; `FiguresAddUp` |
| `dispatch` | 6 tests, 8 override files, 7 names of atomics in plan and rule map, 2 platforms; inputs that nest to five, to six, and in a circle | types; `VerdictNeedsExecution`; `SubstitutionsHold`; `PlaceholdersAreResolved` |

Why the bounds are enough to be worth something. Attribution, order of controls
and blanking are relations between two techniques or two platforms, and two of
each let every pair of outcomes meet; a tick of one for epsilon and
durations and two for the pad let windows touch, overlap and miss each other by
one, with room between the end of a command and that of its window. In the store a
lost entry needs two writers, a torn file or a laundering replay a third process
that reads what the others left, and one stop suffices to cut any write short.
The settler's clock runs past the deadline by more than a poll and a query, so
every exit is taken on both sides of it, and three events allow growth, a pause,
and growth again. In an evaluation the best of several rules is decided pairwise,
and the second event is the one that is scanned after a match or after a skip.
Two nested operators of every kind
on either side show precedence, associativity and parentheses wrong if they are;
a third identifier gives an aggregate something to leave out. The scraps of
three words are for the parser's position alone. The control's clock runs over two
midnights and past the deadline; a line stamped almost a day behind is on the
other side of the day, and one line too long before the proof hides it. Three
tasks on two techniques give a technique that is tested twice beside another
one. Six inputs are the shortest chain that five passes do not end.
The theorems of section 6 remove the bounds for the safety properties.

What these properties leave out, so that nobody reads more into them.
`AttributionSound` is about what a technique leaves before the end of its own
window; telemetry stamped later still, in the window of another one, gets no label. `VerdictIsTheStrongest` gives the verdict up when a rule
is broken (section 5). `MatchesAsMeant` holds of the rules that the parser keeps
whole; `matching_not_kept` is the run for the others. `HistoryKeepsEveryRun` and
`SnapshotIsTheLastRun` are about updates that were neither overlapped nor cut
short. The hazards that no property catches carry a note in PROJECT.json.

**Fairness.** `Campaign!FairSpec` is weak fairness of the whole next-state
relation: runTasks is sequential code that goes on as long as what it called
returns. It is an assumption about the lab that commands, probes and queries
return: the context has no deadline. `Settle!FairSpec` is weak fairness of time,
of the end of a sleep and of a query's answer; nothing makes events arrive.
`Canary!FairSpec` assumes the same of the control: that time passes, that the
marker's command and every query return; nothing makes the marker arrive.
The other modules state no fairness and no liveness.

**Deadlock** is checked for `campaign` (a finished campaign stutters in
`Done`). The other runs stop where their processes end, and say so in the .cfg.

## 5. Where the code and its comments part

Each is a run with one property, stating what the repository says, that TLC
violates; the quotations are in `PROJECT.json`.

| Run | What happens |
|---|---|
| `runstore_replay` | A run whose control failed is captured; its replay is published. |
| `evaluation_broken` | A technique of which one rule matches and another cannot be read is an ERROR: the loop returns at the broken rule, before or after the match. |
| `evaluation_fidelity` | A Windows event that says it is not a process creation, but carries an image and a command line, is process-creation evidence. |
| `matching_not_kept` | Of two conditions on one field the parser keeps one, in no order; of a list without strings (maps, numbers, nothing), or of a scalar, none. The rule is not flagged and matches events that it should not. |

Others have no run of their own. The definitions of the modules show them, and
PROJECT.json quotes what they contradict:

- A technique whose collection or evaluation fails loses its window with its chain
  (`AppendError`). The window of the technique before it, ten minutes long, may
  cover its execution, and is nevertheless labelled as scoped (`LabelOf`).
- A window reaches back by the epsilon over a predecessor that has no rule: it
  settles nothing, so no minimum wait separates the two (`Unmapped`).
- When no platform has a stack, no canary fires, and the run is nevertheless
  conclusive (`SkipPlatform` leaves the trust fields alone).
- `/api/runs/latest` answers 404 while the newest directory has no coverage,
  though older runs have one (`ServeLatest`).
- An archive that pauses longer than the streak, and goes on, makes the settler
  return before the event that would have matched (`Settled`).
- Of a list of values the parser drops the empty string and null, though as a scalar
  it keeps them (`Entry`).
- Of the form `1 of id1,id2` that a comment of the parser gives, the code reads
  `1 of id1` and drops the rest (`ParseOneOf`).
- A replay does not give back what a technique without events, or tested twice,
  had (`Remaining`, `Grouped`); every chain of it is labelled as scoped; and the
  records of a mixed campaign name the Linux host.
- `T1518-01` is the test that `T1518-1` is, but not under its override (`Replaces`);
  a pin need not be a declared input (`Pinned`); and a docker or ssh client that
  did not reach the target counts as an execution (`Execute`).

## 6. What is proved

TLAPS checks every theorem for all values of the constants, from the named
assumptions of each module alone:

- `CampaignAssumption`: epsilon and pad positive, `MinWait >= Eps` (both 2 s
  in the code), plans over the platforms;
- `RunStoreAssumption`: the names of contents are not processes;
- `SettleAssumption`: durations and the streak positive, as `withDefaults`
  leaves them;
- `EvaluationAssumption`: batches of events, lists of rules;
- `QueryAssumption`, `CanaryAssumption`: a day and the control's durations are
  positive, stamps are less than a day off UTC;
- `ReplayAssumption`: what a rule matches it also admits, and events are finitely
  many;
- `DialectAssumption`, `RulesAssumption`: names, numerals, globs and reserved words
  are different words, a glob covers finitely many names, a rule has finitely many
  selections of the three kinds, a key that is no list has one value or null, and
  what a rule means, if anything, is what it says;
- `AtomicsAssumption`, `DispatchAssumption`: words are not placeholders, `linux` is
  a platform (the default of a replacing override), and trees and overrides have
  their shapes.

**CampaignProofs.** All five invariants and the refinement. None is inductive by
itself. `GateInv` adds what the gates and the verdicts know of each other while
the campaign runs: a technique that is neither pending nor an ERROR was driven
after its platform's gate. `TimeInv` orders executions: every window that was
kept belongs to a command that finished before the command being driven
started, which is what makes an overlap test on windows say something about
events. `SourceInv` says where collected events come from: a technique that has
not run caused none. The attribution theorem combines the last two with
`LabelInv`. The refinement maps gates to the contract's controls and `Conclude`
to its publication; the other steps stutter.

**RunStoreProofs.** All invariants and the action property. `Lineage` follows
telemetry from a run to its dataset to the runs that replay it: what a synthetic
run fabricated is in no dataset, so no chain of replays launders it.
`Publication` and `Backing` say what is in the index, in every process's copy of
it and in the snapshot; a copy matters as much as the file, since it is written
back later. `Serial` and `Publishing` hold as long as nothing is disturbed: at
most one process updates, and its copy is complete.

**SettleProofs.** Types, both time bounds and the refinement. `Rhythm` bounds a
wait by the last answer, `Stillness` turns the count of equal polls into a time
during which the archive did not change, which is the abstract reason for a
settled answer, and `Unseen` says that a match not acted on is younger than the
last poll.

**EvaluationProofs.** All four invariants. `Gathered` says that the best verdict
and the evidence so far are those of the rules before the current one, and
`Counted` the same of the events before the current one; `OneMore` is the lemma
that makes the running maximum a function of the set of rules. `Returned` is what
they come to: the strongest verdict of the expected rules, or ERROR when one of
them is broken.

**CanaryProofs.** All five invariants. `DateFilterLosesNothing` is the arithmetic:
whatever its offset, a line whose instant is in the window shows a date in the
widened span. `Rhythm` bounds the clock by what the checker waits for, `Causal`
dates the lines, `Standing` says what the result means at each control point, and
`Pending` that a proof not acted on became visible after the last look.

**ReplayProofs.** All five. `ChainsAreGraded` ties what a chain collected to its
grade, `DatasetIsCollected` the records to the chains and `ReplayedIsGraded` the
replay to the records. `GradeGrows` (more events never make a worse grade, once
the rules parse) compares a technique tested twice with its merged replay. The
figures rest on `Partition`: the chains are partitioned by verdict.

**DispatchProofs.** All four. Interpolation is followed pass by pass: `OnePass`
turns a placeholder that is left into one that refers to it, and five of them
give `FivePasses`; `InterpolateWords` says that no word comes from anywhere but
the text and the values, so that what a pin hides never reaches `sent`. The
order of what is sent is the invariant `InOrder`, `ProbesAreMet`, `GradedHasRun`.

**MatchingProofs.** All three invariants. The state machine is two steps long; its
`IInv` only says that what `Parse` and `Match` stored is what the parser and the
matcher return. The work is in these, over conditions of any depth and length.

- *Recursion.* A recursive function is a `CHOOSE` in TLA+, so its equation must be
  proved before it is used. `RankedRecursion` does it once: if calls lower a rank,
  some function satisfies the equation. It is applied to trees, ranked by their
  length, and to the parser, where a call is ranked by the words left and then by
  the method (`CallRank`, `ReadCallAgrees`): this is also why the descent ends.
  Facts about recursive functions follow by the least counterexample
  (`ShortestTree`, `LeastRank`), which needs no induction rule.
- *Reading.* `Here` says that a text stands at a position, and `Faithful` that the
  text of a tree, wherever it stands before a mark or an operator that may end it,
  is read as that tree by every method that its `Strength` admits. The methods
  that loop leave an intermediate result: a conjunction is read by `parseAnd` as if
  the loop had arrived at its end with that tree on its left, so the reading of
  `a and b and c` composes from that of `a and b`. One lemma for each kind of node
  gives `SentencesFaithful`, and `RoundTrip` is its case of a whole condition.
- *Matching.* `ComparedAsAsked` to `SelectionsMatch` say that an identifier holds
  exactly when its selection does, and `CountedOnce` is a bijection between the
  places that a count counts and the names it is meant to range over, when no two
  operands cover the same name. `EvalMeans` puts them together.

`AsMeant` is about the rules that parse and that the parser keeps whole
(`KeptWhole`: of a map, at most one key on a field, no list of values with an empty
string or null in it, one comparison for a key; of a list, strings only and at
least one). `matching_not_kept` is what happens to the others. `MCRulesKept` has
TLC confirm that the rules of `matching` are of the first kind or refused, which
`AllAsMeant` assumes of all rules.

**Only model-checked.** `EventuallyReported` and the two `EventuallyReturns`: liveness
under fairness is out of this prover's reach. Every safety property of a passing
run is a theorem. The violated properties are counterexamples and need no proof.

## 7. What is not modelled, and why

- **Regular expressions, globs over values, number parsing**: a value is the set
  of comparisons it passes. `Evaluation` still takes what a rule matches as an
  arbitrary relation, which is what makes its theorems hold for every rule.
- **Transports and conversions**: docker and ssh commands and the layouts of
  timestamps. Their outcomes (an error, an exit code, a stamp that parses or does
  not) are choices.
- **File parsing** (atomics, overrides, rule map, targets, feeds): read once at
  start; a missing or mismatched entry is an outcome of `runTechnique`, and the
  shapes of what is parsed are assumptions of `Atomics` and `Dispatch`.
- **Texts of a command**: their words and placeholders, not their order. The
  pattern of a placeholder and the trimming of blanks are left out.
- **Rendering** (HTML, JSON, Navigator) and `precision`'s sequential count: pure
  output of values that are modelled.
- **A context that is cancelled**: no caller cancels it.
- **The server's other handlers** read one file and keep nothing.
