------------------------------ MODULE RunStore ------------------------------
(***************************************************************************)
(* The reports directory: what purpleloop run, replay and serve do to it   *)
(* when several of them share it, and what is left when one stops halfway. *)
(*                                                                         *)
(* A run captures its telemetry (capture.Write) and reports                *)
(* (DashboardReporter.Write): the run's coverage, then, for a real and     *)
(* conclusive run, the history index, read and rewritten in place, and the *)
(* public snapshot. No step takes a lock and os.WriteFile truncates before *)
(* it writes. A content is abstracted to the process that produced it.     *)
(***************************************************************************)
EXTENDS Integers, Sequences

CONSTANTS
  Procs,       \* processes that capture into, report to or replay from it
  MaxSecond,   \* bound: seconds the clock shows
  MaxStops     \* bound: processes that stop halfway

ASSUME RunStoreAssumption ==
  /\ Procs \cap {"absent", "empty", "torn", "none"} = {}
  /\ MaxSecond \in Nat \ {0}
  /\ MaxStops \in Nat

(* A run id is the second the run started in. *)
Ids == 1 .. MaxSecond

(* What a file holds: what process p wrote, whole, or something that does not
   parse: nothing yet (truncated), or the remains of several writes. *)
Unreadable == {"empty", "torn"}
Contents == Procs \cup Unreadable \cup {"absent"}

VARIABLES
  clock,
  pc,             \* where each process stands; "over" without a report here
  id,             \* the run id of each process
  origin,         \* the run whose telemetry a process reports on
  synthetic,      \* processes whose result is marked synthetic
  inconclusive,   \* processes whose result is marked inconclusive
  dirs,           \* ids with a directory under runs/
  dataset,        \* runs/<id>/events.jsonl
  coverage,       \* runs/<id>/coverage.json
  history,        \* the entries of history.json, when it is whole
  indexFile,      \* history.json: absent, empty, torn or whole
  snapshot,       \* docs/data/coverage.json
  read,           \* the history each process has read
  latest,         \* the id /api/runs/latest last served
  stops,
  disturbed       \* remembered for the properties: the index and the snapshot
                  \*   were being updated by one process when another began to
                  \*   update them, or it stopped

files  == <<dirs, dataset, coverage>>
index  == <<history, indexFile, snapshot, read>>
result == <<id, origin, synthetic, inconclusive>>
vars == <<clock, pc, result, files, index, latest, stops, disturbed>>

Updating == {"historyTruncate", "historyWrite", "snapshotTruncate",
             "snapshotWrite"}
Finished == {"done", "over"}
Places   == {"idle", "capture", "captureFlush", "report", "coverageWrite",
             "history"} \cup Updating \cup Finished

TypeOK ==
  /\ clock \in Ids
  /\ pc \in [Procs -> Places]
  /\ id \in [Procs -> Ids \cup {0}]
  /\ origin \in [Procs -> Procs \cup {"none"}]
  /\ synthetic \in SUBSET Procs
  /\ inconclusive \in SUBSET Procs
  /\ dirs \in SUBSET Ids
  /\ dataset \in [Ids -> Contents]
  /\ coverage \in [Ids -> Contents]
  /\ history \in Seq(Procs)
  /\ indexFile \in {"absent", "whole"} \cup Unreadable
  /\ snapshot \in Contents
  /\ read \in [Procs -> Seq(Procs)]
  /\ latest \in Ids \cup {0}
  /\ stops \in Nat
  /\ disturbed \in BOOLEAN

----------------------------------------------------------------------------
(* What a file may hold once p has written to it after truncating it: if
   somebody else has written in between, p's bytes go over theirs. *)
Overwritten(p, held) == IF held = "empty" THEN {p} ELSE {p, "torn"}

(* The runs an index names. *)
Entries(s) == {s[k] : k \in 1 .. Len(s)}

(* Mutant of Newest: the list is not reversed. *)
Oldest(i) == i \in dirs /\ \A j \in dirs : i <= j

(* listRunIDs: a directory's name sorts as the second it stands for. *)
Newest(i) == i \in dirs /\ \A j \in dirs : j <= i

Others(p) == \E q \in Procs \ {p} : pc[q] \in Updating

Goto(p, place) == pc' = [pc EXCEPT ![p] = place]

Init ==
  /\ clock = 1
  /\ pc = [p \in Procs |-> "idle"]
  /\ id = [p \in Procs |-> 0]
  /\ origin = [p \in Procs |-> "none"]
  /\ synthetic = {}
  /\ inconclusive = {}
  /\ dirs = {}
  /\ dataset = [i \in Ids |-> "absent"]
  /\ coverage = [i \in Ids |-> "absent"]
  /\ history = <<>>
  /\ indexFile = "absent"
  /\ snapshot = "absent"
  /\ read = [p \in Procs |-> <<>>]
  /\ latest = 0
  /\ stops = 0
  /\ disturbed = FALSE

(* Only a process that starts reads the clock. *)
Tick ==
  /\ clock < MaxSecond
  /\ \E p \in Procs : pc[p] = "idle"
  /\ clock' = clock + 1
  /\ UNCHANGED <<pc, result, files, index, latest, stops, disturbed>>

(* A campaign starts. What it will find is drawn here: a synthetic run has no
   canary to fail. *)
StartRun(p) ==
  /\ pc[p] = "idle"
  /\ id' = [id EXCEPT ![p] = clock]
  /\ origin' = [origin EXCEPT ![p] = p]
  /\ \/ UNCHANGED <<synthetic, inconclusive>>
     \/ synthetic' = synthetic \cup {p} /\ UNCHANGED inconclusive
     \/ inconclusive' = inconclusive \cup {p} /\ UNCHANGED synthetic
  /\ Goto(p, "capture")
  /\ UNCHANGED <<clock, files, index, latest, stops, disturbed>>

(* replay --output reports: reads a dataset, evaluates it, and reports. The
   result is neither synthetic nor inconclusive, and its canary is healthy. *)
StartReplay(p, i) ==
  /\ pc[p] = "idle"
  /\ dataset[i] \in Procs
  /\ id' = [id EXCEPT ![p] = clock]
  /\ origin' = [origin EXCEPT ![p] = dataset[i]]
  /\ Goto(p, "report")
  /\ UNCHANGED <<clock, synthetic, inconclusive, files, index, latest, stops,
                 disturbed>>

(* A dataset that does not parse, or is empty, is refused. *)
ReplayFails(p, i) ==
  /\ pc[p] = "idle"
  /\ dataset[i] \in Unreadable
  /\ Goto(p, "over")
  /\ UNCHANGED <<clock, result, files, index, latest, stops, disturbed>>

(* capture.Write: nothing for a synthetic run, or one without events; an
   error is a warning. *)
CaptureNothing(p) ==
  /\ pc[p] = "capture"
  /\ Goto(p, "report")
  /\ UNCHANGED <<clock, result, files, index, latest, stops, disturbed>>

(* Mutant of CaptureOpen: synthetic runs are captured too. *)
CaptureOpenAny(p) ==
  /\ pc[p] = "capture"
  /\ dirs' = dirs \cup {id[p]}
  /\ dataset' = [dataset EXCEPT ![id[p]] = "empty"]
  /\ Goto(p, "captureFlush")
  /\ UNCHANGED <<clock, result, coverage, index, latest, stops, disturbed>>

CaptureOpen(p) ==
  /\ pc[p] = "capture"
  /\ p \notin synthetic
  /\ dirs' = dirs \cup {id[p]}
  /\ dataset' = [dataset EXCEPT ![id[p]] = "empty"]
  /\ Goto(p, "captureFlush")
  /\ UNCHANGED <<clock, result, coverage, index, latest, stops, disturbed>>

CaptureFlush(p) ==
  /\ pc[p] = "captureFlush"
  /\ \E c \in Overwritten(p, dataset[id[p]]) :
       dataset' = [dataset EXCEPT ![id[p]] = c]
  /\ Goto(p, "report")
  /\ UNCHANGED <<clock, result, dirs, coverage, index, latest, stops, disturbed>>

(* --output names a page or a layer, or nothing: the result is written
   elsewhere, though the telemetry was captured here. *)
ReportElsewhere(p) ==
  /\ pc[p] = "report"
  /\ Goto(p, "over")
  /\ UNCHANGED <<clock, result, files, index, latest, stops, disturbed>>

(* Mutant of ReportOpen: a coverage that cannot be written is only warned of. *)
ReportOpenOrWarn(p) ==
  /\ pc[p] = "report"
  /\ dirs' = dirs \cup {id[p]}
  /\ \/ /\ coverage' = [coverage EXCEPT ![id[p]] = "empty"]
        /\ Goto(p, "coverageWrite")
     \/ /\ UNCHANGED coverage
        /\ Goto(p, IF p \in synthetic \cup inconclusive THEN "done"
                                                       ELSE "history")
  /\ UNCHANGED <<clock, result, dataset, index, latest, stops, disturbed>>

(* DashboardReporter.Write, up to the truncation of the run's coverage. *)
ReportOpen(p) ==
  /\ pc[p] = "report"
  /\ dirs' = dirs \cup {id[p]}
  /\ coverage' = [coverage EXCEPT ![id[p]] = "empty"]
  /\ Goto(p, "coverageWrite")
  /\ UNCHANGED <<clock, result, dataset, index, latest, stops, disturbed>>

(* A synthetic or inconclusive run stops here. *)
ReportWrite(p) ==
  /\ pc[p] = "coverageWrite"
  /\ \E c \in Overwritten(p, coverage[id[p]]) :
       coverage' = [coverage EXCEPT ![id[p]] = c]
  /\ Goto(p, IF p \in synthetic \cup inconclusive THEN "done" ELSE "history")
  /\ UNCHANGED <<clock, result, dirs, dataset, index, latest, stops, disturbed>>

(* Mutant of HistoryRead: the index is opened for writing before it is read. *)
HistoryReadTruncated(p) ==
  /\ pc[p] = "history"
  /\ read' = [read EXCEPT ![p] = <<>>]
  /\ history' = <<>>
  /\ indexFile' = "empty"
  /\ disturbed' = (disturbed \/ Others(p))
  /\ Goto(p, "historyTruncate")
  /\ UNCHANGED <<clock, result, files, snapshot, latest, stops>>

(* appendHistory: an unreadable index is taken for an empty one. *)
HistoryRead(p) ==
  /\ pc[p] = "history"
  /\ read' = [read EXCEPT ![p] = IF indexFile = "whole" THEN history ELSE <<>>]
  /\ disturbed' = (disturbed \/ Others(p))
  /\ Goto(p, "historyTruncate")
  /\ UNCHANGED <<clock, result, files, history, indexFile, snapshot, latest,
                 stops>>

HistoryTruncate(p) ==
  /\ pc[p] = "historyTruncate"
  /\ indexFile' = "empty"
  /\ history' = <<>>
  /\ Goto(p, "historyWrite")
  /\ UNCHANGED <<clock, result, files, snapshot, read, latest, stops, disturbed>>

(* The rewritten index; bytes of a longer one written meanwhile may follow. *)
HistoryWrite(p) ==
  /\ pc[p] = "historyWrite"
  /\ \/ /\ indexFile' = "whole"
        /\ history' = Append(read[p], p)
     \/ /\ indexFile # "empty"
        /\ indexFile' = "torn"
        /\ history' = <<>>
  /\ read' = [read EXCEPT ![p] = <<>>]
  /\ Goto(p, "snapshotTruncate")
  /\ UNCHANGED <<clock, result, files, snapshot, latest, stops, disturbed>>

(* Mutant of SnapshotTruncate: a run that started earlier is not published. *)
SnapshotOnlyForward(p) ==
  /\ pc[p] = "snapshotTruncate"
  /\ IF snapshot \in Procs /\ id[p] < id[snapshot]
     THEN Goto(p, "done") /\ UNCHANGED snapshot
     ELSE Goto(p, "snapshotWrite") /\ snapshot' = "empty"
  /\ UNCHANGED <<clock, result, files, history, indexFile, read, latest, stops,
                 disturbed>>

SnapshotTruncate(p) ==
  /\ pc[p] = "snapshotTruncate"
  /\ snapshot' = "empty"
  /\ Goto(p, "snapshotWrite")
  /\ UNCHANGED <<clock, result, files, history, indexFile, read, latest, stops,
                 disturbed>>

(* Mutant of SnapshotWrite: the other buffer is written. *)
SnapshotWriteIndex(p) ==
  /\ pc[p] = "snapshotWrite"
  /\ snapshot' = indexFile
  /\ Goto(p, "done")
  /\ UNCHANGED <<clock, result, files, history, indexFile, read, latest, stops,
                 disturbed>>

SnapshotWrite(p) ==
  /\ pc[p] = "snapshotWrite"
  /\ snapshot' \in Overwritten(p, snapshot)
  /\ Goto(p, "done")
  /\ UNCHANGED <<clock, result, files, history, indexFile, read, latest, stops,
                 disturbed>>

(* What a process that stops leaves behind: what it was writing, as it is or
   cut short. A failed capture alone lets the run go on. *)
LeftBehind(p) ==
  /\ \/ Goto(p, "over")
     \/ pc[p] = "captureFlush" /\ Goto(p, "report")
  /\ \/ UNCHANGED dirs
     \/ pc[p] \in {"capture", "report"} /\ dirs' = dirs \cup {id[p]}
  /\ \/ UNCHANGED dataset
     \/ /\ pc[p] = "captureFlush"
        /\ dataset' = [dataset EXCEPT ![id[p]] = "torn"]
  /\ \/ UNCHANGED coverage
     \/ /\ pc[p] = "coverageWrite"
        /\ coverage' = [coverage EXCEPT ![id[p]] = "torn"]
  /\ \/ UNCHANGED <<history, indexFile>>
     \/ /\ pc[p] = "historyWrite"
        /\ history' = <<>>
        /\ indexFile' = "torn"
  /\ \/ UNCHANGED snapshot
     \/ pc[p] = "snapshotWrite" /\ snapshot' = "torn"
  /\ read' = [read EXCEPT ![p] = <<>>]

(* A process is killed, or a write fails. *)
Stop(p) ==
  /\ stops < MaxStops
  /\ stops' = stops + 1
  /\ pc[p] \notin {"idle"} \cup Finished
  /\ disturbed' = (disturbed \/ pc[p] \in Updating)
  /\ LeftBehind(p)
  /\ UNCHANGED <<clock, result, latest>>

(* GET /api/runs/latest: the coverage in the newest directory. *)
ServeLatest ==
  /\ \E i \in dirs : Newest(i) /\ coverage[i] # "absent" /\ latest' = i
  /\ UNCHANGED <<clock, pc, result, files, index, stops, disturbed>>

Step(p) ==
  \/ CaptureNothing(p) \/ CaptureOpen(p) \/ CaptureFlush(p)
  \/ ReportElsewhere(p) \/ ReportOpen(p) \/ ReportWrite(p)
  \/ HistoryRead(p) \/ HistoryTruncate(p) \/ HistoryWrite(p)
  \/ SnapshotTruncate(p) \/ SnapshotWrite(p)

Next ==
  \/ Tick
  \/ \E p \in Procs : StartRun(p) \/ Step(p) \/ Stop(p)
  \/ \E p \in Procs, i \in Ids : StartReplay(p, i) \/ ReplayFails(p, i)
  \/ ServeLatest

Spec == Init /\ [][Next]_vars

----------------------------------------------------------------------------
(* Processes that have rewritten the index. *)
Indexed(p) ==
  \/ pc[p] \in {"snapshotTruncate", "snapshotWrite"}
  \/ pc[p] = "done" /\ p \notin synthetic \cup inconclusive

(* What a synthetic run fabricated reaches neither a dataset, nor the index,
   nor the snapshot, not even by way of a replay: the refusals of the capture
   and of the reporter leave no path. *)
SyntheticStaysPrivate ==
  /\ \A i \in Ids : dataset[i] \notin synthetic
  /\ \A p \in Entries(history) \cup ({snapshot} \cap Procs) :
       origin[p] \notin synthetic

(* As long as no two updates overlap and none is cut short, the index names
   every real and conclusive run that reported, once each. *)
HistoryKeepsEveryRun ==
  ~disturbed /\ (\A p \in Procs : pc[p] # "historyWrite") =>
    /\ Entries(history) = {p \in Procs : Indexed(p)}
    /\ \A j, k \in 1 .. Len(history) : history[j] = history[k] => j = k

(* Then, too, the snapshot that is published is the index's last run. *)
SnapshotIsTheLastRun ==
  ~disturbed /\ (\A p \in Procs : pc[p] \notin Updating) =>
    IF history = <<>> THEN snapshot = "absent"
                      ELSE snapshot = history[Len(history)]

(* Whatever overlaps or stops, an entry of the index leads to the coverage of
   the run it names, unless another run started in the same second. *)
HistoryIsBacked ==
  \A p \in Entries(history) :
    \/ coverage[id[p]] = p
    \/ \E q \in Procs \ {p} : id[q] = id[p]

(* The newest run shown never goes back to an older one, though runs report in
   another order than they started. *)
LatestNeverGoesBack == [][latest' >= latest]_vars
=============================================================================
