--------------------------- MODULE RunStoreProofs ---------------------------
(***************************************************************************)
(* What module RunStore keeps, for every set of processes, every number of *)
(* them that stop and every clock: IInv, an inductive strengthening of its *)
(* invariants, and the theorems it gives.                                  *)
(***************************************************************************)
EXTENDS RunStore, TLAPS

(* A published run has reported: it is real, conclusive and past its coverage. *)
Reported(p) ==
  /\ pc[p] \in Updating \cup Finished
  /\ id[p] \in Ids
  /\ origin[p] \in Procs
  /\ p \notin synthetic \cup inconclusive

Shared(p) == \E q \in Procs \ {p} : id[q] = id[p]

(* The coverage at p's id is c, unless another run writes it too. *)
Holds(p, c) == coverage[id[p]] = c \/ Shared(p)

Backed(p) == Holds(p, p)

(* Where the telemetry of a process comes from. *)
Lineage ==
  /\ \A p \in Procs : pc[p] = "idle" =>
       /\ id[p] = 0
       /\ origin[p] = "none"
       /\ p \notin synthetic \cup inconclusive
  /\ \A p \in Procs : pc[p] \notin {"idle", "over"} =>
       id[p] \in Ids /\ origin[p] \in Procs
  /\ \A p \in Procs : origin[p] \in Procs =>
       /\ pc[origin[p]] # "idle"
       /\ origin[p] \in synthetic => p \in synthetic
  /\ \A i \in Ids : dataset[i] \in Procs =>
       pc[dataset[i]] # "idle" /\ dataset[i] \notin synthetic
  /\ \A p \in Procs : pc[p] = "captureFlush" => p \notin synthetic

(* Only reported runs are in the index, in a copy of it, or published. *)
Publication ==
  /\ \A p \in Procs : pc[p] \in {"history"} \cup Updating =>
       p \notin synthetic \cup inconclusive
  /\ \A p \in Entries(history) : Reported(p)
  /\ \A q \in Procs : \A p \in Entries(read[q]) : Reported(p)
  /\ snapshot \in Procs => Reported(snapshot)

(* And their coverage is there, or another run's with the same id. *)
Backing ==
  /\ \A p \in Procs : pc[p] = "coverageWrite" => Holds(p, "empty")
  /\ \A p \in Procs : pc[p] \in {"history"} \cup Updating => Backed(p)
  /\ \A p \in Entries(history) : Backed(p)
  /\ \A q \in Procs : \A p \in Entries(read[q]) : Backed(p)

Distinct(s) == \A j, k \in 1 .. Len(s) : s[j] = s[k] => j = k

(* A sequence that lists the runs indexed so far. *)
Complete(s) == Entries(s) = {p \in Procs : Indexed(p)} /\ Distinct(s)

(* An index that cannot be read counts for an empty one. *)
Readable == indexFile # "whole" => history = <<>>

(* An undisturbed index is complete, except while its only writer, who has a
   complete copy of it, rewrites it. *)
Ordered ==
  /\ \A p, q \in Procs : pc[p] \in Updating /\ pc[q] \in Updating => p = q
  /\ (\A p \in Procs : pc[p] # "historyWrite") => Complete(history)
  /\ \A p \in Procs :
       /\ pc[p] \in {"historyTruncate", "historyWrite"} => Complete(read[p])
       /\ pc[p] = "historyWrite" => indexFile = "empty"

Serial == ~disturbed => Ordered

(* An undisturbed snapshot is the last run of the index, or about to be. *)
LastRun == IF history = <<>> THEN snapshot = "absent"
                             ELSE snapshot = history[Len(history)]

Published ==
  /\ (\A p \in Procs : pc[p] \notin Updating) => LastRun
  /\ \A p \in Procs :
       /\ pc[p] \in {"snapshotTruncate", "snapshotWrite"} =>
            history # <<>> /\ history[Len(history)] = p
       /\ pc[p] = "snapshotWrite" => snapshot = "empty"

Publishing == ~disturbed => Published

(* How a step changes what is indexed, as long as nothing is disturbed. *)
Joins(r) ==
  Indexed(r)' = (\/ Indexed(r)
                 \/ pc[r] = "historyWrite" /\ pc'[r] = "snapshotTruncate")

Shown == latest \in dirs \cup {0}

IInv == TypeOK /\ Lineage /\ Publication /\ Backing /\ Readable /\ Serial
               /\ Publishing /\ Shown

(* Adding a run to an index. *)
LEMMA Added ==
  ASSUME NEW S, NEW s \in Seq(S), NEW x \in S
  PROVE  /\ Append(s, x) \in Seq(S)
         /\ Append(s, x) # <<>>
         /\ Len(Append(s, x)) = Len(s) + 1
         /\ Len(s) \in Nat
         /\ Append(s, x)[Len(s) + 1] = x
         /\ \A k \in 1 .. Len(s) : Append(s, x)[k] = s[k]
OBVIOUS

LEMMA LastAdded ==
  ASSUME NEW S, NEW s \in Seq(S), NEW x \in S
  PROVE  Append(s, x) # <<>> /\ Append(s, x)[Len(Append(s, x))] = x
BY Added

LEMMA AddedEntries ==
  ASSUME NEW S, NEW s \in Seq(S), NEW x \in S
  PROVE  Entries(Append(s, x)) = Entries(s) \cup {x}
<1>1. 1 .. Len(s) + 1 = (1 .. Len(s)) \cup {Len(s) + 1}
  BY Added
<1> QED
  BY <1>1, Added DEF Entries

LEMMA EntriesIn ==
  ASSUME NEW S, NEW s \in Seq(S)
  PROVE  Entries(s) \subseteq S
BY DEF Entries

LEMMA NoEntries == Entries(<<>>) = {}
BY DEF Entries

(* A process past its start has a run id, and telemetry from somewhere. *)
LEMMA Running ==
  ASSUME Lineage, NEW p \in Procs, pc[p] \notin {"idle", "over"}
  PROVE  id[p] \in Ids /\ origin[p] \in Procs
BY Zenon DEF Lineage

LEMMA TypeStep ==
  ASSUME TypeOK, Lineage, [Next]_vars PROVE TypeOK'
<1> USE RunStoreAssumption DEF Goto, result, files, index, TypeOK, Places,
             Updating, Finished, Contents, Unreadable, Overwritten
<1>1. ASSUME Tick PROVE TypeOK'
  BY <1>1 DEF Tick, Ids
<1>2. ASSUME NEW p \in Procs, StartRun(p) PROVE TypeOK'
  BY <1>2 DEF StartRun
<1>3. ASSUME NEW p \in Procs, CaptureNothing(p) PROVE TypeOK'
  BY <1>3 DEF CaptureNothing
<1>4. ASSUME NEW p \in Procs, CaptureOpen(p) PROVE TypeOK'
  <2>1. id[p] \in Ids
    BY <1>4, Running DEF CaptureOpen
  <2> QED
    BY <1>4, <2>1 DEF CaptureOpen
<1>5. ASSUME NEW p \in Procs, CaptureFlush(p) PROVE TypeOK'
  <2>1. id[p] \in Ids
    BY <1>5, Running DEF CaptureFlush
  <2> QED
    BY <1>5, <2>1 DEF CaptureFlush
<1>6. ASSUME NEW p \in Procs, ReportElsewhere(p) PROVE TypeOK'
  BY <1>6 DEF ReportElsewhere
<1>7. ASSUME NEW p \in Procs, ReportOpen(p) PROVE TypeOK'
  <2>1. id[p] \in Ids
    BY <1>7, Running DEF ReportOpen
  <2> QED
    BY <1>7, <2>1 DEF ReportOpen
<1>8. ASSUME NEW p \in Procs, ReportWrite(p) PROVE TypeOK'
  <2>1. id[p] \in Ids
    BY <1>8, Running DEF ReportWrite
  <2> QED
    BY <1>8, <2>1 DEF ReportWrite
<1>9. ASSUME NEW p \in Procs, HistoryRead(p) PROVE TypeOK'
  BY <1>9 DEF HistoryRead
<1>10. ASSUME NEW p \in Procs, HistoryTruncate(p) PROVE TypeOK'
  BY <1>10 DEF HistoryTruncate
<1>11. ASSUME NEW p \in Procs, HistoryWrite(p) PROVE TypeOK'
  <2>1. Append(read[p], p) \in Seq(Procs) /\ <<>> \in Seq(Procs)
    BY Added
  <2> QED
    BY <1>11, <2>1 DEF HistoryWrite
<1>12. ASSUME NEW p \in Procs, SnapshotTruncate(p) PROVE TypeOK'
  BY <1>12 DEF SnapshotTruncate
<1>13. ASSUME NEW p \in Procs, SnapshotWrite(p) PROVE TypeOK'
  BY <1>13 DEF SnapshotWrite
<1>14. ASSUME NEW p \in Procs, Stop(p) PROVE TypeOK'
  <2>1. /\ LeftBehind(p)
        /\ stops' \in Nat
        /\ UNCHANGED <<clock, id, origin, synthetic, inconclusive, latest>>
    BY <1>14 DEF Stop
  <2>2. id[p] \in Ids
    BY <1>14, Running DEF Stop
  <2>3. disturbed' \in BOOLEAN
    BY <1>14, Zenon DEF Stop
  <2>4. pc' \in [Procs -> Places] /\ dirs' \in SUBSET Ids
    BY <2>1, <2>2 DEF LeftBehind
  <2>5. dataset' \in [Ids -> Contents] /\ coverage' \in [Ids -> Contents]
    BY <2>1, <2>2 DEF LeftBehind
  <2>6. /\ history' \in Seq(Procs)
        /\ indexFile' \in {"absent", "whole"} \cup Unreadable
        /\ snapshot' \in Contents
        /\ read' \in [Procs -> Seq(Procs)]
    <3>1. <<>> \in Seq(Procs)
      OBVIOUS
    <3> QED
      BY <2>1, <3>1 DEF LeftBehind
  <2> QED
    BY <2>1, <2>3, <2>4, <2>5, <2>6
<1>15. ASSUME NEW p \in Procs, NEW i \in Ids, StartReplay(p, i) PROVE TypeOK'
  BY <1>15 DEF StartReplay
<1>16. ASSUME NEW p \in Procs, NEW i \in Ids, ReplayFails(p, i) PROVE TypeOK'
  BY <1>16 DEF ReplayFails
<1>17. ASSUME ServeLatest PROVE TypeOK'
  BY <1>17 DEF ServeLatest
<1>18. ASSUME UNCHANGED vars PROVE TypeOK'
  BY <1>18 DEF vars
<1> QED
  BY <1>1, <1>2, <1>3, <1>4, <1>5, <1>6, <1>7, <1>8, <1>9, <1>10, <1>11,
     <1>12, <1>13, <1>14, <1>15, <1>16, <1>17, <1>18 DEF Next, Step

LEMMA LineageStep ==
  ASSUME TypeOK, Lineage, [Next]_vars
  PROVE  Lineage'
<1> USE RunStoreAssumption DEF Goto, result, files, index, Lineage, TypeOK,
             Contents, Unreadable, Overwritten
<1>1. ASSUME Tick PROVE Lineage'
  BY <1>1 DEF Tick
<1>2. ASSUME NEW p \in Procs, StartRun(p) PROVE Lineage'
  BY <1>2 DEF StartRun
<1>3. ASSUME NEW p \in Procs, CaptureNothing(p) PROVE Lineage'
  BY <1>3 DEF CaptureNothing
<1>4. ASSUME NEW p \in Procs, CaptureOpen(p) PROVE Lineage'
  BY <1>4 DEF CaptureOpen
<1>5. ASSUME NEW p \in Procs, CaptureFlush(p) PROVE Lineage'
  BY <1>5 DEF CaptureFlush
<1>6. ASSUME NEW p \in Procs, ReportElsewhere(p) PROVE Lineage'
  BY <1>6 DEF ReportElsewhere
<1>7. ASSUME NEW p \in Procs, ReportOpen(p) PROVE Lineage'
  BY <1>7 DEF ReportOpen
<1>8. ASSUME NEW p \in Procs, ReportWrite(p) PROVE Lineage'
  BY <1>8 DEF ReportWrite
<1>9. ASSUME NEW p \in Procs, HistoryRead(p) PROVE Lineage'
  BY <1>9 DEF HistoryRead
<1>10. ASSUME NEW p \in Procs, HistoryTruncate(p) PROVE Lineage'
  BY <1>10 DEF HistoryTruncate
<1>11. ASSUME NEW p \in Procs, HistoryWrite(p) PROVE Lineage'
  BY <1>11 DEF HistoryWrite
<1>12. ASSUME NEW p \in Procs, SnapshotTruncate(p) PROVE Lineage'
  BY <1>12 DEF SnapshotTruncate
<1>13. ASSUME NEW p \in Procs, SnapshotWrite(p) PROVE Lineage'
  BY <1>13 DEF SnapshotWrite
<1>14. ASSUME NEW p \in Procs, Stop(p) PROVE Lineage'
  <2>1. /\ LeftBehind(p)
        /\ pc[p] \notin {"idle", "done", "over"}
        /\ UNCHANGED <<clock, id, origin, synthetic, inconclusive, latest>>
    BY <1>14 DEF Stop, Finished
  <2>2. id[p] \in Ids
    BY <2>1, Running
  <2>3. /\ pc'[p] \in {"over", "report"}
        /\ \A q \in Procs : q # p => pc'[q] = pc[q]
    BY <2>1 DEF LeftBehind
  <2>4. \A i \in Ids : dataset'[i] = dataset[i] \/ dataset'[i] = "torn"
    BY <2>1, <2>2 DEF LeftBehind
  <2>5. \A q \in Procs : /\ (pc'[q] = "idle") = (pc[q] = "idle")
                         /\ pc'[q] # "over" => pc[q] # "over"
                         /\ pc'[q] = "captureFlush" => pc[q] = "captureFlush"
    BY <2>1, <2>3
  <2> QED
    BY <2>1, <2>4, <2>5
<1>15. ASSUME NEW p \in Procs, NEW i \in Ids, StartReplay(p, i) PROVE Lineage'
  BY <1>15 DEF StartReplay
<1>16. ASSUME NEW p \in Procs, NEW i \in Ids, ReplayFails(p, i) PROVE Lineage'
  BY <1>16 DEF ReplayFails
<1>17. ASSUME ServeLatest PROVE Lineage'
  BY <1>17 DEF ServeLatest
<1>18. ASSUME UNCHANGED vars PROVE Lineage'
  BY <1>18 DEF vars
<1> QED
  BY <1>1, <1>2, <1>3, <1>4, <1>5, <1>6, <1>7, <1>8, <1>9,
     <1>10, <1>11, <1>12, <1>13, <1>14, <1>15, <1>16, <1>17, <1>18
     DEF Next, Step

(* A run that has reported stays reported. *)
LEMMA ReportedStep ==
  ASSUME TypeOK, Lineage, NEW r \in Procs, Reported(r), [Next]_vars
  PROVE  Reported(r)'
<1> USE RunStoreAssumption DEF Goto, result, files, index, TypeOK, Reported,
             Updating, Finished
<1>1. ASSUME Tick PROVE Reported(r)'
  BY <1>1 DEF Tick
<1>2. ASSUME NEW p \in Procs, StartRun(p) PROVE Reported(r)'
  BY <1>2 DEF StartRun, Ids
<1>3. ASSUME NEW p \in Procs, CaptureNothing(p) PROVE Reported(r)'
  BY <1>3 DEF CaptureNothing
<1>4. ASSUME NEW p \in Procs, CaptureOpen(p) PROVE Reported(r)'
  BY <1>4 DEF CaptureOpen
<1>5. ASSUME NEW p \in Procs, CaptureFlush(p) PROVE Reported(r)'
  BY <1>5 DEF CaptureFlush
<1>6. ASSUME NEW p \in Procs, ReportElsewhere(p) PROVE Reported(r)'
  BY <1>6 DEF ReportElsewhere
<1>7. ASSUME NEW p \in Procs, ReportOpen(p) PROVE Reported(r)'
  BY <1>7 DEF ReportOpen
<1>8. ASSUME NEW p \in Procs, ReportWrite(p) PROVE Reported(r)'
  BY <1>8 DEF ReportWrite
<1>9. ASSUME NEW p \in Procs, HistoryRead(p) PROVE Reported(r)'
  BY <1>9 DEF HistoryRead
<1>10. ASSUME NEW p \in Procs, HistoryTruncate(p) PROVE Reported(r)'
  BY <1>10 DEF HistoryTruncate
<1>11. ASSUME NEW p \in Procs, HistoryWrite(p) PROVE Reported(r)'
  BY <1>11 DEF HistoryWrite
<1>12. ASSUME NEW p \in Procs, SnapshotTruncate(p) PROVE Reported(r)'
  BY <1>12 DEF SnapshotTruncate
<1>13. ASSUME NEW p \in Procs, SnapshotWrite(p) PROVE Reported(r)'
  BY <1>13 DEF SnapshotWrite
<1>14. ASSUME NEW p \in Procs, Stop(p) PROVE Reported(r)'
  <2>1. /\ LeftBehind(p)
        /\ pc[p] \notin {"idle", "done", "over"}
        /\ UNCHANGED <<clock, id, origin, synthetic, inconclusive, latest>>
    BY <1>14 DEF Stop, Finished
  <2>2. id[p] \in Ids
    BY <2>1, Running
  <2>3. pc'[r] = pc[r] \/ pc'[r] = "over"
    BY <2>1 DEF LeftBehind
  <2> QED
    BY <2>1, <2>3
<1>15. ASSUME NEW p \in Procs, NEW i \in Ids, StartReplay(p, i) PROVE Reported(r)'
  BY <1>15 DEF StartReplay
<1>16. ASSUME NEW p \in Procs, NEW i \in Ids, ReplayFails(p, i) PROVE Reported(r)'
  BY <1>16 DEF ReplayFails
<1>17. ASSUME ServeLatest PROVE Reported(r)'
  BY <1>17 DEF ServeLatest
<1>18. ASSUME UNCHANGED vars PROVE Reported(r)'
  BY <1>18 DEF vars
<1> QED
  BY <1>1, <1>2, <1>3, <1>4, <1>5, <1>6, <1>7, <1>8, <1>9,
     <1>10, <1>11, <1>12, <1>13, <1>14, <1>15, <1>16, <1>17, <1>18
     DEF Next, Step

(* A run that has opened or written its coverage finds it as it left it, or
   comes to share its id. *)
LEMMA HoldsStep ==
  ASSUME TypeOK, Lineage, NEW r \in Procs, id[r] \in Ids,
         pc[r] \in {"coverageWrite", "history"} \cup Updating \cup Finished,
         pc[r] = "coverageWrite" => pc'[r] = "coverageWrite",
         NEW c, Holds(r, c), [Next]_vars
  PROVE  Holds(r, c)'
<1> USE RunStoreAssumption DEF Goto, result, files, index, TypeOK, Holds,
        Shared,
             Updating, Finished
<1>1. ASSUME Tick PROVE Holds(r, c)'
  BY <1>1 DEF Tick
<1>2. ASSUME NEW p \in Procs, StartRun(p) PROVE Holds(r, c)'
  <2>1. p # r /\ id'[r] = id[r] /\ coverage' = coverage
    BY <1>2 DEF StartRun
  <2>2. ASSUME NEW q \in Procs \ {r}, id[q] = id[r]
        PROVE  id'[q] = id'[r]
    BY <1>2, <2>1, <2>2 DEF StartRun, Lineage, Ids
  <2> QED
    BY <2>1, <2>2
<1>3. ASSUME NEW p \in Procs, CaptureNothing(p) PROVE Holds(r, c)'
  BY <1>3 DEF CaptureNothing
<1>4. ASSUME NEW p \in Procs, CaptureOpen(p) PROVE Holds(r, c)'
  BY <1>4 DEF CaptureOpen
<1>5. ASSUME NEW p \in Procs, CaptureFlush(p) PROVE Holds(r, c)'
  BY <1>5 DEF CaptureFlush
<1>6. ASSUME NEW p \in Procs, ReportElsewhere(p) PROVE Holds(r, c)'
  BY <1>6 DEF ReportElsewhere
<1>7. ASSUME NEW p \in Procs, ReportOpen(p) PROVE Holds(r, c)'
  <2>1. p # r /\ id' = id /\ id[p] \in Ids
    BY <1>7, Running DEF ReportOpen
  <2>2. CASE id[p] = id[r]
    BY <2>1, <2>2
  <2>3. CASE id[p] # id[r]
    BY <1>7, <2>1, <2>3 DEF ReportOpen
  <2> QED
    BY <2>2, <2>3
<1>8. ASSUME NEW p \in Procs, ReportWrite(p) PROVE Holds(r, c)'
  <2>1. p # r /\ id' = id /\ id[p] \in Ids
    BY <1>8, Running DEF ReportWrite
  <2>2. CASE id[p] = id[r]
    BY <2>1, <2>2
  <2>3. CASE id[p] # id[r]
    BY <1>8, <2>1, <2>3 DEF ReportWrite
  <2> QED
    BY <2>2, <2>3
<1>9. ASSUME NEW p \in Procs, HistoryRead(p) PROVE Holds(r, c)'
  BY <1>9 DEF HistoryRead
<1>10. ASSUME NEW p \in Procs, HistoryTruncate(p) PROVE Holds(r, c)'
  BY <1>10 DEF HistoryTruncate
<1>11. ASSUME NEW p \in Procs, HistoryWrite(p) PROVE Holds(r, c)'
  BY <1>11 DEF HistoryWrite
<1>12. ASSUME NEW p \in Procs, SnapshotTruncate(p) PROVE Holds(r, c)'
  BY <1>12 DEF SnapshotTruncate
<1>13. ASSUME NEW p \in Procs, SnapshotWrite(p) PROVE Holds(r, c)'
  BY <1>13 DEF SnapshotWrite
<1>14. ASSUME NEW p \in Procs, Stop(p) PROVE Holds(r, c)'
  <2>1. /\ LeftBehind(p)
        /\ pc[p] \notin {"idle", "done", "over"}
        /\ UNCHANGED <<clock, id, origin, synthetic, inconclusive, latest>>
    BY <1>14 DEF Stop, Finished
  <2>2. id[p] \in Ids
    BY <2>1, Running
  <2>3. coverage'[id[r]] = coverage[id[r]] \/ (id[p] = id[r] /\ p # r)
    BY <2>1, <2>2 DEF LeftBehind
  <2> QED
    BY <2>1, <2>3
<1>15. ASSUME NEW p \in Procs, NEW i \in Ids, StartReplay(p, i) PROVE Holds(r, c)'
  <2>1. p # r /\ id'[r] = id[r] /\ coverage' = coverage
    BY <1>15 DEF StartReplay
  <2>2. ASSUME NEW q \in Procs \ {r}, id[q] = id[r]
        PROVE  id'[q] = id'[r]
    BY <1>15, <2>1, <2>2 DEF StartReplay, Lineage, Ids
  <2> QED
    BY <2>1, <2>2
<1>16. ASSUME NEW p \in Procs, NEW i \in Ids, ReplayFails(p, i) PROVE Holds(r, c)'
  BY <1>16 DEF ReplayFails
<1>17. ASSUME ServeLatest PROVE Holds(r, c)'
  BY <1>17 DEF ServeLatest
<1>18. ASSUME UNCHANGED vars PROVE Holds(r, c)'
  BY <1>18 DEF vars
<1> QED
  BY <1>1, <1>2, <1>3, <1>4, <1>5, <1>6, <1>7, <1>8, <1>9,
     <1>10, <1>11, <1>12, <1>13, <1>14, <1>15, <1>16, <1>17, <1>18
     DEF Next, Step

(* Only reported runs ever enter the index or the snapshot. *)
LEMMA PublicationStep ==
  ASSUME TypeOK, Lineage, Publication, [Next]_vars
  PROVE  Publication'
<1> USE RunStoreAssumption DEF Goto, result, files, index, TypeOK, Publication,
             Updating
<1>a. \A r \in Entries(history) : Reported(r)'
  BY ReportedStep, EntriesIn
<1>b. \A q \in Procs : \A r \in Entries(read[q]) : Reported(r)'
  BY ReportedStep, EntriesIn
<1>c. \A r \in Procs : r = snapshot => Reported(r)'
  BY ReportedStep
<1>d. \A q \in Procs : pc[q] = "idle" => q \notin synthetic \cup inconclusive
  BY DEF Lineage
<1>1. ASSUME Tick PROVE Publication'
  BY <1>1, <1>a, <1>b, <1>c, <1>d DEF Tick
<1>2. ASSUME NEW p \in Procs, StartRun(p) PROVE Publication'
  BY <1>2, <1>a, <1>b, <1>c, <1>d DEF StartRun
<1>3. ASSUME NEW p \in Procs, CaptureNothing(p) PROVE Publication'
  BY <1>3, <1>a, <1>b, <1>c, <1>d DEF CaptureNothing
<1>4. ASSUME NEW p \in Procs, CaptureOpen(p) PROVE Publication'
  BY <1>4, <1>a, <1>b, <1>c, <1>d DEF CaptureOpen
<1>5. ASSUME NEW p \in Procs, CaptureFlush(p) PROVE Publication'
  BY <1>5, <1>a, <1>b, <1>c, <1>d DEF CaptureFlush
<1>6. ASSUME NEW p \in Procs, ReportElsewhere(p) PROVE Publication'
  BY <1>6, <1>a, <1>b, <1>c, <1>d DEF ReportElsewhere
<1>7. ASSUME NEW p \in Procs, ReportOpen(p) PROVE Publication'
  BY <1>7, <1>a, <1>b, <1>c, <1>d DEF ReportOpen
<1>8. ASSUME NEW p \in Procs, ReportWrite(p) PROVE Publication'
  BY <1>8, <1>a, <1>b, <1>c, <1>d DEF ReportWrite
<1>9. ASSUME NEW p \in Procs, HistoryRead(p) PROVE Publication'
  <2>1. \A r \in Entries(read'[p]) : Reported(r)'
    BY <1>9, <1>a, NoEntries DEF HistoryRead
  <2>2. \A q \in Procs : q # p => read'[q] = read[q]
    BY <1>9 DEF HistoryRead
  <2> QED
    BY <1>9, <1>a, <1>b, <1>c, <1>d, <2>1, <2>2 DEF HistoryRead
<1>10. ASSUME NEW p \in Procs, HistoryTruncate(p) PROVE Publication'
  BY <1>10, <1>b, <1>c, <1>d, NoEntries DEF HistoryTruncate
<1>11. ASSUME NEW p \in Procs, HistoryWrite(p) PROVE Publication'
  <2>1. Reported(p)'
    BY <1>11, Running DEF HistoryWrite, Reported
  <2>2. \A r \in Entries(history') : Reported(r)'
    <3>1. Entries(Append(read[p], p)) = Entries(read[p]) \cup {p}
      BY AddedEntries
    <3>2. history' = Append(read[p], p) \/ history' = <<>>
      BY <1>11, Zenon DEF HistoryWrite
    <3>3. \A r \in Entries(read[p]) \cup {p} : Reported(r)'
      BY <1>b, <2>1
    <3>4. CASE history' = <<>>
      BY <3>4, NoEntries
    <3>5. CASE history' = Append(read[p], p)
      BY <3>1, <3>3, <3>5
    <3> QED
      BY <3>2, <3>4, <3>5
  <2>3. \A q \in Procs : read'[q] \in {read[q], <<>>}
    BY <1>11 DEF HistoryWrite
  <2> QED
    BY <1>11, <1>b, <1>c, <1>d, <2>2, <2>3, NoEntries DEF HistoryWrite
<1>12. ASSUME NEW p \in Procs, SnapshotTruncate(p) PROVE Publication'
  BY <1>12, <1>a, <1>b, <1>c, <1>d DEF SnapshotTruncate
<1>13. ASSUME NEW p \in Procs, SnapshotWrite(p) PROVE Publication'
  <2>1. Reported(p)'
    BY <1>13, Running DEF SnapshotWrite, Reported, Finished
  <2> QED
    BY <1>13, <1>a, <1>b, <1>d, <2>1 DEF SnapshotWrite, Overwritten
<1>14. ASSUME NEW p \in Procs, Stop(p) PROVE Publication'
  <2>1. /\ LeftBehind(p)
        /\ pc[p] \notin {"idle", "done", "over"}
        /\ UNCHANGED <<clock, id, origin, synthetic, inconclusive, latest>>
    BY <1>14 DEF Stop, Finished
  <2>2. id[p] \in Ids
    BY <2>1, Running
  <2>3. /\ pc'[p] \in {"over", "report"}
        /\ \A q \in Procs : q # p => pc'[q] = pc[q]
    BY <2>1 DEF LeftBehind
  <2>4. history' \in {history, <<>>} /\ snapshot' \in {snapshot, "torn"}
    BY <2>1 DEF LeftBehind
  <2>5. \A q \in Procs : read'[q] \in {read[q], <<>>}
    BY <2>1 DEF LeftBehind
  <2> QED
    BY <1>a, <1>b, <1>c, <2>1, <2>3, <2>4, <2>5, NoEntries
<1>15. ASSUME NEW p \in Procs, NEW i \in Ids, StartReplay(p, i) PROVE Publication'
  BY <1>15, <1>a, <1>b, <1>c, <1>d DEF StartReplay
<1>16. ASSUME NEW p \in Procs, NEW i \in Ids, ReplayFails(p, i) PROVE Publication'
  BY <1>16, <1>a, <1>b, <1>c, <1>d DEF ReplayFails
<1>17. ASSUME ServeLatest PROVE Publication'
  BY <1>17, <1>a, <1>b, <1>c, <1>d DEF ServeLatest
<1>18. ASSUME UNCHANGED vars PROVE Publication'
  BY <1>18, <1>a, <1>b, <1>c, <1>d DEF vars
<1> QED
  BY <1>1, <1>2, <1>3, <1>4, <1>5, <1>6, <1>7, <1>8, <1>9,
     <1>10, <1>11, <1>12, <1>13, <1>14, <1>15, <1>16, <1>17, <1>18
     DEF Next, Step

(* What is indexed is backed. *)
LEMMA BackingStep ==
  ASSUME TypeOK, Lineage, Publication, Backing, [Next]_vars
  PROVE  Backing'
<1> USE RunStoreAssumption DEF Goto, result, files, index, TypeOK, Backing,
        Backed,
             Updating
<1>r. ASSUME NEW r \in Procs, Reported(r), Holds(r, r) PROVE Holds(r, r)'
  <2>1. pc[r] \in Updating \cup Finished /\ id[r] \in Ids
    BY <1>r DEF Reported
  <2>2. pc[r] # "coverageWrite"
    BY <2>1 DEF Finished
  <2> QED
    BY HoldsStep, <1>r, <2>1, <2>2
<1>a. \A r \in Entries(history) : Holds(r, r)'
  BY <1>r, EntriesIn DEF Publication
<1>b. \A q \in Procs : \A r \in Entries(read[q]) : Holds(r, r)'
  BY <1>r, EntriesIn DEF Publication
<1>c. \A r \in Procs : pc[r] \in {"history"} \cup Updating => Holds(r, r)'
  BY HoldsStep, Running
<1>d. \A r \in Procs : pc[r] = "coverageWrite" /\ pc'[r] = "coverageWrite" =>
        Holds(r, "empty")'
  BY HoldsStep, Running
<1>1. ASSUME Tick PROVE Backing'
  BY <1>1, <1>a, <1>b, <1>c, <1>d DEF Tick
<1>2. ASSUME NEW p \in Procs, StartRun(p) PROVE Backing'
  BY <1>2, <1>a, <1>b, <1>c, <1>d DEF StartRun
<1>3. ASSUME NEW p \in Procs, CaptureNothing(p) PROVE Backing'
  BY <1>3, <1>a, <1>b, <1>c, <1>d DEF CaptureNothing
<1>4. ASSUME NEW p \in Procs, CaptureOpen(p) PROVE Backing'
  BY <1>4, <1>a, <1>b, <1>c, <1>d DEF CaptureOpen
<1>5. ASSUME NEW p \in Procs, CaptureFlush(p) PROVE Backing'
  BY <1>5, <1>a, <1>b, <1>c, <1>d DEF CaptureFlush
<1>6. ASSUME NEW p \in Procs, ReportElsewhere(p) PROVE Backing'
  BY <1>6, <1>a, <1>b, <1>c, <1>d DEF ReportElsewhere
<1>7. ASSUME NEW p \in Procs, ReportOpen(p) PROVE Backing'
  <2>1. id[p] \in Ids
    BY <1>7, Running DEF ReportOpen
  <2>2. Holds(p, "empty")'
    BY <1>7, <2>1 DEF ReportOpen, Holds
  <2> QED
    BY <1>7, <1>a, <1>b, <1>c, <1>d, <2>2 DEF ReportOpen
<1>8. ASSUME NEW p \in Procs, ReportWrite(p) PROVE Backing'
  <2>1. id[p] \in Ids
    BY <1>8, Running DEF ReportWrite
  <2>2. Holds(p, p)'
    BY <1>8, <2>1 DEF ReportWrite, Holds, Shared, Overwritten
  <2> QED
    BY <1>8, <1>a, <1>b, <1>c, <1>d, <2>2 DEF ReportWrite
<1>9. ASSUME NEW p \in Procs, HistoryRead(p) PROVE Backing'
  <2>1. \A r \in Entries(read'[p]) : Holds(r, r)'
    BY <1>9, <1>a, NoEntries DEF HistoryRead
  <2>2. \A q \in Procs : q # p => read'[q] = read[q]
    BY <1>9 DEF HistoryRead
  <2> QED
    BY <1>9, <1>a, <1>b, <1>c, <1>d, <2>1, <2>2 DEF HistoryRead
<1>10. ASSUME NEW p \in Procs, HistoryTruncate(p) PROVE Backing'
  BY <1>10, <1>b, <1>c, <1>d, NoEntries DEF HistoryTruncate
<1>11. ASSUME NEW p \in Procs, HistoryWrite(p) PROVE Backing'
  <2>1. Holds(p, p)'
    BY <1>11, <1>c DEF HistoryWrite
  <2>2. \A r \in Entries(history') : Holds(r, r)'
    <3>1. Entries(Append(read[p], p)) = Entries(read[p]) \cup {p}
      BY AddedEntries
    <3>2. history' = Append(read[p], p) \/ history' = <<>>
      BY <1>11, Zenon DEF HistoryWrite
    <3>3. \A r \in Entries(read[p]) \cup {p} : Holds(r, r)'
      BY <1>b, <2>1
    <3>4. CASE history' = <<>>
      BY <3>4, NoEntries
    <3>5. CASE history' = Append(read[p], p)
      BY <3>1, <3>3, <3>5
    <3> QED
      BY <3>2, <3>4, <3>5
  <2>3. \A q \in Procs : read'[q] \in {read[q], <<>>}
    BY <1>11 DEF HistoryWrite
  <2> QED
    BY <1>11, <1>b, <1>c, <1>d, <2>2, <2>3, NoEntries DEF HistoryWrite
<1>12. ASSUME NEW p \in Procs, SnapshotTruncate(p) PROVE Backing'
  BY <1>12, <1>a, <1>b, <1>c, <1>d DEF SnapshotTruncate
<1>13. ASSUME NEW p \in Procs, SnapshotWrite(p) PROVE Backing'
  BY <1>13, <1>a, <1>b, <1>c, <1>d DEF SnapshotWrite
<1>14. ASSUME NEW p \in Procs, Stop(p) PROVE Backing'
  <2>1. /\ LeftBehind(p)
        /\ pc[p] \notin {"idle", "done", "over"}
        /\ UNCHANGED <<clock, id, origin, synthetic, inconclusive, latest>>
    BY <1>14 DEF Stop, Finished
  <2>2. id[p] \in Ids
    BY <2>1, Running
  <2>3. /\ pc'[p] \in {"over", "report"}
        /\ \A q \in Procs : q # p => pc'[q] = pc[q]
    BY <2>1 DEF LeftBehind
  <2>4. history' \in {history, <<>>}
    BY <2>1 DEF LeftBehind
  <2>5. \A q \in Procs : read'[q] \in {read[q], <<>>}
    BY <2>1 DEF LeftBehind
  <2> QED
    BY <1>a, <1>b, <1>c, <1>d, <2>1, <2>3, <2>4, <2>5, NoEntries
<1>15. ASSUME NEW p \in Procs, NEW i \in Ids, StartReplay(p, i) PROVE Backing'
  BY <1>15, <1>a, <1>b, <1>c, <1>d DEF StartReplay
<1>16. ASSUME NEW p \in Procs, NEW i \in Ids, ReplayFails(p, i) PROVE Backing'
  BY <1>16, <1>a, <1>b, <1>c, <1>d DEF ReplayFails
<1>17. ASSUME ServeLatest PROVE Backing'
  BY <1>17, <1>a, <1>b, <1>c, <1>d DEF ServeLatest
<1>18. ASSUME UNCHANGED vars PROVE Backing'
  BY <1>18, <1>a, <1>b, <1>c, <1>d DEF vars
<1> QED
  BY <1>1, <1>2, <1>3, <1>4, <1>5, <1>6, <1>7, <1>8, <1>9,
     <1>10, <1>11, <1>12, <1>13, <1>14, <1>15, <1>16, <1>17, <1>18
     DEF Next, Step

LEMMA ReadableStep ==
  ASSUME TypeOK, Readable, [Next]_vars
  PROVE  Readable'
<1> USE RunStoreAssumption DEF Goto, result, files, index, TypeOK, Readable
<1>1. ASSUME Tick PROVE Readable'
  BY <1>1 DEF Tick
<1>2. ASSUME NEW p \in Procs, StartRun(p) PROVE Readable'
  BY <1>2 DEF StartRun
<1>3. ASSUME NEW p \in Procs, CaptureNothing(p) PROVE Readable'
  BY <1>3 DEF CaptureNothing
<1>4. ASSUME NEW p \in Procs, CaptureOpen(p) PROVE Readable'
  BY <1>4 DEF CaptureOpen
<1>5. ASSUME NEW p \in Procs, CaptureFlush(p) PROVE Readable'
  BY <1>5 DEF CaptureFlush
<1>6. ASSUME NEW p \in Procs, ReportElsewhere(p) PROVE Readable'
  BY <1>6 DEF ReportElsewhere
<1>7. ASSUME NEW p \in Procs, ReportOpen(p) PROVE Readable'
  BY <1>7 DEF ReportOpen
<1>8. ASSUME NEW p \in Procs, ReportWrite(p) PROVE Readable'
  BY <1>8 DEF ReportWrite
<1>9. ASSUME NEW p \in Procs, HistoryRead(p) PROVE Readable'
  BY <1>9 DEF HistoryRead
<1>10. ASSUME NEW p \in Procs, HistoryTruncate(p) PROVE Readable'
  BY <1>10 DEF HistoryTruncate
<1>11. ASSUME NEW p \in Procs, HistoryWrite(p) PROVE Readable'
  BY <1>11 DEF HistoryWrite
<1>12. ASSUME NEW p \in Procs, SnapshotTruncate(p) PROVE Readable'
  BY <1>12 DEF SnapshotTruncate
<1>13. ASSUME NEW p \in Procs, SnapshotWrite(p) PROVE Readable'
  BY <1>13 DEF SnapshotWrite
<1>14. ASSUME NEW p \in Procs, Stop(p) PROVE Readable'
  <2>1. LeftBehind(p)
    BY <1>14 DEF Stop
  <2> QED
    BY <2>1 DEF LeftBehind
<1>15. ASSUME NEW p \in Procs, NEW i \in Ids, StartReplay(p, i) PROVE Readable'
  BY <1>15 DEF StartReplay
<1>16. ASSUME NEW p \in Procs, NEW i \in Ids, ReplayFails(p, i) PROVE Readable'
  BY <1>16 DEF ReplayFails
<1>17. ASSUME ServeLatest PROVE Readable'
  BY <1>17 DEF ServeLatest
<1>18. ASSUME UNCHANGED vars PROVE Readable'
  BY <1>18 DEF vars
<1> QED
  BY <1>1, <1>2, <1>3, <1>4, <1>5, <1>6, <1>7, <1>8, <1>9,
     <1>10, <1>11, <1>12, <1>13, <1>14, <1>15, <1>16, <1>17, <1>18
     DEF Next, Step

(* What is disturbed stays disturbed. *)
LEMMA DisturbedStep ==
  ASSUME disturbed, [Next]_vars
  PROVE  disturbed'
<1> USE DEF Goto, result, files, index
<1>1. ASSUME Tick PROVE disturbed'
  BY <1>1 DEF Tick
<1>2. ASSUME NEW p \in Procs, StartRun(p) PROVE disturbed'
  BY <1>2 DEF StartRun
<1>3. ASSUME NEW p \in Procs, CaptureNothing(p) PROVE disturbed'
  BY <1>3 DEF CaptureNothing
<1>4. ASSUME NEW p \in Procs, CaptureOpen(p) PROVE disturbed'
  BY <1>4 DEF CaptureOpen
<1>5. ASSUME NEW p \in Procs, CaptureFlush(p) PROVE disturbed'
  BY <1>5 DEF CaptureFlush
<1>6. ASSUME NEW p \in Procs, ReportElsewhere(p) PROVE disturbed'
  BY <1>6 DEF ReportElsewhere
<1>7. ASSUME NEW p \in Procs, ReportOpen(p) PROVE disturbed'
  BY <1>7 DEF ReportOpen
<1>8. ASSUME NEW p \in Procs, ReportWrite(p) PROVE disturbed'
  BY <1>8 DEF ReportWrite
<1>9. ASSUME NEW p \in Procs, HistoryRead(p) PROVE disturbed'
  BY <1>9, Zenon DEF HistoryRead
<1>10. ASSUME NEW p \in Procs, HistoryTruncate(p) PROVE disturbed'
  BY <1>10 DEF HistoryTruncate
<1>11. ASSUME NEW p \in Procs, HistoryWrite(p) PROVE disturbed'
  BY <1>11 DEF HistoryWrite
<1>12. ASSUME NEW p \in Procs, SnapshotTruncate(p) PROVE disturbed'
  BY <1>12 DEF SnapshotTruncate
<1>13. ASSUME NEW p \in Procs, SnapshotWrite(p) PROVE disturbed'
  BY <1>13 DEF SnapshotWrite
<1>14. ASSUME NEW p \in Procs, Stop(p) PROVE disturbed'
  BY <1>14, Zenon DEF Stop
<1>15. ASSUME NEW p \in Procs, NEW i \in Ids, StartReplay(p, i) PROVE disturbed'
  BY <1>15 DEF StartReplay
<1>16. ASSUME NEW p \in Procs, NEW i \in Ids, ReplayFails(p, i) PROVE disturbed'
  BY <1>16 DEF ReplayFails
<1>17. ASSUME ServeLatest PROVE disturbed'
  BY <1>17 DEF ServeLatest
<1>18. ASSUME UNCHANGED vars PROVE disturbed'
  BY <1>18 DEF vars
<1> QED
  BY <1>1, <1>2, <1>3, <1>4, <1>5, <1>6, <1>7, <1>8, <1>9,
     <1>10, <1>11, <1>12, <1>13, <1>14, <1>15, <1>16, <1>17, <1>18
     DEF Next, Step

(* A run joins the indexed ones by writing the index, and leaves them by
   stopping before it is published. *)
LEMMA IndexedStep ==
  ASSUME TypeOK, Lineage, Publication, ~disturbed', NEW r \in Procs, [Next]_vars
  PROVE  Joins(r)
<1> USE RunStoreAssumption DEF Goto, result, files, index, TypeOK, Joins,
        Indexed, Updating
<1>1. ASSUME Tick PROVE Joins(r)
  BY <1>1 DEF Tick
<1>2. ASSUME NEW p \in Procs, StartRun(p) PROVE Joins(r)
  BY <1>2 DEF StartRun, Lineage
<1>3. ASSUME NEW p \in Procs, CaptureNothing(p) PROVE Joins(r)
  BY <1>3 DEF CaptureNothing
<1>4. ASSUME NEW p \in Procs, CaptureOpen(p) PROVE Joins(r)
  BY <1>4 DEF CaptureOpen
<1>5. ASSUME NEW p \in Procs, CaptureFlush(p) PROVE Joins(r)
  BY <1>5 DEF CaptureFlush
<1>6. ASSUME NEW p \in Procs, ReportElsewhere(p) PROVE Joins(r)
  BY <1>6 DEF ReportElsewhere
<1>7. ASSUME NEW p \in Procs, ReportOpen(p) PROVE Joins(r)
  BY <1>7 DEF ReportOpen
<1>8. ASSUME NEW p \in Procs, ReportWrite(p) PROVE Joins(r)
  BY <1>8 DEF ReportWrite
<1>9. ASSUME NEW p \in Procs, HistoryRead(p) PROVE Joins(r)
  BY <1>9 DEF HistoryRead
<1>10. ASSUME NEW p \in Procs, HistoryTruncate(p) PROVE Joins(r)
  BY <1>10 DEF HistoryTruncate
<1>11. ASSUME NEW p \in Procs, HistoryWrite(p) PROVE Joins(r)
  BY <1>11 DEF HistoryWrite
<1>12. ASSUME NEW p \in Procs, SnapshotTruncate(p) PROVE Joins(r)
  BY <1>12 DEF SnapshotTruncate
<1>13. ASSUME NEW p \in Procs, SnapshotWrite(p) PROVE Joins(r)
  BY <1>13 DEF SnapshotWrite, Publication
<1>14. ASSUME NEW p \in Procs, Stop(p) PROVE Joins(r)
  <2>1. /\ LeftBehind(p)
        /\ pc[p] \notin {"idle", "done", "over"}
        /\ UNCHANGED <<clock, id, origin, synthetic, inconclusive, latest>>
    BY <1>14 DEF Stop, Finished
  <2>2. pc[p] \notin Updating
    BY <1>14, Zenon DEF Stop
  <2>3. /\ pc'[p] \in {"over", "report"}
        /\ \A q \in Procs : q # p => pc'[q] = pc[q]
    BY <2>1 DEF LeftBehind
  <2> QED
    BY <2>1, <2>2, <2>3
<1>15. ASSUME NEW p \in Procs, NEW i \in Ids, StartReplay(p, i) PROVE Joins(r)
  BY <1>15 DEF StartReplay, Lineage
<1>16. ASSUME NEW p \in Procs, NEW i \in Ids, ReplayFails(p, i) PROVE Joins(r)
  BY <1>16 DEF ReplayFails
<1>17. ASSUME ServeLatest PROVE Joins(r)
  BY <1>17 DEF ServeLatest
<1>18. ASSUME UNCHANGED vars PROVE Joins(r)
  BY <1>18 DEF vars
<1> QED
  BY <1>1, <1>2, <1>3, <1>4, <1>5, <1>6, <1>7, <1>8, <1>9,
     <1>10, <1>11, <1>12, <1>13, <1>14, <1>15, <1>16, <1>17, <1>18
     DEF Next, Step

(* Undisturbed, the index misses no run and repeats none. *)
(* Undisturbed, the index misses no run and repeats none. *)
(* Undisturbed, the index misses no run and repeats none. *)
(* Undisturbed, the index misses no run and repeats none. *)
LEMMA SerialStep ==
  ASSUME TypeOK, Lineage, Publication, Readable, Serial, ~disturbed',
         [Next]_vars
  PROVE  Ordered'
<1> USE RunStoreAssumption DEF Goto, result, files, index, TypeOK, Updating
<1> DEFINE Listing(s) == Entries(s) = {r \in Procs : Indexed(r)'} /\ Distinct(s)
<1> HIDE DEF Listing
<1>a. ~disturbed
  BY DisturbedStep
<1>b. Ordered
  BY <1>a DEF Serial
<1>c. \A r \in Procs : Joins(r)
  BY IndexedStep
<1>d. ASSUME NEW s, Complete(s),
             \A r \in Procs : pc[r] # "historyWrite" \/ pc'[r] # "snapshotTruncate"
      PROVE  Listing(s)
  BY <1>c, <1>d DEF Complete, Listing, Joins
<1>e. ASSUME UNCHANGED <<history, indexFile>>,
             \A q \in Procs : pc[q] \in Updating \/ pc'[q] \in Updating =>
                                pc'[q] = pc[q] /\ read'[q] = read[q]
      PROVE  Ordered'
  <2>1. \A s : Complete(s) => Listing(s)
    BY <1>d, <1>e
  <2> QED
    BY <1>b, <1>e, <2>1 DEF Ordered, Complete, Distinct, Listing
<1>1. ASSUME Tick PROVE Ordered'
  BY <1>1, <1>e DEF Tick
<1>2. ASSUME NEW p \in Procs, StartRun(p) PROVE Ordered'
  BY <1>2, <1>e DEF StartRun
<1>3. ASSUME NEW p \in Procs, CaptureNothing(p) PROVE Ordered'
  BY <1>3, <1>e DEF CaptureNothing
<1>4. ASSUME NEW p \in Procs, CaptureOpen(p) PROVE Ordered'
  BY <1>4, <1>e DEF CaptureOpen
<1>5. ASSUME NEW p \in Procs, CaptureFlush(p) PROVE Ordered'
  BY <1>5, <1>e DEF CaptureFlush
<1>6. ASSUME NEW p \in Procs, ReportElsewhere(p) PROVE Ordered'
  BY <1>6, <1>e DEF ReportElsewhere
<1>7. ASSUME NEW p \in Procs, ReportOpen(p) PROVE Ordered'
  BY <1>7, <1>e DEF ReportOpen
<1>8. ASSUME NEW p \in Procs, ReportWrite(p) PROVE Ordered'
  BY <1>8, <1>e DEF ReportWrite
<1>9. ASSUME NEW p \in Procs, HistoryRead(p) PROVE Ordered'
  <2>1. \A q \in Procs : q # p => pc[q] \notin Updating
    BY <1>9, <1>a, Zenon DEF HistoryRead, Others
  <2>2. \A q \in Procs : pc'[q] = IF q = p THEN "historyTruncate" ELSE pc[q]
    BY <1>9 DEF HistoryRead
  <2>3. Complete(history)
    BY <1>9, <1>b, <2>1 DEF Ordered, HistoryRead
  <2>4. read'[p] = history /\ history' = history
    BY <1>9 DEF HistoryRead, Readable
  <2>5. Listing(history') /\ Listing(read'[p])
    BY <1>d, <2>2, <2>3, <2>4
  <2> QED
    BY <2>1, <2>2, <2>5 DEF Ordered, Complete, Distinct, Listing
<1>10. ASSUME NEW p \in Procs, HistoryTruncate(p) PROVE Ordered'
  <2>1. \A q \in Procs : q # p => pc[q] \notin Updating
    BY <1>10, <1>b DEF HistoryTruncate, Ordered
  <2>2. \A q \in Procs : pc'[q] = IF q = p THEN "historyWrite" ELSE pc[q]
    BY <1>10 DEF HistoryTruncate
  <2>3. Complete(read[p])
    BY <1>10, <1>b DEF Ordered, HistoryTruncate
  <2>4. read' = read /\ indexFile' = "empty"
    BY <1>10 DEF HistoryTruncate
  <2>5. Listing(read'[p])
    BY <1>d, <2>2, <2>3, <2>4
  <2>6. \A q \in Procs : pc'[q] \in Updating => q = p
    BY <2>1, <2>2
  <2>7. Complete(read[p])'
    BY <2>4, <2>5 DEF Complete, Distinct, Listing
  <2> QED
    BY <2>2, <2>4, <2>6, <2>7 DEF Ordered
<1>11. ASSUME NEW p \in Procs, HistoryWrite(p) PROVE Ordered'
  <2>1. \A q \in Procs : q # p => pc[q] \notin Updating
    BY <1>11, <1>b DEF HistoryWrite, Ordered
  <2>2. \A q \in Procs : pc'[q] = IF q = p THEN "snapshotTruncate" ELSE pc[q]
    BY <1>11 DEF HistoryWrite
  <2>3. Complete(read[p]) /\ indexFile = "empty"
    BY <1>11, <1>b DEF Ordered, HistoryWrite
  <2>4. history' = Append(read[p], p)
    BY <1>11, <2>3, Zenon DEF HistoryWrite
  <2>5. Entries(history') = Entries(read[p]) \cup {p}
    BY <2>4, AddedEntries
  <2>6. \A r \in Procs : Indexed(r)' = (Indexed(r) \/ r = p)
    BY <1>11, <1>c, <2>1, <2>2 DEF Joins, HistoryWrite
  <2>7. Entries(history') = {r \in Procs : Indexed(r)'}
    BY <2>3, <2>5, <2>6 DEF Complete
  <2>8. p \notin Entries(read[p])
    BY <1>11, <2>3 DEF Complete, Indexed, HistoryWrite
  <2>9. Distinct(history')
    <3>1. /\ Len(history') = Len(read[p]) + 1 /\ Len(read[p]) \in Nat
          /\ history'[Len(read[p]) + 1] = p
          /\ \A k \in 1 .. Len(read[p]) : history'[k] = read[p][k]
      BY <2>4, Added
    <3>2. \A k \in 1 .. Len(read[p]) : read[p][k] # p
      BY <2>8 DEF Entries
    <3>3. \A j, k \in 1 .. Len(read[p]) : read[p][j] = read[p][k] => j = k
      BY <2>3 DEF Complete, Distinct
    <3>4. ASSUME NEW j \in 1 .. Len(read[p]) + 1, NEW k \in 1 .. Len(read[p]) + 1,
                 history'[j] = history'[k]
          PROVE  j = k
      <4>1. CASE j \in 1 .. Len(read[p]) /\ k \in 1 .. Len(read[p])
        BY <3>1, <3>3, <3>4, <4>1
      <4>2. CASE j = Len(read[p]) + 1 /\ k \in 1 .. Len(read[p])
        BY <3>1, <3>2, <3>4, <4>2
      <4>3. CASE j \in 1 .. Len(read[p]) /\ k = Len(read[p]) + 1
        BY <3>1, <3>2, <3>4, <4>3
      <4>4. CASE j = Len(read[p]) + 1 /\ k = Len(read[p]) + 1
        BY <4>4
      <4> QED
        BY <3>1, <4>1, <4>2, <4>3, <4>4
    <3> QED
      BY <3>1, <3>4 DEF Distinct
  <2> QED
    BY <2>1, <2>2, <2>7, <2>9 DEF Ordered, Complete, Distinct
<1>12. ASSUME NEW p \in Procs, SnapshotTruncate(p) PROVE Ordered'
  <2>1. \A q \in Procs : q # p => pc[q] \notin Updating
    BY <1>12, <1>b DEF SnapshotTruncate, Ordered
  <2>2. \A q \in Procs : pc'[q] = IF q = p THEN "snapshotWrite" ELSE pc[q]
    BY <1>12 DEF SnapshotTruncate
  <2>3. Complete(history) /\ history' = history
    BY <1>12, <1>b, <2>1 DEF Ordered, SnapshotTruncate
  <2>4. Listing(history')
    BY <1>d, <2>2, <2>3
  <2> QED
    BY <2>1, <2>2, <2>4 DEF Ordered, Complete, Distinct, Listing
<1>13. ASSUME NEW p \in Procs, SnapshotWrite(p) PROVE Ordered'
  <2>1. \A q \in Procs : q # p => pc[q] \notin Updating
    BY <1>13, <1>b DEF SnapshotWrite, Ordered
  <2>2. \A q \in Procs : pc'[q] = IF q = p THEN "done" ELSE pc[q]
    BY <1>13 DEF SnapshotWrite
  <2>3. Complete(history) /\ history' = history
    BY <1>13, <1>b, <2>1 DEF Ordered, SnapshotWrite
  <2>4. Listing(history')
    BY <1>d, <2>2, <2>3
  <2> QED
    BY <2>1, <2>2, <2>4 DEF Ordered, Complete, Distinct, Listing
<1>14. ASSUME NEW p \in Procs, Stop(p) PROVE Ordered'
  <2>1. LeftBehind(p)
    BY <1>14 DEF Stop
  <2>2. pc[p] \notin Updating
    BY <1>14, Zenon DEF Stop
  <2>3. UNCHANGED <<history, indexFile>>
    BY <2>1, <2>2 DEF LeftBehind
  <2>4. \A q \in Procs : IF q = p THEN pc'[q] \in {"over", "report"}
                                  ELSE pc'[q] = pc[q] /\ read'[q] = read[q]
    BY <2>1 DEF LeftBehind
  <2> QED
    BY <1>e, <2>2, <2>3, <2>4
<1>15. ASSUME NEW p \in Procs, NEW i \in Ids, StartReplay(p, i) PROVE Ordered'
  BY <1>15, <1>e DEF StartReplay
<1>16. ASSUME NEW p \in Procs, NEW i \in Ids, ReplayFails(p, i) PROVE Ordered'
  BY <1>16, <1>e DEF ReplayFails
<1>17. ASSUME ServeLatest PROVE Ordered'
  BY <1>17, <1>e DEF ServeLatest
<1>18. ASSUME UNCHANGED vars PROVE Ordered'
  BY <1>18, <1>e DEF vars
<1> QED
  BY <1>1, <1>2, <1>3, <1>4, <1>5, <1>6, <1>7, <1>8, <1>9,
     <1>10, <1>11, <1>12, <1>13, <1>14, <1>15, <1>16, <1>17, <1>18
     DEF Next, Step

(* Undisturbed, what is published is the last run indexed. *)
(* Undisturbed, what is published is the last run indexed. *)
(* Undisturbed, what is published is the last run indexed. *)
(* Undisturbed, what is published is the last run indexed. *)
(* Undisturbed, what is published is the last run indexed. *)
(* Undisturbed, what is published is the last run indexed. *)
LEMMA PublishingStep ==
  ASSUME TypeOK, Serial, Publishing, ~disturbed', [Next]_vars
  PROVE  Published'
<1> USE DEF Goto, result, files, index, TypeOK, Updating
<1>a. ~disturbed
  BY DisturbedStep
<1>b. Ordered
  BY <1>a DEF Serial
<1>c. Published
  BY <1>a DEF Publishing
<1>d. ASSUME UNCHANGED <<history, snapshot>>,
             \A q \in Procs : pc[q] \in Updating \/ pc'[q] \in Updating =>
                                pc'[q] = pc[q]
      PROVE  Published'
  BY <1>c, <1>d DEF Published, LastRun
<1>1. ASSUME Tick PROVE Published'
  BY <1>1, <1>d DEF Tick
<1>2. ASSUME NEW p \in Procs, StartRun(p) PROVE Published'
  BY <1>2, <1>d DEF StartRun
<1>3. ASSUME NEW p \in Procs, CaptureNothing(p) PROVE Published'
  BY <1>3, <1>d DEF CaptureNothing
<1>4. ASSUME NEW p \in Procs, CaptureOpen(p) PROVE Published'
  BY <1>4, <1>d DEF CaptureOpen
<1>5. ASSUME NEW p \in Procs, CaptureFlush(p) PROVE Published'
  BY <1>5, <1>d DEF CaptureFlush
<1>6. ASSUME NEW p \in Procs, ReportElsewhere(p) PROVE Published'
  BY <1>6, <1>d DEF ReportElsewhere
<1>7. ASSUME NEW p \in Procs, ReportOpen(p) PROVE Published'
  BY <1>7, <1>d DEF ReportOpen
<1>8. ASSUME NEW p \in Procs, ReportWrite(p) PROVE Published'
  BY <1>8, <1>d DEF ReportWrite
<1>9. ASSUME NEW p \in Procs, HistoryRead(p) PROVE Published'
  <2>1. \A q \in Procs : q # p => pc[q] \notin Updating
    BY <1>9, <1>a, Zenon DEF HistoryRead, Others
  <2>2. \A q \in Procs : pc'[q] = IF q = p THEN "historyTruncate" ELSE pc[q]
    BY <1>9 DEF HistoryRead
  <2> QED
    BY <2>1, <2>2 DEF Published
<1>10. ASSUME NEW p \in Procs, HistoryTruncate(p) PROVE Published'
  <2>1. \A q \in Procs : q # p => pc[q] \notin Updating
    BY <1>10, <1>b DEF HistoryTruncate, Ordered
  <2>2. \A q \in Procs : pc'[q] = IF q = p THEN "historyWrite" ELSE pc[q]
    BY <1>10 DEF HistoryTruncate
  <2> QED
    BY <2>1, <2>2 DEF Published
<1>11. ASSUME NEW p \in Procs, HistoryWrite(p) PROVE Published'
  <2>1. \A q \in Procs : q # p => pc[q] \notin Updating
    BY <1>11, <1>b DEF HistoryWrite, Ordered
  <2>2. \A q \in Procs : pc'[q] = IF q = p THEN "snapshotTruncate" ELSE pc[q]
    BY <1>11 DEF HistoryWrite
  <2>3. indexFile = "empty"
    BY <1>11, <1>b DEF Ordered, HistoryWrite
  <2>4. history' = Append(read[p], p)
    BY <1>11, <2>3, Zenon DEF HistoryWrite
  <2>5. history' # <<>> /\ history'[Len(history')] = p
    <3> DEFINE s == read[p]
    <3>1. s \in Seq(Procs)
      OBVIOUS
    <3> HIDE DEF s
    <3>2. Append(s, p) # <<>> /\ Append(s, p)[Len(Append(s, p))] = p
      BY <3>1, LastAdded
    <3> QED
      BY <2>4, <3>2 DEF s
  <2> QED
    BY <2>1, <2>2, <2>5 DEF Published
<1>12. ASSUME NEW p \in Procs, SnapshotTruncate(p) PROVE Published'
  <2>1. \A q \in Procs : q # p => pc[q] \notin Updating
    BY <1>12, <1>b DEF SnapshotTruncate, Ordered
  <2>2. \A q \in Procs : pc'[q] = IF q = p THEN "snapshotWrite" ELSE pc[q]
    BY <1>12 DEF SnapshotTruncate
  <2>3. history' = history /\ history # <<>> /\ history[Len(history)] = p
    BY <1>12, <1>c DEF SnapshotTruncate, Published
  <2>4. snapshot' = "empty"
    BY <1>12 DEF SnapshotTruncate
  <2> QED
    BY <2>1, <2>2, <2>3, <2>4 DEF Published
<1>13. ASSUME NEW p \in Procs, SnapshotWrite(p) PROVE Published'
  <2>1. \A q \in Procs : q # p => pc[q] \notin Updating
    BY <1>13, <1>b DEF SnapshotWrite, Ordered
  <2>2. \A q \in Procs : pc'[q] = IF q = p THEN "done" ELSE pc[q]
    BY <1>13 DEF SnapshotWrite
  <2>3. history' = history /\ history # <<>> /\ history[Len(history)] = p
    BY <1>13, <1>c DEF SnapshotWrite, Published
  <2>4. snapshot' = p
    BY <1>13, <1>c DEF SnapshotWrite, Published, Overwritten
  <2> QED
    BY <2>1, <2>2, <2>3, <2>4 DEF Published, LastRun
<1>14. ASSUME NEW p \in Procs, Stop(p) PROVE Published'
  <2>1. LeftBehind(p)
    BY <1>14 DEF Stop
  <2>2. pc[p] \notin Updating
    BY <1>14, Zenon DEF Stop
  <2>3. UNCHANGED <<history, snapshot>>
    BY <2>1, <2>2 DEF LeftBehind
  <2>4. \A q \in Procs : IF q = p THEN pc'[q] \in {"over", "report"}
                                  ELSE pc'[q] = pc[q]
    BY <2>1 DEF LeftBehind
  <2> QED
    BY <1>d, <2>2, <2>3, <2>4
<1>15. ASSUME NEW p \in Procs, NEW i \in Ids, StartReplay(p, i) PROVE Published'
  BY <1>15, <1>d DEF StartReplay
<1>16. ASSUME NEW p \in Procs, NEW i \in Ids, ReplayFails(p, i) PROVE Published'
  BY <1>16, <1>d DEF ReplayFails
<1>17. ASSUME ServeLatest PROVE Published'
  BY <1>17, <1>d DEF ServeLatest
<1>18. ASSUME UNCHANGED vars PROVE Published'
  BY <1>18, <1>d DEF vars
<1> QED
  BY <1>1, <1>2, <1>3, <1>4, <1>5, <1>6, <1>7, <1>8, <1>9,
     <1>10, <1>11, <1>12, <1>13, <1>14, <1>15, <1>16, <1>17, <1>18
     DEF Next, Step

LEMMA ShownStep ==
  ASSUME Shown, [Next]_vars
  PROVE  Shown'
<1> USE DEF Goto, result, files, index, Shown
<1>1. ASSUME Tick PROVE Shown'
  BY <1>1 DEF Tick
<1>2. ASSUME NEW p \in Procs, StartRun(p) PROVE Shown'
  BY <1>2 DEF StartRun
<1>3. ASSUME NEW p \in Procs, CaptureNothing(p) PROVE Shown'
  BY <1>3 DEF CaptureNothing
<1>4. ASSUME NEW p \in Procs, CaptureOpen(p) PROVE Shown'
  BY <1>4 DEF CaptureOpen
<1>5. ASSUME NEW p \in Procs, CaptureFlush(p) PROVE Shown'
  BY <1>5 DEF CaptureFlush
<1>6. ASSUME NEW p \in Procs, ReportElsewhere(p) PROVE Shown'
  BY <1>6 DEF ReportElsewhere
<1>7. ASSUME NEW p \in Procs, ReportOpen(p) PROVE Shown'
  BY <1>7 DEF ReportOpen
<1>8. ASSUME NEW p \in Procs, ReportWrite(p) PROVE Shown'
  BY <1>8 DEF ReportWrite
<1>9. ASSUME NEW p \in Procs, HistoryRead(p) PROVE Shown'
  BY <1>9 DEF HistoryRead
<1>10. ASSUME NEW p \in Procs, HistoryTruncate(p) PROVE Shown'
  BY <1>10 DEF HistoryTruncate
<1>11. ASSUME NEW p \in Procs, HistoryWrite(p) PROVE Shown'
  BY <1>11 DEF HistoryWrite
<1>12. ASSUME NEW p \in Procs, SnapshotTruncate(p) PROVE Shown'
  BY <1>12 DEF SnapshotTruncate
<1>13. ASSUME NEW p \in Procs, SnapshotWrite(p) PROVE Shown'
  BY <1>13 DEF SnapshotWrite
<1>14. ASSUME NEW p \in Procs, Stop(p) PROVE Shown'
  <2>1. latest' = latest
    BY <1>14 DEF Stop
  <2>2. LeftBehind(p)
    BY <1>14 DEF Stop
  <2>3. dirs \subseteq dirs'
    BY <2>2 DEF LeftBehind
  <2> QED
    BY <2>1, <2>3
<1>15. ASSUME NEW p \in Procs, NEW i \in Ids, StartReplay(p, i) PROVE Shown'
  BY <1>15 DEF StartReplay
<1>16. ASSUME NEW p \in Procs, NEW i \in Ids, ReplayFails(p, i) PROVE Shown'
  BY <1>16 DEF ReplayFails
<1>17. ASSUME ServeLatest PROVE Shown'
  BY <1>17 DEF ServeLatest, Newest
<1>18. ASSUME UNCHANGED vars PROVE Shown'
  BY <1>18 DEF vars
<1> QED
  BY <1>1, <1>2, <1>3, <1>4, <1>5, <1>6, <1>7, <1>8, <1>9,
     <1>10, <1>11, <1>12, <1>13, <1>14, <1>15, <1>16, <1>17, <1>18
     DEF Next, Step

LEMMA InitInv == Init => IInv
<1> SUFFICES ASSUME Init PROVE IInv
  OBVIOUS
<1> USE RunStoreAssumption DEF Init
<1>1. TypeOK
  <2>1. <<>> \in Seq(Procs)
    OBVIOUS
  <2>2. 1 \in Ids
    BY DEF Ids
  <2> QED
    BY <2>1, <2>2 DEF TypeOK, Places, Updating, Finished, Contents, Unreadable
<1>2. Lineage
  BY DEF Lineage
<1>3. Publication /\ Backing
  BY NoEntries DEF Publication, Backing, Updating
<1>4. Readable /\ Shown
  BY DEF Readable, Shown
<1>5. Serial
  <2>1. Complete(<<>>)
    BY NoEntries DEF Complete, Distinct, Indexed
  <2> QED
    BY <2>1 DEF Serial, Ordered, Updating
<1>6. Publishing
  BY DEF Publishing, Published, LastRun
<1> QED
  BY <1>1, <1>2, <1>3, <1>4, <1>5, <1>6 DEF IInv

LEMMA StepInv == IInv /\ [Next]_vars => IInv'
<1> SUFFICES ASSUME IInv, [Next]_vars PROVE IInv'
  OBVIOUS
<1> USE DEF IInv
<1>1. TypeOK' /\ Lineage' /\ Readable' /\ Shown'
  BY TypeStep, LineageStep, ReadableStep, ShownStep
<1>2. Publication' /\ Backing'
  BY PublicationStep, BackingStep
<1>3. Serial'
  BY SerialStep DEF Serial
<1>4. Publishing'
  BY PublishingStep DEF Publishing
<1> QED
  BY <1>1, <1>2, <1>3, <1>4

THEOREM Invariance == Spec => []IInv
BY InitInv, StepInv, PTL DEF Spec

(* The store's state keeps its types, whatever overlaps or stops. *)
THEOREM TypeCorrect == Spec => []TypeOK
<1>1. IInv => TypeOK
  BY DEF IInv
<1> QED
  BY Invariance, <1>1, PTL

(* What a synthetic run fabricated reaches no dataset, no index and no
   snapshot, by any number of runs and replays of replays. *)
THEOREM SyntheticPrivate == Spec => []SyntheticStaysPrivate
<1>1. IInv => SyntheticStaysPrivate
  <2> SUFFICES ASSUME IInv PROVE SyntheticStaysPrivate
    OBVIOUS
  <2> USE DEF IInv
  <2>1. \A i \in Ids : dataset[i] \notin synthetic
    BY DEF Lineage, TypeOK
  <2>2. \A p \in Procs : Reported(p) => origin[p] \notin synthetic
    BY DEF Lineage, Reported
  <2>3. Entries(history) \subseteq Procs
    BY EntriesIn DEF TypeOK
  <2> QED
    BY <2>1, <2>2, <2>3 DEF SyntheticStaysPrivate, Publication
<1> QED
  BY Invariance, <1>1, PTL

(* The index misses no real and conclusive run, and repeats none, unless two
   updates overlapped or one was cut short. *)
THEOREM HistoryComplete == Spec => []HistoryKeepsEveryRun
<1>1. IInv => HistoryKeepsEveryRun
  BY DEF IInv, Serial, Ordered, Complete, Distinct, HistoryKeepsEveryRun
<1> QED
  BY Invariance, <1>1, PTL

(* The snapshot is the index's last run, under the same condition. *)
THEOREM SnapshotCurrent == Spec => []SnapshotIsTheLastRun
<1>1. IInv => SnapshotIsTheLastRun
  BY DEF IInv, Publishing, Published, LastRun, SnapshotIsTheLastRun
<1> QED
  BY Invariance, <1>1, PTL

(* An entry of the index leads to the coverage of the run it names, unless
   another run has the same id; whatever overlaps or stops. *)
THEOREM HistoryBacked == Spec => []HistoryIsBacked
<1>1. IInv => HistoryIsBacked
  BY DEF IInv, Backing, Backed, Holds, Shared, HistoryIsBacked
<1> QED
  BY Invariance, <1>1, PTL

(* The run that is shown as the newest never goes back to an older one. *)
THEOREM LatestForward == Spec => LatestNeverGoesBack
<1>1. ASSUME IInv, [Next]_vars PROVE [latest' >= latest]_vars
  <2> USE RunStoreAssumption DEF index, result
  <2>1. latest \in Int
    BY <1>1 DEF IInv, TypeOK, Ids
  <2>2. CASE ServeLatest
    <3>1. PICK i \in dirs : Newest(i) /\ latest' = i
      BY <2>2 DEF ServeLatest
    <3>2. i \in Nat /\ (latest = 0 \/ latest <= i)
      BY <1>1, <3>1 DEF IInv, Shown, Newest, TypeOK, Ids
    <3> QED
      BY <2>1, <3>1, <3>2
  <2>3. CASE latest' = latest
    BY <2>1, <2>3
  <2>4. ServeLatest \/ latest' = latest
    BY <1>1 DEF Next, Step, Tick, StartRun, StartReplay, ReplayFails, vars,
         CaptureNothing, CaptureOpen, CaptureFlush, ReportElsewhere, ReportOpen,
         ReportWrite, HistoryRead, HistoryTruncate, HistoryWrite,
         SnapshotTruncate, SnapshotWrite, Stop
  <2> QED
    BY <2>2, <2>3, <2>4
<1> QED
  BY Invariance, <1>1, PTL DEF Spec, LatestNeverGoesBack
=============================================================================
