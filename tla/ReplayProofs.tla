---------------------------- MODULE ReplayProofs ----------------------------
(***************************************************************************)
(* What a replay of a captured run may claim, for plans, events and rules  *)
(* of any size.                                                            *)
(***************************************************************************)
EXTENDS Replay, FiniteSetTheorems, TLAPS

----------------------------------------------------------------------------
(* The inductive invariant. *)

(* A chain that collected anything was graded by it, and not as an error. *)
ChainsAreGraded ==
  /\ Len(chains) <= MaxTasks
  /\ \A i \in DOMAIN chains : chains[i].collected # {} =>
       LET r == rules[chains[i].tech] IN
       /\ chains[i].graded = Grade(r, chains[i].collected)
       /\ chains[i].graded # "ERROR"
       /\ chains[i].evidence = Proof(r, chains[i].collected)

(* Only a failed canary makes a verdict differ from the grade. *)
ConclusiveIsGraded ==
  /\ pc = "live" => ~inconclusive
  /\ ~inconclusive =>
       \A i \in DOMAIN chains : chains[i].verdict = chains[i].graded

(* What is stored was collected, and a whole file holds all of it. *)
DatasetIsCollected ==
  /\ pc \in {"live", "settled"} => dataset = {} /\ file = "absent"
  /\ dataset \subseteq Collected
  /\ file = "whole" => dataset = Collected

(* The techniques of the dataset. *)
Stored == {chains[p[1]].tech : p \in dataset}

(* A replayed chain is the grade of the stored events of its technique, and the
   only one of it. *)
ReplayedIsGraded ==
  /\ replayed # <<>> => pc \in {"replay", "done"}
  /\ pc = "done" => Stored \subseteq {replayed[k].tech : k \in DOMAIN replayed}
  /\ \A k \in DOMAIN replayed :
       LET t == replayed[k].tech IN
       /\ t \in Stored
       /\ replayed[k].verdict = Grade(rules[t], Grouped(t))
       /\ replayed[k].evidence = Proof(rules[t], Grouped(t))
       /\ \A j \in DOMAIN replayed : replayed[j].tech = t => j = k

IInv == /\ TypeOK
        /\ ChainsAreGraded
        /\ ConclusiveIsGraded
        /\ DatasetIsCollected
        /\ ReplayedIsGraded

----------------------------------------------------------------------------
(* A set of events has exactly one grade, and it is a verdict. *)
LEMMA GradeType ==
  ASSUME NEW r \in Rule, NEW E \in SUBSET Events
  PROVE  Grade(r, E) \in Verdicts
  BY DEF Rule, Grade, Verdicts

LEMMA ProofType ==
  ASSUME NEW r \in Rule, NEW E \in SUBSET Events
  PROVE  Proof(r, E) \in SUBSET Events
  BY DEF Proof

LEMMA RulesOf ==
  ASSUME TypeOK, NEW t \in Techniques
  PROVE  rules[t] \in Rule /\ rules[t].finds \subseteq rules[t].admits
  BY ReplayAssumption DEF TypeOK

(* More events never make a worse grade, once something was graded at all, and
   never take evidence away (evaluateExpected on the merged events). *)
LEMMA GradeGrows ==
  ASSUME NEW r \in Rule, NEW E \in SUBSET Events, NEW F \in SUBSET Events,
         r.finds \subseteq r.admits, E # {}, E \subseteq F,
         Grade(r, E) # "ERROR"
  PROVE  /\ Rank(Grade(r, F)) >= Rank(Grade(r, E))
         /\ Proof(r, E) \subseteq Proof(r, F)
         /\ Grade(r, F) # "ERROR"
  <1>1. r.mapped = TRUE /\ r.broken = FALSE /\ r.unread \in BOOLEAN
    BY DEF Rule, Grade
  <1>2. F # {}
    OBVIOUS
  <1>3. CASE E \cap r.finds # {}
    <2>1. F \cap r.finds # {}
      BY <1>3
    <2> QED BY <1>1, <1>2, <1>3, <2>1 DEF Grade, Proof, Rank
  <1>4. CASE E \cap r.finds = {} /\ E \cap r.admits # {}
    <2>1. F \cap r.admits # {}
      BY <1>4
    <2>2. Grade(r, E) = "MISSED"
      BY <1>1, <1>4 DEF Grade
    <2>3. Grade(r, F) \in {"DETECTED", "MISSED"}
      BY <1>1, <1>2, <2>1 DEF Grade
    <2> QED BY <2>2, <2>3 DEF Proof, Rank
  <1>5. CASE E \cap r.finds = {} /\ E \cap r.admits = {} /\ r.unread
    <2>1. Grade(r, E) = "INCONCLUSIVE"
      BY <1>1, <1>5 DEF Grade
    <2>2. Grade(r, F) \in {"DETECTED", "MISSED", "INCONCLUSIVE"}
      BY <1>1, <1>2, <1>5 DEF Grade
    <2> QED BY <2>1, <2>2 DEF Proof, Rank
  <1>6. CASE E \cap r.finds = {} /\ E \cap r.admits = {} /\ ~r.unread
    <2>1. Grade(r, E) = "NO_TELEMETRY"
      BY <1>1, <1>6 DEF Grade
    <2>2. Grade(r, F) \in {"DETECTED", "MISSED", "NO_TELEMETRY"}
      BY <1>1, <1>2, <1>6 DEF Grade
    <2> QED BY <2>1, <2>2 DEF Proof, Rank
  <1> QED BY <1>3, <1>4, <1>5, <1>6

(* An event the rule finds, in a batch that was graded at all, is a detection
   and its proof. *)
LEMMA FoundIsProof ==
  ASSUME NEW r \in Rule, NEW E \in SUBSET Events, NEW e \in E \cap r.finds,
         r.finds \subseteq r.admits, Grade(r, E) # "ERROR"
  PROVE  Grade(r, E) = "DETECTED" /\ e \in Proof(r, E)
  <1>1. r.mapped = TRUE /\ r.broken = FALSE /\ r.unread \in BOOLEAN
    BY DEF Rule, Grade
  <1>2. E # {} /\ E \cap r.finds # {}
    OBVIOUS
  <1>3. Grade(r, E) = "DETECTED"
    <2>1. ~(r.mapped /\ E # {} /\ r.broken) /\ ~(r.mapped /\ E = {})
      BY <1>1, <1>2
    <2>2. ~(E \cap r.finds = {})
      BY <1>2
    <2>3. E \cap r.admits = {} => ~(r.finds \subseteq r.admits)
      BY <1>2
    <2> QED BY <1>1, <2>1, <2>2, <2>3 DEF Grade
  <1> QED BY <1>3 DEF Proof

----------------------------------------------------------------------------
LEMMA InitIInv == Init => IInv
  <1> SUFFICES ASSUME Init PROVE IInv
    OBVIOUS
  <1> USE DEF Init
  <1>1. chains \in Seq(Chain) /\ replayed \in Seq(Chain)
        /\ Len(chains) = 0 /\ DOMAIN chains = {} /\ DOMAIN replayed = {}
    <2>1. chains = <<>> /\ replayed = <<>>
      OBVIOUS
    <2> QED BY ONLY <2>1
  <1>2. TypeOK
    BY <1>1 DEF TypeOK
  <1>3. ChainsAreGraded
    BY <1>1, ReplayAssumption DEF ChainsAreGraded
  <1>4. DatasetIsCollected
    BY DEF DatasetIsCollected
  <1>5. ReplayedIsGraded
    BY <1>1 DEF ReplayedIsGraded
  <1>6. ConclusiveIsGraded
    BY <1>1 DEF ConclusiveIsGraded
  <1> QED BY <1>2, <1>3, <1>4, <1>5, <1>6 DEF IInv

(* A new chain leaves the earlier ones as they are. *)
LEMMA AppendedChain ==
  ASSUME TypeOK, NEW c \in Chain, chains' = Append(chains, c)
  PROVE  /\ chains' \in Seq(Chain)
         /\ Len(chains') = Len(chains) + 1
         /\ \A i \in DOMAIN chains' :
              \/ i \in DOMAIN chains /\ chains'[i] = chains[i]
              \/ i = Len(chains) + 1 /\ chains'[i] = c
  BY DEF TypeOK

LEMMA StepLive ==
  ASSUME IInv, NEW t \in Techniques, NEW v \in Verdicts, NEW E \in SUBSET Events,
         NEW P \in SUBSET Events,
         pc = "live", Len(chains) < MaxTasks,
         chains' = Append(chains, ChainOf(t, v, E, P)),
         E # {} => /\ v = Grade(rules[t], E) /\ v # "ERROR"
                   /\ P = Proof(rules[t], E),
         UNCHANGED <<rules, pc, synthetic, inconclusive, dataset, file, replayed>>
  PROVE  IInv'
  <1> DEFINE c == ChainOf(t, v, E, P)
  <1>1. c \in Chain /\ c.collected = E /\ c.tech = t /\ c.graded = v
        /\ c.evidence = P /\ c.verdict = v
    BY DEF ChainOf, Chain
  <1> HIDE DEF c
  <1>2. TypeOK /\ chains' = Append(chains, c)
    BY DEF IInv, c
  <1>3. /\ chains' \in Seq(Chain)
        /\ Len(chains') = Len(chains) + 1
        /\ \A i \in DOMAIN chains' :
              \/ i \in DOMAIN chains /\ chains'[i] = chains[i]
              \/ i = Len(chains) + 1 /\ chains'[i] = c
    BY <1>1, <1>2, AppendedChain
  <1>4. TypeOK'
    BY <1>3 DEF IInv, TypeOK
  <1>5. ChainsAreGraded'
    <2>1. Len(chains') <= MaxTasks
      BY <1>2, <1>3, ReplayAssumption DEF TypeOK
    <2>2. ASSUME NEW i \in DOMAIN chains', chains'[i].collected # {}
          PROVE  /\ chains'[i].graded =
                      Grade(rules[chains'[i].tech], chains'[i].collected)
                 /\ chains'[i].graded # "ERROR"
                 /\ chains'[i].evidence =
                      Proof(rules[chains'[i].tech], chains'[i].collected)
      <3>1. CASE i \in DOMAIN chains /\ chains'[i] = chains[i]
        BY <2>2, <3>1 DEF IInv, ChainsAreGraded
      <3>2. CASE chains'[i] = c
        BY <2>2, <3>2, <1>1
      <3> QED BY <1>3, <3>1, <3>2
    <2> QED BY <2>1, <2>2 DEF ChainsAreGraded
  <1>6. dataset = {} /\ file = "absent" /\ replayed = <<>>
    BY DEF IInv, DatasetIsCollected, ReplayedIsGraded
  <1>7. DatasetIsCollected' /\ ReplayedIsGraded'
    BY <1>6 DEF DatasetIsCollected, ReplayedIsGraded
  <1>8. ConclusiveIsGraded'
    <2>1. ~inconclusive /\ inconclusive' = inconclusive
      BY DEF IInv, ConclusiveIsGraded
    <2>2. ASSUME NEW i \in DOMAIN chains'
          PROVE  chains'[i].verdict = chains'[i].graded
      <3>1. CASE i \in DOMAIN chains /\ chains'[i] = chains[i]
        BY <2>1, <3>1 DEF IInv, ConclusiveIsGraded
      <3>2. CASE chains'[i] = c
        BY <3>2, <1>1
      <3> QED BY <1>3, <3>1, <3>2
    <2> QED BY <2>1, <2>2 DEF ConclusiveIsGraded
  <1> QED BY <1>4, <1>5, <1>7, <1>8 DEF IInv

LEMMA StepEvaluate ==
  ASSUME IInv, Evaluate
  PROVE  IInv'
  <1>1. PICK t \in Techniques, E \in SUBSET Events :
          chains' = Append(chains,
            ChainOf(t, Grade(rules[t], E),
                    IF Grade(rules[t], E) = "ERROR" THEN {} ELSE E,
                    Proof(rules[t], E)))
    BY DEF Evaluate
  <1> DEFINE v == Grade(rules[t], E)
             D == IF v = "ERROR" THEN {} ELSE E
  <1>2. rules[t] \in Rule
    BY RulesOf DEF IInv
  <1>3. v \in Verdicts /\ Proof(rules[t], E) \in SUBSET Events
    BY <1>2, GradeType, ProofType
  <1>4. D \in SUBSET Events /\ (D # {} => D = E /\ v # "ERROR")
    OBVIOUS
  <1>5. /\ pc = "live" /\ Len(chains) < MaxTasks
        /\ chains' = Append(chains, ChainOf(t, v, D, Proof(rules[t], E)))
        /\ UNCHANGED <<rules, pc, synthetic, inconclusive, dataset, file, replayed>>
    BY <1>1 DEF Evaluate
  <1>6. D # {} => /\ v = Grade(rules[t], D) /\ v # "ERROR"
                  /\ Proof(rules[t], E) = Proof(rules[t], D)
    BY <1>4
  <1> HIDE DEF v, D
  <1> QED BY <1>3, <1>4, <1>5, <1>6, StepLive

LEMMA StepGoWithout ==
  ASSUME IInv, GoWithout
  PROVE  IInv'
  <1>1. PICK t \in Techniques, v \in {"ERROR", "SKIPPED_PREREQ"} :
          chains' = Append(chains, ChainOf(t, v, {}, {}))
    BY DEF GoWithout
  <1>2. v \in Verdicts
    BY DEF Verdicts
  <1> QED BY <1>1, <1>2, StepLive DEF GoWithout

(* Blanking the verdicts leaves what the invariant speaks of alone. *)
LEMMA StepSettle ==
  ASSUME IInv, Settle
  PROVE  IInv'
  <1>1. chains \in Seq(Chain) /\ DOMAIN chains = 1 .. Len(chains)
        /\ Len(chains) \in Nat
    BY DEF IInv, TypeOK
  <1>2. /\ DOMAIN chains' = DOMAIN chains
        /\ \A i \in DOMAIN chains :
             /\ chains'[i] \in Chain
             /\ chains'[i].tech = chains[i].tech
             /\ chains'[i].collected = chains[i].collected
             /\ chains'[i].evidence = chains[i].evidence
             /\ chains'[i].graded = chains[i].graded
             /\ ~inconclusive' => chains'[i].verdict = chains[i].verdict
    <2>1. DOMAIN chains' = DOMAIN chains
      BY DEF Settle
    <2>2. ASSUME NEW i \in DOMAIN chains
          PROVE  /\ chains'[i] \in Chain
                 /\ chains'[i].tech = chains[i].tech
                 /\ chains'[i].collected = chains[i].collected
                 /\ chains'[i].evidence = chains[i].evidence
                 /\ chains'[i].graded = chains[i].graded
                 /\ ~inconclusive' => chains'[i].verdict = chains[i].verdict
      <3>1. chains[i] \in Chain
        BY <1>1
      <3> DEFINE w == IF inconclusive' /\ chains[i].verdict # "ERROR"
                        THEN "INCONCLUSIVE" ELSE chains[i].verdict
      <3>2. chains'[i] = [chains[i] EXCEPT !.verdict = w]
        BY DEF Settle
      <3>3. w \in Verdicts
        BY <3>1 DEF Chain, Verdicts
      <3>4. ~inconclusive' => w = chains[i].verdict
        OBVIOUS
      <3> HIDE DEF w
      <3> QED BY <3>1, <3>2, <3>3, <3>4 DEF Chain
    <2> QED BY <2>1, <2>2
  <1>3. chains' \in Seq(Chain) /\ Len(chains') = Len(chains)
    <2>1. chains' \in [1 .. Len(chains) -> Chain]
      BY <1>1, <1>2 DEF Settle
    <2> QED BY <1>1, <2>1
  <1>4. pc' = "settled" /\ inconclusive' \in BOOLEAN
        /\ UNCHANGED <<rules, synthetic, dataset, file, replayed>>
        /\ dataset = {} /\ file = "absent" /\ replayed = <<>>
    BY DEF Settle, IInv, DatasetIsCollected, ReplayedIsGraded
  <1>5. TypeOK'
    BY <1>3, <1>4 DEF IInv, TypeOK
  <1>6. ChainsAreGraded'
    BY <1>2, <1>3, <1>4 DEF IInv, ChainsAreGraded
  <1>7. DatasetIsCollected' /\ ReplayedIsGraded'
    BY <1>4 DEF DatasetIsCollected, ReplayedIsGraded
  <1>8. ConclusiveIsGraded'
    <2>1. ~inconclusive
      BY DEF Settle, IInv, ConclusiveIsGraded
    <2> QED BY <1>2, <1>4, <2>1 DEF IInv, ConclusiveIsGraded
  <1> QED BY <1>5, <1>6, <1>7, <1>8 DEF IInv

----------------------------------------------------------------------------
(* Once the chains and the rules are fixed, only the file and the replay of it
   have to be looked at. *)
LEMMA Fixed ==
  ASSUME IInv, UNCHANGED <<rules, live>>, pc' = "live" => pc = "live",
         TypeOK', DatasetIsCollected', ReplayedIsGraded'
  PROVE  IInv'
  BY DEF IInv, ChainsAreGraded, ConclusiveIsGraded, live

LEMMA StepStore ==
  ASSUME IInv, NothingToCapture \/ Capture \/ CaptureCut
  PROVE  IInv'
  <1>1. UNCHANGED <<rules, chains, synthetic, inconclusive, replayed>>
        /\ UNCHANGED <<rules, live>> /\ pc' = "captured" /\ pc = "settled"
    BY DEF NothingToCapture, Capture, CaptureCut, live
  <1>2. Collected' = Collected /\ Collected \subseteq Records
    BY <1>1 DEF Collected
  <1>3. /\ dataset' \subseteq Collected
        /\ file' = "whole" => dataset' = Collected
        /\ file' \in {"absent", "whole", "short", "torn", "long"}
    BY DEF NothingToCapture, Capture, CaptureCut, IInv, DatasetIsCollected
  <1>4. replayed = <<>>
    BY <1>1 DEF IInv, ReplayedIsGraded
  <1>5. TypeOK'
    BY <1>1, <1>2, <1>3 DEF IInv, TypeOK
  <1>6. DatasetIsCollected'
    BY <1>1, <1>2, <1>3 DEF DatasetIsCollected
  <1>7. ReplayedIsGraded'
    BY <1>1, <1>4 DEF ReplayedIsGraded
  <1> QED BY <1>1, <1>5, <1>6, <1>7, Fixed

LEMMA StepRead ==
  ASSUME IInv, ReadFails \/ Read
  PROVE  IInv'
  <1>1. /\ UNCHANGED <<rules, chains, synthetic, inconclusive, dataset, file,
                       replayed>>
        /\ UNCHANGED <<rules, live>> /\ pc = "captured" /\ pc' \in {"failed", "replay"}
    BY DEF ReadFails, Read, live
  <1>2. replayed = <<>>
    BY <1>1 DEF IInv, ReplayedIsGraded
  <1>3. TypeOK'
    BY <1>1 DEF IInv, TypeOK
  <1>4. DatasetIsCollected'
    BY <1>1 DEF IInv, DatasetIsCollected, Collected
  <1>5. ReplayedIsGraded'
    BY <1>1, <1>2 DEF ReplayedIsGraded
  <1> QED BY <1>1, <1>3, <1>4, <1>5, Fixed

LEMMA StoredType ==
  ASSUME IInv
  PROVE  Stored \subseteq Techniques /\ \A t : Grouped(t) \in SUBSET Events
  <1>1. dataset \subseteq Collected /\ chains \in Seq(Chain)
    BY DEF IInv, TypeOK, DatasetIsCollected
  <1>2. ASSUME NEW p \in dataset
        PROVE  chains[p[1]].tech \in Techniques /\ p[2] \in Events
    <2>1. p[1] \in DOMAIN chains /\ p[2] \in Events
      BY <1>1 DEF Collected, Records
    <2>2. chains[p[1]] \in Chain
      BY <1>1, <2>1
    <2> QED BY <2>1, <2>2 DEF Chain
  <1> QED BY <1>2 DEF Stored, Grouped

LEMMA StepReplayTechnique ==
  ASSUME IInv, ReplayTechnique
  PROVE  IInv'
  <1>1. PICK t \in Upcoming :
          replayed' = Append(replayed,
            ChainOf(t, Grade(rules[t], Grouped(t)), Grouped(t),
                    Proof(rules[t], Grouped(t))))
    BY DEF ReplayTechnique
  <1>2. pc = "replay" /\ UNCHANGED <<rules, chains, synthetic, inconclusive>>
        /\ UNCHANGED <<rules, live, pc, dataset, file>>
    BY DEF ReplayTechnique, live
  <1>3. t \in Stored /\ t \in Techniques /\ Grouped(t) \in SUBSET Events
    BY StoredType DEF Upcoming, Remaining, Stored
  <1> DEFINE c == ChainOf(t, Grade(rules[t], Grouped(t)), Grouped(t),
                          Proof(rules[t], Grouped(t)))
  <1>4. rules[t] \in Rule
    BY <1>3, RulesOf DEF IInv
  <1>5. Grade(rules[t], Grouped(t)) \in Verdicts
        /\ Proof(rules[t], Grouped(t)) \in SUBSET Events
    BY <1>3, <1>4, GradeType, ProofType
  <1>6. /\ c \in Chain /\ c.tech = t
        /\ c.verdict = Grade(rules[t], Grouped(t))
        /\ c.evidence = Proof(rules[t], Grouped(t))
    BY <1>3, <1>5 DEF ChainOf, Chain
  <1>7. replayed' = Append(replayed, c)
    BY <1>1
  <1> HIDE DEF c
  <1>8. replayed \in Seq(Chain)
    BY DEF IInv, TypeOK
  <1>9. /\ replayed' \in Seq(Chain)
        /\ \A k \in DOMAIN replayed' :
             \/ k \in DOMAIN replayed /\ replayed'[k] = replayed[k]
             \/ k = Len(replayed) + 1 /\ replayed'[k] = c
    BY <1>6, <1>7, <1>8
  <1>10. TypeOK'
    BY <1>2, <1>9 DEF IInv, TypeOK
  <1>11. DatasetIsCollected'
    BY <1>2 DEF IInv, DatasetIsCollected, Collected
  <1>12. Stored' = Stored /\ \A u : Grouped(u)' = Grouped(u)
    BY <1>2 DEF Stored, Grouped
  <1>13. ASSUME NEW k \in DOMAIN replayed'
         PROVE  /\ replayed'[k].tech \in Stored
                /\ replayed'[k].verdict =
                     Grade(rules[replayed'[k].tech], Grouped(replayed'[k].tech))
                /\ replayed'[k].evidence =
                     Proof(rules[replayed'[k].tech], Grouped(replayed'[k].tech))
                /\ \A j \in DOMAIN replayed' :
                     replayed'[j].tech = replayed'[k].tech => j = k
    <2>0. \A j \in DOMAIN replayed : replayed[j].tech # t
      BY DEF Upcoming, Remaining
    <2>1. CASE k \in DOMAIN replayed /\ replayed'[k] = replayed[k]
      BY <2>0, <2>1, <1>6, <1>9 DEF IInv, ReplayedIsGraded
    <2>2. CASE k = Len(replayed) + 1 /\ replayed'[k] = c
      BY <2>0, <2>2, <1>3, <1>6, <1>9
    <2> QED BY <1>9, <2>1, <2>2
  <1>14. ReplayedIsGraded'
    BY <1>2, <1>12, <1>13 DEF ReplayedIsGraded
  <1> QED BY <1>2, <1>10, <1>11, <1>14, Fixed

LEMMA StepFinish ==
  ASSUME IInv, Finish
  PROVE  IInv'
  <1>1. /\ UNCHANGED <<rules, chains, synthetic, inconclusive, dataset, file,
                       replayed>>
        /\ UNCHANGED <<rules, live>> /\ pc = "replay" /\ pc' = "done"
        /\ Remaining = {}
    BY DEF Finish, live
  <1>2. TypeOK'
    BY <1>1 DEF IInv, TypeOK
  <1>3. DatasetIsCollected'
    BY <1>1 DEF IInv, DatasetIsCollected, Collected
  <1>4. Stored' = Stored /\ \A u : Grouped(u)' = Grouped(u)
    BY <1>1 DEF Stored, Grouped
  <1>5. Stored \subseteq {replayed[k].tech : k \in DOMAIN replayed}
    BY <1>1 DEF Remaining, Stored
  <1>6. ReplayedIsGraded'
    BY <1>1, <1>4, <1>5 DEF IInv, ReplayedIsGraded
  <1> QED BY <1>1, <1>2, <1>3, <1>6, Fixed

LEMMA StepStutter ==
  ASSUME IInv, UNCHANGED vars
  PROVE  IInv'
  <1>1. UNCHANGED <<rules, live>>
        /\ UNCHANGED <<rules, chains, synthetic, inconclusive, pc, dataset, file,
                       replayed>>
    BY DEF vars, live
  <1>2. TypeOK'
    BY <1>1 DEF IInv, TypeOK
  <1>3. DatasetIsCollected'
    BY <1>1 DEF IInv, DatasetIsCollected, Collected
  <1>4. Stored' = Stored /\ \A u : Grouped(u)' = Grouped(u)
    BY <1>1 DEF Stored, Grouped
  <1>5. ReplayedIsGraded'
    BY <1>1, <1>4 DEF IInv, ReplayedIsGraded
  <1> QED BY <1>1, <1>2, <1>3, <1>5, Fixed

(* The invariant is inductive: every action keeps it. *)
THEOREM Invariance == Spec => []IInv
  <1>1. Init => IInv
    BY InitIInv
  <1>2. IInv /\ [Next]_vars => IInv'
    BY StepEvaluate, StepGoWithout, StepSettle, StepStore, StepRead,
       StepReplayTechnique, StepFinish, StepStutter DEF Next
  <1> QED BY <1>1, <1>2, PTL DEF Spec

----------------------------------------------------------------------------
(* Every variable of a run's telemetry keeps its type (Replay.TypeOK). *)
THEOREM TypeCorrect == Spec => []TypeOK
  <1>1. IInv => TypeOK
    BY DEF IInv
  <1> QED BY <1>1, Invariance, PTL

(* A stored event was collected by a chain that was graded by it. *)
LEMMA StoredEvent ==
  ASSUME IInv, NEW p \in dataset
  PROVE  /\ p[1] \in DOMAIN chains /\ p[2] \in chains[p[1]].collected
         /\ chains[p[1]] \in Chain
         /\ rules[chains[p[1]].tech] \in Rule
         /\ rules[chains[p[1]].tech].finds \subseteq rules[chains[p[1]].tech].admits
  <1>1. p[1] \in DOMAIN chains /\ p[2] \in chains[p[1]].collected
    BY DEF IInv, DatasetIsCollected, Collected
  <1>2. chains[p[1]] \in Chain
    BY <1>1 DEF IInv, TypeOK
  <1>3. chains[p[1]].tech \in Techniques
    BY <1>2 DEF Chain
  <1> QED BY <1>1, <1>2, <1>3, RulesOf DEF IInv

(* The grade of a chain that collected anything, at its technique's rules. *)
LEMMA GradedChain ==
  ASSUME IInv, NEW i \in DOMAIN chains, chains[i].collected # {}
  PROVE  /\ chains[i] \in Chain
         /\ chains[i].graded = Grade(rules[chains[i].tech], chains[i].collected)
         /\ chains[i].graded # "ERROR"
         /\ chains[i].evidence = Proof(rules[chains[i].tech], chains[i].collected)
  BY DEF IInv, TypeOK, ChainsAreGraded

LEMMA InvNothingNew == IInv => ReplayClaimsNothingNew
  <1> SUFFICES ASSUME IInv, NEW k \in DOMAIN replayed
               PROVE  /\ replayed[k].verdict # "ERROR"
                      /\ \A e \in replayed[k].evidence :
                           \E i \in DOMAIN chains :
                             /\ chains[i].tech = replayed[k].tech
                             /\ chains[i].graded = "DETECTED"
                             /\ e \in chains[i].evidence
    BY DEF ReplayClaimsNothingNew
  <1> DEFINE t == replayed[k].tech
             r == rules[t]
  <1>1. /\ t \in Stored
        /\ replayed[k].verdict = Grade(r, Grouped(t))
        /\ replayed[k].evidence = Proof(r, Grouped(t))
    BY DEF IInv, ReplayedIsGraded
  <1>2. PICK p \in dataset : chains[p[1]].tech = t
    BY <1>1 DEF Stored
  <1>3. r \in Rule /\ r.finds \subseteq r.admits
    BY <1>2, StoredEvent
  <1> HIDE DEF r, t
  <1>4. replayed[k].verdict # "ERROR"
    <2> DEFINE E == chains[p[1]].collected
    <2>1. E # {} /\ E \in SUBSET Events /\ Grade(r, E) # "ERROR"
      BY <1>2, StoredEvent, GradedChain DEF r, t, Chain
    <2>2. p[2] \in Grouped(t)
      BY <1>2 DEF Grouped
    <2> HIDE DEF E
    <2>3. r.mapped /\ ~r.broken
      BY <1>3, <2>1 DEF Rule, Grade
    <2>4. Grouped(t) # {}
      BY <2>2
    <2>5. ~(r.mapped /\ Grouped(t) # {} /\ r.broken)
      BY <2>3
    <2> QED BY <1>1, <1>3, <2>3, <2>4, <2>5 DEF Grade
  <1>5. ASSUME NEW e \in replayed[k].evidence
        PROVE  \E i \in DOMAIN chains :
                 /\ chains[i].tech = replayed[k].tech
                 /\ chains[i].graded = "DETECTED"
                 /\ e \in chains[i].evidence
    <2>1. e \in Grouped(t) /\ e \in r.finds
      BY <1>1 DEF Proof
    <2>2. PICK q \in dataset : chains[q[1]].tech = t /\ q[2] = e
      BY <2>1 DEF Grouped
    <2> DEFINE E == chains[q[1]].collected
    <2>3. /\ q[1] \in DOMAIN chains /\ e \in E /\ E \in SUBSET Events
          /\ chains[q[1]].graded = Grade(r, E) /\ Grade(r, E) # "ERROR"
          /\ chains[q[1]].evidence = Proof(r, E)
      BY <2>2, StoredEvent, GradedChain DEF r, t, Chain
    <2> HIDE DEF E
    <2>4. Grade(r, E) = "DETECTED" /\ e \in Proof(r, E)
      BY <1>3, <2>1, <2>3, FoundIsProof
    <2> QED BY <2>2, <2>3, <2>4 DEF t
  <1> QED BY <1>4, <1>5

(* However the capture was cut, a replay neither invents a detection nor turns
   an error of the run into a verdict (Replay.ReplayClaimsNothingNew). *)
THEOREM NothingNew == Spec => []ReplayClaimsNothingNew
  BY Invariance, InvNothingNew, PTL

----------------------------------------------------------------------------
(* A whole dataset holds everything that was collected. *)
LEMMA WholeDataset ==
  ASSUME IInv, file = "whole", NEW i \in DOMAIN chains
  PROVE  /\ chains[i].collected \subseteq Grouped(chains[i].tech)
         /\ chains[i].collected # {} => chains[i].tech \in Stored
         /\ Sole(i) => Grouped(chains[i].tech) = chains[i].collected
  <1>1. dataset = Collected /\ i \in 1 .. MaxTasks
        /\ chains[i].collected \subseteq Events
    <2>1. chains \in Seq(Chain) /\ Len(chains) <= MaxTasks
      BY DEF IInv, TypeOK, ChainsAreGraded
    <2>2. i \in 1 .. Len(chains) /\ Len(chains) \in Nat /\ chains[i] \in Chain
      BY <2>1
    <2>3. i \in 1 .. MaxTasks
      BY <2>1, <2>2, ReplayAssumption
    <2>4. chains[i].collected \subseteq Events
      BY <2>2 DEF Chain
    <2>5. dataset = Collected
      BY DEF IInv, DatasetIsCollected
    <2> QED BY <2>3, <2>4, <2>5
  <1>2. ASSUME NEW e \in chains[i].collected
        PROVE  <<i, e>> \in dataset
    BY <1>1 DEF Collected, Records
  <1>3. ASSUME NEW e \in chains[i].collected
        PROVE  e \in Grouped(chains[i].tech) /\ chains[i].tech \in Stored
    <2>1. <<i, e>> \in dataset
      BY <1>2, <1>3
    <2>2. <<i, e>>[1] = i /\ <<i, e>>[2] = e
      OBVIOUS
    <2> QED BY <2>1, <2>2 DEF Grouped, Stored
  <1>5. Sole(i) => Grouped(chains[i].tech) \subseteq chains[i].collected
    BY StoredEvent DEF Grouped, Sole
  <1> QED BY <1>3, <1>5

(* What is left of a sole chain's events in any dataset. *)
LEMMA SoleDataset ==
  ASSUME IInv, NEW i \in DOMAIN chains, Sole(i)
  PROVE  /\ Grouped(chains[i].tech) \subseteq chains[i].collected
         /\ chains[i].tech \in Stored => Grouped(chains[i].tech) # {}
  BY StoredEvent DEF Grouped, Stored, Sole

LEMMA InvFaithful == IInv => ReplayIsFaithful
  <1> SUFFICES ASSUME IInv, pc = "done", file = "whole",
                      NEW i \in DOMAIN chains, chains[i].collected # {}
               PROVE  \E k \in DOMAIN replayed :
                        /\ replayed[k].tech = chains[i].tech
                        /\ chains[i].evidence \subseteq replayed[k].evidence
                        /\ Rank(replayed[k].verdict) >= Rank(chains[i].graded)
                        /\ Sole(i) => /\ replayed[k].verdict = chains[i].graded
                                      /\ replayed[k].evidence = chains[i].evidence
    BY DEF ReplayIsFaithful
  <1> DEFINE t == chains[i].tech
             r == rules[t]
             E == chains[i].collected
  <1>1. /\ E \subseteq Grouped(t) /\ t \in Stored
        /\ Sole(i) => Grouped(t) = E
    BY WholeDataset
  <1>2. PICK k \in DOMAIN replayed : replayed[k].tech = t
    BY <1>1 DEF IInv, ReplayedIsGraded
  <1>3. /\ replayed[k].verdict = Grade(r, Grouped(t))
        /\ replayed[k].evidence = Proof(r, Grouped(t))
    BY <1>2 DEF IInv, ReplayedIsGraded
  <1>4. /\ chains[i] \in Chain /\ chains[i].graded = Grade(r, E)
        /\ Grade(r, E) # "ERROR" /\ chains[i].evidence = Proof(r, E)
    BY GradedChain
  <1>5. /\ t \in Techniques /\ E \in SUBSET Events
        /\ Grouped(t) \in SUBSET Events
    BY <1>4, StoredType DEF Chain
  <1>6. r \in Rule /\ r.finds \subseteq r.admits
    BY <1>5, RulesOf DEF IInv
  <1>7. E # {}
    OBVIOUS
  <1> HIDE DEF t, r, E
  <1>8. /\ Rank(Grade(r, Grouped(t))) >= Rank(Grade(r, E))
        /\ Proof(r, E) \subseteq Proof(r, Grouped(t))
    BY <1>1, <1>4, <1>5, <1>6, <1>7, GradeGrows
  <1>9. Sole(i) => /\ Grade(r, Grouped(t)) = Grade(r, E)
                   /\ Proof(r, Grouped(t)) = Proof(r, E)
    BY <1>1
  <1> QED BY <1>2, <1>3, <1>4, <1>8, <1>9 DEF t

(* A whole dataset replayed with the run's rules reproduces the run, technique
   by technique (Replay.ReplayIsFaithful). *)
THEOREM Faithful == Spec => []ReplayIsFaithful
  BY Invariance, InvFaithful, PTL

----------------------------------------------------------------------------
(* A technique's verdict is that of its chain, when it has but one. *)
LEMMA SoleVerdict ==
  ASSUME NEW c, NEW i \in DOMAIN c, DOMAIN c \subseteq Int,
         \A j \in DOMAIN c : c[j].tech = c[i].tech => j = i
  PROVE  VerdictOf(c, c[i].tech) = c[i].verdict
  <1> DEFINE P(k) == /\ c[k].tech = c[i].tech
                     /\ \A j \in DOMAIN c : c[j].tech = c[i].tech => j <= k
  <1>1. P(i)
    OBVIOUS
  <1>2. \A k \in DOMAIN c : P(k) => k = i
    OBVIOUS
  <1>3. Last(c, c[i].tech) = CHOOSE k \in DOMAIN c : P(k)
    BY DEF Last
  <1> HIDE DEF P
  <1>4. (CHOOSE k \in DOMAIN c : P(k)) = i
    BY <1>1, <1>2
  <1> QED BY <1>3, <1>4 DEF VerdictOf

LEMMA InvDiff == IInv => DiffOfAReplay
  <1> SUFFICES ASSUME IInv, pc = "done", ~inconclusive,
                      \A i \in DOMAIN chains : Sole(i)
               PROVE  DiffOfAReplay
    BY DEF DiffOfAReplay
  <1>1. DOMAIN chains \subseteq Int /\ DOMAIN replayed \subseteq Int
    BY DEF IInv, TypeOK
  <1>2. Tested(replayed) = Stored
    BY DEF IInv, ReplayedIsGraded, Tested
  <1>3. Stored \subseteq Tested(chains)
    BY StoredEvent DEF Stored, Tested
  <1>4. \A i \in DOMAIN chains : VerdictOf(chains, chains[i].tech) = chains[i].verdict
    BY <1>1, SoleVerdict DEF Sole
  <1>5. ASSUME NEW i \in DOMAIN chains, chains[i].tech \in Stored
        PROVE  /\ chains[i].collected # {}
               /\ Rank(VerdictOf(replayed, chains[i].tech)) <=
                    Rank(VerdictOf(chains, chains[i].tech))
               /\ file = "whole" => VerdictOf(replayed, chains[i].tech) =
                                       VerdictOf(chains, chains[i].tech)
    <2> DEFINE t == chains[i].tech
               r == rules[t]
               E == chains[i].collected
               G == Grouped(t)
    <2>1. G \subseteq E /\ G # {}
      BY <1>5, SoleDataset
    <2>2. E # {}
      BY <2>1
    <2>3. /\ chains[i] \in Chain /\ chains[i].graded = Grade(r, E)
          /\ Grade(r, E) # "ERROR"
      BY <2>2, GradedChain
    <2>4. t \in Techniques /\ E \in SUBSET Events /\ G \in SUBSET Events
      <3>1. t \in Techniques /\ E \in SUBSET Events
        BY <2>3 DEF Chain
      <3>2. G \in SUBSET Events
        BY StoredType
      <3> QED BY <3>1, <3>2
    <2>5. r \in Rule /\ r.finds \subseteq r.admits
      BY <2>4, RulesOf DEF IInv
    <2>6. VerdictOf(chains, t) = Grade(r, E)
      <3>1. chains[i].verdict = chains[i].graded
        BY DEF IInv, ConclusiveIsGraded
      <3>2. VerdictOf(chains, t) = chains[i].verdict
        BY <1>4
      <3> QED BY <2>3, <3>1, <3>2
    <2>7. PICK k \in DOMAIN replayed : replayed[k].tech = t
      <3>1. t \in Tested(replayed)
        BY <1>2, <1>5
      <3> QED BY <3>1 DEF Tested
    <2>8. /\ replayed[k].verdict = Grade(r, G)
          /\ \A j \in DOMAIN replayed : replayed[j].tech = t => j = k
      BY <2>7 DEF IInv, ReplayedIsGraded
    <2>9. VerdictOf(replayed, t) = Grade(r, G)
      BY <1>1, <2>7, <2>8, SoleVerdict
    <2>10. file = "whole" => G = E
      BY WholeDataset
    <2> HIDE DEF t, r, E, G
    <2>11. Grade(r, G) # "ERROR"
      <3>1. r.mapped = TRUE /\ r.broken = FALSE
        BY <2>2, <2>3, <2>5 DEF Grade, Rule
      <3>2. ~(r.mapped /\ G # {} /\ r.broken)
        BY <3>1
      <3> QED BY <2>1, <2>5, <3>1, <3>2 DEF Grade
    <2>12. Rank(Grade(r, E)) >= Rank(Grade(r, G))
      BY <2>1, <2>4, <2>5, <2>11, GradeGrows
    <2>13. Rank(Grade(r, E)) \in Int /\ Rank(Grade(r, G)) \in Int
      BY DEF Rank
    <2>14. Rank(VerdictOf(replayed, t)) <= Rank(VerdictOf(chains, t))
      BY <2>6, <2>9, <2>12, <2>13
    <2>15. file = "whole" => VerdictOf(replayed, t) = VerdictOf(chains, t)
      BY <2>6, <2>9, <2>10
    <2> QED BY <2>2, <2>14, <2>15 DEF t, E
  <1>6. Both(chains, replayed) = Stored
    BY <1>2, <1>3 DEF Both
  <1>7. \A t \in Stored : \E i \in DOMAIN chains : chains[i].tech = t
    BY <1>3 DEF Tested
  <1>8. \A t : Rank(VerdictOf(replayed, t)) \in Int /\ Rank(VerdictOf(chains, t)) \in Int
    BY DEF Rank
  <1>9. \A t \in Stored : ~(Rank(VerdictOf(replayed, t)) > Rank(VerdictOf(chains, t)))
    BY <1>5, <1>7, <1>8
  <1>10. Improved(chains, replayed) = {}
    BY <1>6, <1>9 DEF Improved
  <1>11. ASSUME file = "whole"
         PROVE  /\ Regressed(chains, replayed) = {}
                /\ Otherwise(chains, replayed) =
                     {chains[i].tech : i \in {j \in DOMAIN chains :
                                                chains[j].collected = {}}}
    <2>1. \A t \in Stored : VerdictOf(replayed, t) = VerdictOf(chains, t)
      BY <1>5, <1>7, <1>11
    <2>2. Regressed(chains, replayed) = {}
      BY <1>6, <1>8, <2>1 DEF Regressed
    <2>3. Otherwise(chains, replayed) = Tested(chains) \ Stored
      BY <1>2, <1>3, <1>6, <2>1 DEF Otherwise
    <2>4. \A i \in DOMAIN chains :
            chains[i].tech \in Stored <=> chains[i].collected # {}
      BY <1>5, <1>11, WholeDataset
    <2> QED BY <2>2, <2>3, <2>4 DEF Tested
  <1>12. ASSUME NEW i \in DOMAIN chains, chains[i].verdict = "DETECTED"
         PROVE  \/ /\ chains[i].tech \in Tested(replayed)
                   /\ VerdictOf(replayed, chains[i].tech) = "DETECTED"
                \/ chains[i].tech \in Regressed(chains, replayed)
                \/ chains[i].tech \in Otherwise(chains, replayed) \ Tested(replayed)
    <2> DEFINE t == chains[i].tech
    <2>1. t \in Tested(chains)
      BY DEF Tested
    <2>2. CASE t \notin Stored
      BY <1>2, <1>6, <2>1, <2>2 DEF Otherwise
    <2>3. CASE t \in Stored /\ VerdictOf(replayed, t) # "DETECTED"
      <3>1. VerdictOf(chains, t) = "DETECTED"
        BY <1>4, <1>12
      <3>2. Rank(VerdictOf(replayed, t)) < 3 /\ Rank(VerdictOf(chains, t)) = 3
        BY <2>3, <3>1 DEF Rank
      <3> HIDE DEF t
      <3>3. t \in Regressed(chains, replayed)
        BY <1>6, <2>3, <3>2 DEF Regressed
      <3> QED BY <3>3 DEF t
    <2> QED BY <1>2, <2>2, <2>3
  <1> QED BY <1>10, <1>11, <1>12 DEF DiffOfAReplay

(* The regression gate of a replay: no progress is invented, and a detection
   that a cut dataset lost is reported as a regression or as absent
   (Replay.DiffOfAReplay). *)
THEOREM Compared == Spec => []DiffOfAReplay
  BY Invariance, InvDiff, PTL

----------------------------------------------------------------------------
(* The figures. *)
LEMMA Hundred ==
  ASSUME NEW a \in Int, NEW b \in Int, b > 0
  PROVE  a \div b = 100 <=> 100 * b <= a /\ a < 101 * b
  <1> DEFINE q == a \div b
  <1>1. q \in Int /\ b * q <= a /\ a < b * q + b
    OBVIOUS
  <1> HIDE DEF q
  <1>2. CASE q = 100
    BY <1>1, <1>2
  <1>3. CASE q >= 101
    <2>1. b * q >= b * 101
      BY <1>1, <1>3
    <2> QED BY <1>1, <1>3, <2>1
  <1>4. CASE q <= 99
    <2>1. b * q <= b * 99
      BY <1>1, <1>4
    <2> QED BY <1>1, <1>4, <2>1
  <1>5. (q = 100) <=> (100 * b <= a /\ a < 101 * b)
    BY <1>1, <1>2, <1>3, <1>4
  <1> QED BY <1>5 DEF q

LEMMA DisjointSum ==
  ASSUME NEW A, NEW B, IsFiniteSet(A), IsFiniteSet(B), A \cap B = {}
  PROVE  /\ IsFiniteSet(A \cup B)
         /\ Cardinality(A \cup B) = Cardinality(A) + Cardinality(B)
  <1>1. Cardinality(A) \in Nat /\ Cardinality(B) \in Nat
    BY FS_CardinalityType
  <1>2. Cardinality(A \cap B) = 0
    BY FS_EmptySet
  <1>3. /\ IsFiniteSet(A \cup B)
        /\ Cardinality(A \cup B)
             = Cardinality(A) + Cardinality(B) - Cardinality(A \cap B)
    BY FS_Union
  <1> QED BY <1>1, <1>2, <1>3

(* Every chain has one of the six verdicts. *)
LEMMA Partition ==
  ASSUME NEW c \in Seq(Chain)
  PROVE  /\ \A v : Count(c, v) \in Nat
         /\ Len(c) = Count(c, "DETECTED") + Count(c, "MISSED")
                       + Count(c, "NO_TELEMETRY") + Count(c, "INCONCLUSIVE")
                       + Count(c, "SKIPPED_PREREQ") + Count(c, "ERROR")
  <1> DEFINE Of(v) == {i \in DOMAIN c : c[i].verdict = v}
             d == Of("DETECTED")
             m == Of("MISSED")
             n == Of("NO_TELEMETRY")
             u == Of("INCONCLUSIVE")
             s == Of("SKIPPED_PREREQ")
             e == Of("ERROR")
  <1>1. Len(c) \in Nat /\ DOMAIN c = 1 .. Len(c)
    OBVIOUS
  <1>2. IsFiniteSet(DOMAIN c) /\ Cardinality(DOMAIN c) = Len(c)
    <2>1. /\ IsFiniteSet(1 .. Len(c))
          /\ Cardinality(1 .. Len(c)) = IF 1 > Len(c) THEN 0 ELSE Len(c) - 1 + 1
      BY <1>1, FS_Interval
    <2> QED BY <1>1, <2>1
  <1>3. \A v : Of(v) \subseteq DOMAIN c
    OBVIOUS
  <1>4. \A v : IsFiniteSet(Of(v)) /\ Cardinality(Of(v)) \in Nat
    <2> SUFFICES ASSUME NEW v
                 PROVE  IsFiniteSet(Of(v)) /\ Cardinality(Of(v)) \in Nat
      OBVIOUS
    <2>1. Of(v) \in SUBSET DOMAIN c
      BY <1>3
    <2> HIDE DEF Of
    <2>2. IsFiniteSet(Of(v))
      BY <1>2, <2>1, FS_Subset
    <2> QED BY <2>2, FS_CardinalityType
  <1>5. \A v : Count(c, v) = Cardinality(Of(v))
    BY DEF Count
  <1>6. DOMAIN c = d \cup (m \cup (n \cup (u \cup (s \cup e))))
    <2>1. ASSUME NEW i \in DOMAIN c PROVE c[i].verdict \in Verdicts
      <3>1. c[i] \in Chain
        OBVIOUS
      <3> QED BY <3>1 DEF Chain
    <2> QED BY <2>1 DEF Verdicts
  <1>7. /\ s \cap e = {}
        /\ u \cap (s \cup e) = {}
        /\ n \cap (u \cup (s \cup e)) = {}
        /\ m \cap (n \cup (u \cup (s \cup e))) = {}
        /\ d \cap (m \cup (n \cup (u \cup (s \cup e)))) = {}
    OBVIOUS
  <1>8. /\ IsFiniteSet(d) /\ IsFiniteSet(m) /\ IsFiniteSet(n)
        /\ IsFiniteSet(u) /\ IsFiniteSet(s) /\ IsFiniteSet(e)
    BY <1>4
  <1>9. /\ Cardinality(d) \in Nat /\ Cardinality(m) \in Nat /\ Cardinality(n) \in Nat
        /\ Cardinality(u) \in Nat /\ Cardinality(s) \in Nat /\ Cardinality(e) \in Nat
    BY <1>4
  <1>10. /\ Count(c, "DETECTED") = Cardinality(d)
         /\ Count(c, "MISSED") = Cardinality(m)
         /\ Count(c, "NO_TELEMETRY") = Cardinality(n)
         /\ Count(c, "INCONCLUSIVE") = Cardinality(u)
         /\ Count(c, "SKIPPED_PREREQ") = Cardinality(s)
         /\ Count(c, "ERROR") = Cardinality(e)
    BY <1>5
  <1>11. \A v : Count(c, v) \in Nat
    BY <1>4, <1>5
  <1> HIDE DEF d, m, n, u, s, e, Of
  <1>12. /\ IsFiniteSet(s \cup e)
         /\ Cardinality(s \cup e) = Cardinality(s) + Cardinality(e)
    BY <1>7, <1>8, DisjointSum
  <1>13. /\ IsFiniteSet(u \cup (s \cup e))
         /\ Cardinality(u \cup (s \cup e)) = Cardinality(u) + Cardinality(s \cup e)
    BY <1>7, <1>8, <1>12, DisjointSum
  <1>14. /\ IsFiniteSet(n \cup (u \cup (s \cup e)))
         /\ Cardinality(n \cup (u \cup (s \cup e)))
              = Cardinality(n) + Cardinality(u \cup (s \cup e))
    BY <1>7, <1>8, <1>13, DisjointSum
  <1>15. /\ IsFiniteSet(m \cup (n \cup (u \cup (s \cup e))))
         /\ Cardinality(m \cup (n \cup (u \cup (s \cup e))))
              = Cardinality(m) + Cardinality(n \cup (u \cup (s \cup e)))
    BY <1>7, <1>8, <1>14, DisjointSum
  <1>16. Cardinality(d \cup (m \cup (n \cup (u \cup (s \cup e)))))
              = Cardinality(d) + Cardinality(m \cup (n \cup (u \cup (s \cup e))))
    BY <1>7, <1>8, <1>15, DisjointSum
  <1>17. Len(c) = Cardinality(d) + (Cardinality(m) + (Cardinality(n)
                    + (Cardinality(u) + (Cardinality(s) + Cardinality(e)))))
    BY <1>2, <1>6, <1>12, <1>13, <1>14, <1>15, <1>16
  <1> QED BY <1>9, <1>10, <1>11, <1>17

(* The figures of any chains add up. *)
LEMMA FiguresOfChains ==
  ASSUME NEW c \in Seq(Chain)
  PROVE  Figures(c)
  <1> DEFINE d == Count(c, "DETECTED")
             m == Count(c, "MISSED")
             n == Count(c, "NO_TELEMETRY")
             u == Count(c, "INCONCLUSIVE")
             s == Count(c, "SKIPPED_PREREQ")
             e == Count(c, "ERROR")
  <1>1. /\ d \in Nat /\ m \in Nat /\ n \in Nat /\ u \in Nat /\ s \in Nat /\ e \in Nat
        /\ Len(c) = d + m + n + u + s + e
    BY Partition
  <1>2. Exercised(c) = Len(c) - u - n - s - e /\ ReadinessGaps(c) = Len(c) - d
        /\ CoveragePct(c) = Percent(d, Exercised(c))
    BY DEF Exercised, ReadinessGaps, CoveragePct
  <1>3. CollectionGaps(c) = {} <=> n = 0
    <2> DEFINE N == {i \in DOMAIN c : c[i].verdict = "NO_TELEMETRY"}
    <2>1. CollectionGaps(c) = {c[i].tech : i \in N} /\ n = Cardinality(N)
      BY DEF CollectionGaps, Count
    <2>2. IsFiniteSet(N)
      <3>1. N \in SUBSET (1 .. Len(c)) /\ Len(c) \in Nat
        OBVIOUS
      <3>2. IsFiniteSet(1 .. Len(c))
        BY <3>1, FS_Interval
      <3> HIDE DEF N
      <3> QED BY <3>1, <3>2, FS_Subset
    <2> HIDE DEF N
    <2>3. n = 0 <=> N = {}
      BY <2>1, <2>2, FS_EmptySet
    <2> QED BY <2>1, <2>3
  <1> HIDE DEF d, m, n, u, s, e
  <1>4. Exercised(c) = d + m
    BY <1>1, <1>2
  <1>5. ReadinessGaps(c) = m + (Len(c) - Exercised(c))
    BY <1>1, <1>2, <1>4
  <1>6. ASSUME m + d < 200
        PROVE  CoveragePct(c) = 100 <=> m = 0 /\ d > 0
    <2>1. CASE d + m = 0
      BY <1>1, <1>2, <1>4, <2>1 DEF Percent
    <2>2. CASE d + m > 0
      <3>1. CoveragePct(c) = (200 * d + (d + m)) \div (2 * (d + m))
        BY <1>2, <1>4, <2>2 DEF Percent
      <3>2. /\ 200 * d + (d + m) \in Int
            /\ 2 * (d + m) \in Int
            /\ 2 * (d + m) > 0
        BY <1>1, <2>2
      <3>3. CoveragePct(c) = 100 <=> /\ 100 * (2 * (d + m)) <= 200 * d + (d + m)
                                     /\ 200 * d + (d + m) < 101 * (2 * (d + m))
        BY <3>1, <3>2, Hundred
      <3> QED BY <1>1, <1>6, <2>2, <3>3
    <2> QED BY <1>1, <2>1, <2>2
  <1> QED BY <1>3, <1>4, <1>5, <1>6 DEF Figures, d, m, n

(* The denominator of the coverage is what was detected or missed, the readiness
   gaps are the rest, and fewer than two hundred techniques show 100 % only when
   every one of them was detected (Replay.FiguresAddUp). *)
THEOREM Figured == Spec => []FiguresAddUp
  <1>1. TypeOK => FiguresAddUp
    BY FiguresOfChains DEF TypeOK, FiguresAddUp
  <1> QED BY <1>1, TypeCorrect, PTL
=============================================================================
