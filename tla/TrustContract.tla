---------------------------- MODULE TrustContract ----------------------------
(***************************************************************************)
(* What a campaign promises its reader (the trust fields of                *)
(* model.CampaignResult and the two "hard contracts" of runTasks): a       *)
(* verdict that says something about a detection is published only when    *)
(* the positive control fired on the platform the technique belongs to,    *)
(* and when no platform's control failed.                                  *)
(*                                                                         *)
(* How the campaign gets there (platform order, executors, polling, rule   *)
(* evaluation, the pass over the chains at the end) is left to the         *)
(* detailed specification, module Campaign.                                *)
(***************************************************************************)
CONSTANTS Tasks, Platforms

VARIABLES
  home,      \* the platform each task belongs to
  proved,    \* platforms whose canary was detected
  refuted,   \* platforms whose canary was not
  claims     \* the published verdict of each task, "none" before publication

vars == <<home, proved, refuted, claims>>

(* Verdicts that say something about a detection. *)
Claim == {"DETECTED", "MISSED", "NO_TELEMETRY"}

(* Verdicts that say why there is nothing to claim. *)
NoClaim == {"INCONCLUSIVE", "ERROR", "SKIPPED_PREREQ"}

Unpublished == [t \in Tasks |-> "none"]

Init ==
  /\ home \in [Tasks -> Platforms]
  /\ proved = {}
  /\ refuted = {}
  /\ claims = Unpublished

(* The outcome of one platform's positive control: settled once. *)
Prove(p) ==
  /\ claims = Unpublished
  /\ p \notin proved \cup refuted
  /\ proved' = proved \cup {p}
  /\ UNCHANGED <<home, refuted, claims>>

Refute(p) ==
  /\ claims = Unpublished
  /\ p \notin proved \cup refuted
  /\ refuted' = refuted \cup {p}
  /\ UNCHANGED <<home, proved, claims>>

(* What may be published is decided by the controls alone. *)
Publish ==
  /\ claims = Unpublished
  /\ claims' \in [Tasks -> Claim \cup NoClaim]
  /\ \A t \in Tasks :
       claims'[t] \in Claim => refuted = {} /\ home[t] \in proved
  /\ UNCHANGED <<home, proved, refuted>>

Next == \/ \E p \in Platforms : Prove(p) \/ Refute(p)
        \/ Publish

Spec == Init /\ [][Next]_vars
=============================================================================
