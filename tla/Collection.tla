----------------------------- MODULE Collection -----------------------------
(***************************************************************************)
(* What a collection promises the evaluation of one execution: it answers  *)
(* once, with what the archive holds at that instant, and it answers only  *)
(* when the wait has a reason to end: a detection, an archive that has been*)
(* quiet long enough, or patience that has run out.                        *)
(*                                                                         *)
(* When it polls, and how it notices that the archive is quiet, is left to *)
(* the detailed specification, module Settle.                              *)
(***************************************************************************)
EXTENDS Integers, Sequences

CONSTANTS
  Quiet,      \* how long an archive that holds something must be still
  Patience    \* how long an archive may keep the evaluation waiting

VARIABLES
  clock,
  arrived,    \* when each event of the window reached the archive
  hit,        \* the first event an expected rule matches, 0 for none
  answer      \* what the evaluation was given

vars == <<clock, arrived, hit, answer>>

Unanswered == [given |-> FALSE, failed |-> FALSE, events |-> 0]

Init ==
  /\ clock = 0
  /\ arrived = <<>>
  /\ hit = 0
  /\ answer = Unanswered

Pass == clock' = clock + 1 /\ UNCHANGED <<arrived, hit, answer>>

Arrive ==
  /\ arrived' = Append(arrived, clock)
  /\ hit' \in {hit, IF hit = 0 THEN Len(arrived) + 1 ELSE hit}
  /\ UNCHANGED <<clock, answer>>

Reason ==
  \/ hit # 0
  \/ Len(arrived) > 0 /\ clock - arrived[Len(arrived)] >= Quiet
  \/ clock > Patience

Answer ==
  /\ answer = Unanswered
  /\ Reason
  /\ answer' = [given |-> TRUE, failed |-> FALSE, events |-> Len(arrived)]
  /\ UNCHANGED <<clock, arrived, hit>>

(* The archive cannot be read. *)
Fail ==
  /\ answer = Unanswered
  /\ answer' = [given |-> TRUE, failed |-> TRUE, events |-> 0]
  /\ UNCHANGED <<clock, arrived, hit>>

Next == Pass \/ Arrive \/ Answer \/ Fail

Spec == Init /\ [][Next]_vars
=============================================================================
