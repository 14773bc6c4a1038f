--------------------------- MODULE CampaignProofs ---------------------------
(***************************************************************************)
(* What holds of Campaign for every plan, every set of platforms and every *)
(* bound on the durations: the types, the agreement of the trust fields    *)
(* with the controls, the order of controls and executions, the soundness  *)
(* of the attribution label and of the window's epsilon, and that the      *)
(* campaign implements the trust contract.                                 *)
(*                                                                         *)
(* The inductive invariant has three parts: what the gates and the         *)
(* verdicts know of each other (GateInv), how the windows of chains        *)
(* already appended are ordered in time (TimeInv), and where the events a  *)
(* chain collected come from (SourceInv).                                  *)
(***************************************************************************)
EXTENDS Campaign, TLAPS

Driving == pc \in {"task", "execute", "collect", "evaluate"}

TypeInv == /\ TypeOK
           /\ now >= Origin
           /\ Driving => active \in Platforms

Running == pc \in {"execute", "collect", "evaluate"}

GateInv ==
  /\ synthetic => \A p \in Platforms : gate[p] = "none"
  /\ pc # "done" =>
       /\ inconclusive = (\E p \in Platforms : gate[p] = "failed")
       /\ canaryHealthy = (\E p \in Platforms : gate[p] = "healthy")
  /\ pc = "done" /\ ~synthetic => TrustFieldsAgree
  /\ Driving => active \notin handled
  /\ Driving /\ ~synthetic => gate[active] # "none"
  /\ Running => cur \in Task /\ plan[cur] = active /\ verdict[cur] = "none"
  /\ pc \notin {"done"} =>
       \A t \in Task : verdict[t] \notin {"none", "ERROR"} /\ ~synthetic =>
                         gate[plan[t]] # "none"
  /\ pc = "done" /\ ~synthetic =>
       \A t \in Task : verdict[t] \in Claim =>
                         gate[plan[t]] # "none" /\ ~inconclusive
  /\ \A t \in ran : ~synthetic => gate[plan[t]] # "none"
  /\ \A t \in Task : plan[t] \in handled => verdict[t] # "none"
  /\ \A p \in Platforms :
       gate[p] # "none" => p \in handled \/ (Driving /\ p = active)

(* A chain's window, kept or in the making, is that of its execution; every
   window already appended belongs to a command that finished before the
   command of the chain in the making started. *)
SpanOf(w, f) == 1 <= w.start /\ w.start + Eps <= f /\ w.end = f + Pad

Settled(u) == window[u] # ZeroWindow /\ verdict[u] # "ERROR"

TimeInv ==
  /\ \A t \in Task : window[t] # ZeroWindow =>
       /\ verdict[t] # "none"
       /\ SpanOf(window[t], finish[t])
       /\ finish[t] <= now
  /\ pc \in {"collect", "evaluate"} =>
       /\ SpanOf(win, finish[cur]) /\ finish[cur] <= now
       /\ \A u \in Task : window[u] # ZeroWindow =>
                            finish[u] <= win.start + Eps
       /\ \A u \in Task : Settled(u) => finish[u] + MinWait <= win.start + Eps
  /\ pc = "evaluate" => finish[cur] + MinWait <= now
  /\ \A u \in Task : Settled(u) => finish[u] + MinWait <= now

Ordered == TimeInv /\ EpsilonStaysClear

(* Events come from tasks already driven or being driven; a chain collected
   them inside its window, and those of another recorded execution only if it
   finished before the chain's own command started. *)
SourceInv ==
  /\ \A e \in events :
       verdict[e.src] # "none" \/ (Running /\ e.src = cur)
  /\ \A e \in got :
       /\ verdict[e.src] # "none" \/ e.src = cur
       /\ win.start <= e.at /\ e.at <= win.end
  /\ got # {} => pc = "evaluate"
  /\ \A t \in Task : \A e \in collected[t] :
       /\ verdict[e.src] # "none"
       /\ window[t].start <= e.at /\ e.at <= window[t].end
       /\ e.src # t /\ window[e.src] # ZeroWindow =>
            finish[e.src] <= window[t].start + Eps

LabelInv ==
  \A t \in Task : label[t] # "none" => pc = "done" /\ label[t] = LabelOf(t)

IInv == TypeInv /\ GateInv /\ Ordered /\ SourceInv /\ LabelInv

----------------------------------------------------------------------------
(* Constant facts, so that the sets stay closed in the step proofs. *)
LEMMA Constants ==
  /\ ZeroWindow \in Windows
  /\ {} \in SUBSET Events
  /\ Claim \cup NoClaim = Verdicts
  /\ {"ERROR", "SKIPPED_PREREQ", "INCONCLUSIVE", "DETECTED"} \subseteq Verdicts
  /\ "none" \notin Verdicts
  /\ Origin \in Nat /\ Origin > Eps /\ Eps \in Nat
  BY CampaignAssumption DEF ZeroWindow, Windows, Events, Verdicts, Claim,
     NoClaim, Origin

(* Appending a chain keeps the types of everything it writes. *)
LEMMA AppendTypes ==
  ASSUME TypeInv, NEW t \in Task, NEW v \in Verdicts, NEW w \in Windows,
         NEW c \in SUBSET Events, AppendChain(t, v, w, c)
  PROVE  /\ verdict' \in [Task -> Verdicts \cup {"none"}]
         /\ window' \in [Task -> Windows]
         /\ collected' \in [Task -> SUBSET Events]
         /\ pc' = "task" /\ cur' = 0
         /\ win' \in Windows
         /\ got' \in SUBSET Events
<1>1. /\ verdict \in [Task -> Verdicts \cup {"none"}]
      /\ window \in [Task -> Windows]
      /\ collected \in [Task -> SUBSET Events]
  BY DEF TypeInv, TypeOK
<1>2. verdict' = [verdict EXCEPT ![t] = v]
  BY DEF AppendChain
<1>3. window' = [window EXCEPT ![t] = w]
  BY DEF AppendChain
<1>4. collected' = [collected EXCEPT ![t] = c]
  BY DEF AppendChain
<1>5. pc' = "task" /\ cur' = 0 /\ win' = ZeroWindow /\ got' = {}
  BY DEF AppendChain
<1> QED
  BY <1>1, <1>2, <1>3, <1>4, <1>5, Constants

LEMMA LeavesTypes ==
  ASSUME events \in SUBSET Events, NEW t \in Task, NEW from \in Nat,
         NEW to \in Nat, Leaves(t, from, to)
  PROVE  events' \in SUBSET Events
<1>1. CASE UNCHANGED events
  BY <1>1
<1>2. ASSUME NEW x \in from .. to,
             events' = events \cup {[src |-> t, at |-> x]}
      PROVE  events' \in SUBSET Events
  <2>1. x \in Nat
    OBVIOUS
  <2>2. [src |-> t, at |-> x] \in Events
    BY <2>1 DEF Events
  <2> QED
    BY <1>2, <2>2
<1> QED
  BY <1>1, <1>2 DEF Leaves

(* The types hold initially and are preserved by every step; the clock never
   reads a value the epsilon could take below the zero time. *)
LEMMA TypeInit == Init => TypeInv
<1> SUFFICES ASSUME Init PROVE TypeInv
  OBVIOUS
<1>1. plan \in [Task -> Platforms]
  BY CampaignAssumption DEF Init, Task
<1>2. noStack \in SUBSET Platforms
  BY <1>1 DEF Init
<1>3. /\ window \in [Task -> Windows]
      /\ collected \in [Task -> SUBSET Events]
      /\ win \in Windows
      /\ now \in Nat /\ now >= Origin
  BY Constants DEF Init
<1>4. /\ finish \in [Task -> Nat]
      /\ gate \in [Platforms -> {"none", "healthy", "failed"}]
      /\ label \in [Task -> Labels \cup {"none"}]
      /\ verdict \in [Task -> Verdicts \cup {"none"}]
  BY DEF Init
<1> QED
  BY <1>1, <1>2, <1>3, <1>4 DEF Init, TypeInv, TypeOK, Driving

LEMMA TypeStep == TypeInv /\ [Next]_vars => TypeInv'
<1> SUFFICES ASSUME TypeInv, [Next]_vars PROVE TypeInv'
  OBVIOUS
<1> USE DEF inputs, trust, chains
<1>1. ASSUME NEW p \in Platforms, SkipPlatform(p) PROVE TypeInv'
  <2>1. verdict' \in [Task -> Verdicts \cup {"none"}]
    BY <1>1, Constants DEF SkipPlatform, TypeInv, TypeOK, Driving
  <2> QED
    BY <1>1, <2>1 DEF SkipPlatform, TypeInv, TypeOK, Driving
<1>2. ASSUME NEW p \in Platforms, Gate(p) PROVE TypeInv'
  <2>1. /\ gate' \in [Platforms -> {"none", "healthy", "failed"}]
        /\ canaryHealthy' \in BOOLEAN /\ inconclusive' \in BOOLEAN
        /\ now' \in Nat /\ now' >= Origin
    <3>1. CASE synthetic
      BY <1>2, <3>1 DEF Gate, TypeInv, TypeOK, Driving
    <3>2. CASE ~synthetic
      <4>1. PICK healthy \in BOOLEAN :
              /\ gate' = [gate EXCEPT ![p] =
                            IF healthy THEN "healthy" ELSE "failed"]
              /\ canaryHealthy' = (canaryHealthy \/ healthy)
              /\ inconclusive' = (inconclusive \/ ~healthy)
        BY <1>2, <3>2 DEF Gate
      <4>2. now' \in Nat /\ now' >= Origin
        BY <1>2, <3>2, Constants, CampaignAssumption
           DEF Gate, TypeInv, TypeOK, Driving
      <4>3. gate' \in [Platforms -> {"none", "healthy", "failed"}]
        BY <4>1 DEF TypeInv, TypeOK, Driving
      <4>4. canaryHealthy' \in BOOLEAN /\ inconclusive' \in BOOLEAN
        BY <4>1
      <4> QED
        BY <4>2, <4>3, <4>4
    <3> QED
      BY <3>1, <3>2
  <2> QED
    BY <1>2, <2>1 DEF Gate, TypeInv, TypeOK, Driving
<1>3. ASSUME NEW t \in Task, Unresolved(t) PROVE TypeInv'
  <2>1. AppendChain(t, "ERROR", ZeroWindow, {})
    BY <1>3 DEF Unresolved
  <2> QED
    BY <1>3, <2>1, AppendTypes, Constants DEF Unresolved, TypeInv, TypeOK, Driving
<1>4. ASSUME NEW t \in Task, Unmet(t) PROVE TypeInv'
  <2>1. AppendChain(t, "SKIPPED_PREREQ", ZeroWindow, {})
    BY <1>4 DEF Unmet
  <2>2. PICK d \in 0 .. MaxProbe : now' = now + d /\ Leaves(t, now, now + d)
    BY <1>4 DEF Unmet
  <2>3. now' \in Nat /\ now' >= Origin
    BY <2>2, Constants, CampaignAssumption DEF TypeInv, TypeOK, Driving
  <2>4. events' \in SUBSET Events
    BY <2>2, <2>3, LeavesTypes DEF TypeInv, TypeOK, Driving
  <2> QED
    BY <1>4, <2>1, <2>3, <2>4, AppendTypes, Constants
       DEF Unmet, TypeInv, TypeOK, Driving
<1>5. ASSUME NEW t \in Task, Ready(t) PROVE TypeInv'
  <2>2. PICK d \in 0 .. MaxProbe : now' = now + d /\ Leaves(t, now, now + d)
    BY <1>5 DEF Ready
  <2>3. now' \in Nat /\ now' >= Origin
    BY <2>2, Constants, CampaignAssumption DEF TypeInv, TypeOK, Driving
  <2>4. events' \in SUBSET Events
    BY <2>2, <2>3, LeavesTypes DEF TypeInv, TypeOK, Driving
  <2> QED
    BY <1>5, <2>3, <2>4 DEF Ready, TypeInv, TypeOK, Driving
<1>6. ASSUME NEW t \in Task, ExecuteFails(t) PROVE TypeInv'
  <2>1. AppendChain(t, "ERROR", ZeroWindow, {})
    BY <1>6 DEF ExecuteFails, AppendError
  <2> QED
    BY <1>6, <2>1, AppendTypes, Constants DEF ExecuteFails, TypeInv, TypeOK, Driving
<1>7. ASSUME NEW t \in Task, Execute(t) PROVE TypeInv'
  <2>1. PICK d \in 0 .. MaxCommand, c \in 0 .. MaxCleanup :
          /\ now' = now + d + c
          /\ Leaves(t, now, now + d + c + MaxLinger)
          /\ finish' = [finish EXCEPT ![t] = now + d]
          /\ win' = Window(now, now + d)
    BY <1>7 DEF Execute
  <2>2. /\ now' \in Nat /\ now' >= Origin /\ now + d \in Nat
        /\ now - Eps \in Nat /\ now + d + Pad \in Nat
        /\ now + d + c + MaxLinger \in Nat
    BY <2>1, Constants, CampaignAssumption DEF TypeInv, TypeOK, Driving
  <2>3. events' \in SUBSET Events
    BY <2>1, <2>2, LeavesTypes DEF TypeInv, TypeOK, Driving
  <2>4. win' \in Windows
    BY <2>1, <2>2 DEF Window, Windows
  <2>5. finish' \in [Task -> Nat]
    BY <2>1, <2>2 DEF TypeInv, TypeOK, Driving
  <2> QED
    BY <1>7, <2>2, <2>3, <2>4, <2>5 DEF Execute, TypeInv, TypeOK, Driving
<1>8. ASSUME NEW t \in Task, Unmapped(t) PROVE TypeInv'
  <2>1. AppendChain(t, "ERROR", win, {})
    BY <1>8 DEF Unmapped
  <2>2. win \in Windows
    BY DEF TypeInv, TypeOK, Driving
  <2> QED
    BY <1>8, <2>1, <2>2, AppendTypes, Constants DEF Unmapped, TypeInv, TypeOK, Driving
<1>9. ASSUME NEW t \in Task, CollectFails(t) PROVE TypeInv'
  <2>1. AppendChain(t, "ERROR", ZeroWindow, {})
    BY <1>9 DEF CollectFails, AppendError
  <2>2. now' \in Nat /\ now' >= Origin
    BY <1>9, Constants, CampaignAssumption DEF CollectFails, TypeInv, TypeOK, Driving
  <2> QED
    BY <1>9, <2>1, <2>2, AppendTypes, Constants
       DEF CollectFails, TypeInv, TypeOK, Driving
<1>10. ASSUME NEW t \in Task, Collect(t) PROVE TypeInv'
  <2>1. now' \in Nat /\ now' >= Origin
    BY <1>10, Constants, CampaignAssumption DEF Collect, TypeInv, TypeOK, Driving
  <2>2. got' \in SUBSET Events
    BY <1>10 DEF Collect, Visible, TypeInv, TypeOK, Driving
  <2> QED
    BY <1>10, <2>1, <2>2 DEF Collect, TypeInv, TypeOK, Driving
<1>11. ASSUME NEW t \in Task, EvaluateFails(t) PROVE TypeInv'
  <2>1. AppendChain(t, "ERROR", ZeroWindow, {})
    BY <1>11 DEF EvaluateFails, AppendError
  <2> QED
    BY <1>11, <2>1, AppendTypes, Constants DEF EvaluateFails, TypeInv, TypeOK, Driving
<1>12. ASSUME NEW t \in Task, Evaluate(t) PROVE TypeInv'
  <2>1. PICK v \in Verdicts : AppendChain(t, v, win, got)
    BY <1>12, Constants DEF Evaluate
  <2>2. win \in Windows /\ got \in SUBSET Events
    BY DEF TypeInv, TypeOK, Driving
  <2> QED
    BY <1>12, <2>1, <2>2, AppendTypes DEF Evaluate, TypeInv, TypeOK, Driving
<1>13. CASE NextPlatform
  BY <1>13 DEF NextPlatform, TypeInv, TypeOK, Driving
<1>14. CASE Conclude
  <2>1. verdict' \in [Task -> Verdicts \cup {"none"}]
    BY <1>14, Constants DEF Conclude, FinalVerdict, TypeInv, TypeOK, Driving
  <2>2. label' \in [Task -> Labels \cup {"none"}]
    BY <1>14 DEF Conclude, LabelOf, Labels
  <2>3. canaryHealthy' \in BOOLEAN
    BY <1>14 DEF Conclude
  <2> QED
    BY <1>14, <2>1, <2>2, <2>3 DEF Conclude, TypeInv, TypeOK, Driving
<1>15. CASE UNCHANGED vars
  BY <1>15 DEF vars, TypeInv, TypeOK, Driving
<1> QED
  BY <1>1, <1>2, <1>3, <1>4, <1>5, <1>6, <1>7, <1>8, <1>9, <1>10, <1>11,
     <1>12, <1>13, <1>14, <1>15 DEF Next, Technique, Done

(* Every variable of a campaign keeps its type, for any plan and any bounds. *)
THEOREM TypeCorrect == Spec => []TypeOK
<1>1. TypeInv => TypeOK
  BY DEF TypeInv
<1> QED
  BY TypeInit, TypeStep, <1>1, PTL DEF Spec

----------------------------------------------------------------------------
(* The gates: appending the chain of a task of the active platform. *)
LEMMA GateAppend ==
  ASSUME TypeInv, GateInv, NEW t \in Task, NEW v \in Verdicts, NEW w, NEW c,
         Driving, plan[t] = active, AppendChain(t, v, w, c),
         UNCHANGED <<inputs, trust, active, handled, ran>>
  PROVE  GateInv'
<1>1. pc' = "task" /\ verdict' = [verdict EXCEPT ![t] = v]
  BY DEF AppendChain
<1>2. verdict \in [Task -> Verdicts \cup {"none"}]
  BY DEF TypeInv, TypeOK
<1>3. \A u \in Task : verdict'[u] = IF u = t THEN v ELSE verdict[u]
  BY <1>1, <1>2
<1>4. v # "none"
  BY Constants
<1>5. pc # "done"
  BY DEF Driving
<1> QED
  BY <1>1, <1>3, <1>4, <1>5
     DEF GateInv, Driving, Running, inputs, trust

(* An action whose task is the first pending one, or the current one, appends
   the chain of a task of the active platform. *)
LEMMA TaskIsActive ==
  ASSUME GateInv, NEW t \in Task,
         (pc = "task" /\ IsFirst(t)) \/ (Running /\ cur = t)
  PROVE  Driving /\ plan[t] = active /\ verdict[t] = "none"
BY DEF GateInv, Driving, Running, IsFirst, Pending

LEMMA GateStep == TypeInv /\ GateInv /\ [Next]_vars => GateInv'
<1> SUFFICES ASSUME TypeInv, GateInv, [Next]_vars PROVE GateInv'
  OBVIOUS
<1>1. ASSUME NEW p \in Platforms, SkipPlatform(p) PROVE GateInv'
  <2>1. \A u \in Task : verdict'[u] = IF plan[u] = p THEN "ERROR"
                                                     ELSE verdict[u]
    BY <1>1 DEF SkipPlatform
  <2>2. /\ pc = "platform" /\ pc' = "platform" /\ handled' = handled \cup {p}
        /\ UNCHANGED <<inputs, trust, ran>>
    BY <1>1 DEF SkipPlatform
  <2> QED
    BY <2>1, <2>2 DEF GateInv, Driving, Running, inputs, trust
<1>2. ASSUME NEW p \in Platforms, Gate(p) PROVE GateInv'
  <2>1. /\ pc = "platform" /\ pc' = "task" /\ active' = p /\ p \notin handled
        /\ UNCHANGED <<inputs, chains, handled, ran>>
    BY <1>2 DEF Gate, IsNext, Waiting
  <2>2. CASE synthetic
    <3>1. UNCHANGED trust
      BY <1>2, <2>2 DEF Gate
    <3> QED
      BY <2>1, <2>2, <3>1
         DEF GateInv, Driving, Running, inputs, trust, chains
  <2>3. CASE ~synthetic
    <3>1. PICK healthy \in BOOLEAN :
            /\ gate' = [gate EXCEPT ![p] =
                          IF healthy THEN "healthy" ELSE "failed"]
            /\ canaryHealthy' = (canaryHealthy \/ healthy)
            /\ inconclusive' = (inconclusive \/ ~healthy)
      BY <1>2, <2>3 DEF Gate
    <3>2. gate \in [Platforms -> {"none", "healthy", "failed"}]
      BY DEF TypeInv, TypeOK
    <3>3. gate[p] = "none"
      BY <2>1 DEF GateInv, Driving
    <3>4. \A q \in Platforms : gate'[q] =
            IF q = p THEN (IF healthy THEN "healthy" ELSE "failed")
                     ELSE gate[q]
      BY <3>1, <3>2
    <3>5. inconclusive' = (\E q \in Platforms : gate'[q] = "failed")
      <4>1. inconclusive = (\E q \in Platforms : gate[q] = "failed")
        BY <2>1 DEF GateInv
      <4>2. (\E q \in Platforms : gate'[q] = "failed")
              = ((\E q \in Platforms : gate[q] = "failed") \/ ~healthy)
        <5>1. CASE ~healthy
          BY <3>4, <5>1
        <5>2. CASE ~(~healthy)
          BY <3>3, <3>4, <5>2
        <5> QED
          BY <5>1, <5>2
      <4> QED
        BY <3>1, <4>1, <4>2
    <3>6. canaryHealthy' = (\E q \in Platforms : gate'[q] = "healthy")
      <4>1. canaryHealthy = (\E q \in Platforms : gate[q] = "healthy")
        BY <2>1 DEF GateInv
      <4>2. (\E q \in Platforms : gate'[q] = "healthy")
              = ((\E q \in Platforms : gate[q] = "healthy") \/ healthy)
        <5>1. CASE healthy
          BY <3>4, <5>1
        <5>2. CASE ~(healthy)
          BY <3>3, <3>4, <5>2
        <5> QED
          BY <5>1, <5>2
      <4> QED
        BY <3>1, <4>1, <4>2
    <3> QED
      BY <2>1, <2>3, <3>3, <3>4, <3>5, <3>6
         DEF GateInv, Driving, Running, inputs, chains, TypeInv, TypeOK
  <2> QED
    BY <2>2, <2>3
<1>3. ASSUME NEW t \in Task,
             \/ Unresolved(t) \/ Unmet(t) \/ ExecuteFails(t) \/ Unmapped(t)
             \/ CollectFails(t) \/ EvaluateFails(t) \/ Evaluate(t)
      PROVE  GateInv'
  <2>1. /\ (pc = "task" /\ IsFirst(t)) \/ (Running /\ cur = t)
        /\ \E v \in Verdicts : \E w, c : AppendChain(t, v, w, c)
        /\ UNCHANGED <<inputs, trust, active, handled, ran>>
    BY <1>3, Constants
       DEF Unresolved, Unmet, ExecuteFails, Unmapped, CollectFails,
           EvaluateFails, Evaluate, AppendError, Running
  <2> QED
    BY <2>1, TaskIsActive, GateAppend
<1>4. ASSUME NEW t \in Task, Ready(t) PROVE GateInv'
  <2>1. Driving /\ plan[t] = active /\ verdict[t] = "none"
    BY <1>4, TaskIsActive DEF Ready
  <2> QED
    BY <1>4, <2>1
       DEF Ready, GateInv, Driving, Running, inputs, trust, chains
<1>5. ASSUME NEW t \in Task, Execute(t) PROVE GateInv'
  <2>1. Driving /\ plan[t] = active /\ verdict[t] = "none"
    BY <1>5, TaskIsActive DEF Execute, Running
  <2>2. /\ pc = "execute" /\ cur = t /\ pc' = "collect"
        /\ ran' = ran \cup {t}
        /\ UNCHANGED <<inputs, trust, chains, active, cur, handled>>
    BY <1>5 DEF Execute
  <2> QED
    BY <2>1, <2>2
       DEF GateInv, Driving, Running, inputs, trust, chains
<1>6. ASSUME NEW t \in Task, Collect(t) PROVE GateInv'
  BY <1>6 DEF Collect, GateInv, Driving, Running, inputs, trust, chains
<1>7. CASE NextPlatform
  <2>1. \A t \in Task : plan[t] = active => verdict[t] # "none"
    BY <1>7 DEF NextPlatform, Pending
  <2> QED
    BY <1>7, <2>1
       DEF NextPlatform, GateInv, Driving, Running, inputs, trust, chains
<1>8. CASE Conclude
  <2>1. /\ pc = "platform" /\ pc' = "done"
        /\ UNCHANGED <<inputs, inconclusive, gate, handled, active, ran>>
        /\ canaryHealthy' = (canaryHealthy /\ ~inconclusive)
    BY <1>8 DEF Conclude
  <2>2. \A t \in Task : verdict'[t] = FinalVerdict(t)
    BY <1>8 DEF Conclude
  <2>3. \A t \in Task :
          /\ verdict'[t] \in Claim =>
               ~inconclusive /\ verdict[t] \notin {"none", "ERROR"}
          /\ verdict[t] # "none" => verdict'[t] # "none"
    BY <2>2 DEF FinalVerdict, Claim
  <2>4. ~synthetic => TrustFieldsAgree'
    BY <2>1 DEF GateInv, TrustFieldsAgree, inputs
  <2> QED
    BY <2>1, <2>3, <2>4 DEF GateInv, Driving, Running, inputs
<1>9. CASE UNCHANGED vars
  BY <1>9 DEF vars, GateInv, Driving, Running, TrustFieldsAgree, inputs,
              trust, chains
<1> QED
  BY <1>1, <1>2, <1>3, <1>4, <1>5, <1>6, <1>7, <1>8, <1>9
     DEF Next, Technique, Done

LEMMA GateInit == Init => GateInv
BY DEF Init, GateInv, Driving, Running

(* The two booleans a reader sees say exactly what the controls said. *)
THEOREM TrustFieldsCorrect == Spec => []TrustFieldsAgree
<1>1. GateInv => TrustFieldsAgree
  BY DEF GateInv, TrustFieldsAgree
<1> QED
  BY TypeInit, TypeStep, GateInit, GateStep, <1>1, PTL DEF Spec

(* No technique executes in a real campaign before its platform's control. *)
THEOREM ControlFirst == Spec => []ControlPrecedesExecution
<1>1. GateInv => ControlPrecedesExecution
  BY DEF GateInv, ControlPrecedesExecution
<1> QED
  BY TypeInit, TypeStep, GateInit, GateStep, <1>1, PTL DEF Spec

----------------------------------------------------------------------------
(* The windows. A chain appended without a window changes no window: the task
   had none before. *)
LEMMA TimeAppendNone ==
  ASSUME TypeInv, Ordered, NEW t \in Task, NEW v \in Verdicts,
         NEW c, verdict[t] = "none", AppendChain(t, v, ZeroWindow, c),
         UNCHANGED finish, now' \in Nat, now' >= now
  PROVE  Ordered'
<1>1. /\ pc' = "task"
      /\ verdict' = [verdict EXCEPT ![t] = v]
      /\ window' = [window EXCEPT ![t] = ZeroWindow]
  BY DEF AppendChain
<1>2. /\ verdict \in [Task -> Verdicts \cup {"none"}]
      /\ window \in [Task -> Windows]
      /\ finish \in [Task -> Nat]
      /\ now \in Nat
  BY DEF TypeInv, TypeOK
<1>3. window[t] = ZeroWindow
  BY DEF Ordered, TimeInv
<1>4. \A u \in Task : window'[u] = window[u]
  BY <1>1, <1>2, <1>3
<1>5. \A u \in Task : window[u] # ZeroWindow =>
                        u # t /\ verdict'[u] = verdict[u]
  BY <1>1, <1>2, <1>3
<1>6. TimeInv'
  BY <1>1, <1>2, <1>4, <1>5, CampaignAssumption
     DEF Ordered, TimeInv, SpanOf, Settled
<1>7. EpsilonStaysClear'
  BY <1>4, <1>5 DEF Ordered, EpsilonStaysClear
<1> QED
  BY <1>6, <1>7 DEF Ordered

(* A chain appended with its window: an ERROR, or one that was collected. *)
LEMMA TimeAppendWindow ==
  ASSUME TypeInv, Ordered, NEW t \in Task, NEW v \in Verdicts, NEW c,
         verdict[t] = "none", cur = t,
         \/ pc = "collect" /\ v = "ERROR"
         \/ pc = "evaluate",
         AppendChain(t, v, win, c),
         UNCHANGED <<finish, now>>
  PROVE  Ordered'
<1>1. /\ pc' = "task"
      /\ verdict' = [verdict EXCEPT ![t] = v]
      /\ window' = [window EXCEPT ![t] = win]
  BY DEF AppendChain
<1>2. /\ verdict \in [Task -> Verdicts \cup {"none"}]
      /\ window \in [Task -> Windows] /\ win \in Windows
      /\ finish \in [Task -> Nat]
      /\ now \in Nat
  BY DEF TypeInv, TypeOK
<1>3. /\ window'[t] = win /\ verdict'[t] = v /\ v # "none"
      /\ \A u \in Task \ {t} : /\ window'[u] = window[u]
                               /\ verdict'[u] = verdict[u]
  BY <1>1, <1>2, Constants
<1>4. /\ SpanOf(win, finish[t]) /\ finish[t] <= now
      /\ \A u \in Task : window[u] # ZeroWindow => finish[u] <= win.start + Eps
      /\ \A u \in Task : Settled(u) => finish[u] + MinWait <= win.start + Eps
      /\ v # "ERROR" => finish[t] + MinWait <= now
  BY DEF Ordered, TimeInv
<1>5. TimeInv'
  <2>1. \A u \in Task : window'[u] # ZeroWindow =>
          /\ verdict'[u] # "none"
          /\ SpanOf(window'[u], finish[u])
          /\ finish[u] <= now
    BY <1>3, <1>4 DEF Ordered, TimeInv
  <2>2. \A u \in Task : Settled(u)' => finish[u] + MinWait <= now
    BY <1>3, <1>4 DEF Ordered, TimeInv, Settled
  <2> QED
    BY <1>1, <2>1, <2>2 DEF TimeInv, SpanOf
<1>6. EpsilonStaysClear'
  <2> SUFFICES ASSUME NEW x \in Task, NEW u \in Task,
                      window'[x] # ZeroWindow, window'[u] # ZeroWindow,
                      verdict'[u] # "ERROR", finish[u] < finish[x]
               PROVE  finish[u] <= window'[x].start
    BY DEF EpsilonStaysClear
  <2>1. CASE x = t /\ u # t
    <3>1. Settled(u)
      BY <1>3, <2>1 DEF Settled
    <3>2. finish[u] + MinWait <= win.start + Eps
      BY <1>4, <3>1
    <3>3. finish[u] \in Nat /\ win.start \in Nat
      BY <1>2 DEF Windows
    <3> QED
      BY <1>3, <2>1, <3>2, <3>3, CampaignAssumption
  <2>2. CASE x # t /\ u = t
    <3>1. finish[x] <= win.start + Eps /\ win.start + Eps <= finish[t]
      BY <1>3, <1>4, <2>2 DEF SpanOf
    <3>2. finish[x] \in Nat /\ finish[t] \in Nat /\ win.start \in Nat
      BY <1>2 DEF Windows
    <3> QED
      BY <2>2, <3>1, <3>2, CampaignAssumption
  <2>3. CASE x # t /\ u # t
    BY <1>3, <2>3 DEF Ordered, EpsilonStaysClear
  <2>4. CASE x = t /\ u = t
    <3>1. finish[t] \in Nat
      BY <1>2
    <3> QED
      BY <2>4, <3>1
  <2> QED
    BY <2>1, <2>2, <2>3, <2>4
<1> QED
  BY <1>5, <1>6 DEF Ordered

LEMMA TimeInit == Init => Ordered
BY DEF Init, Ordered, TimeInv, EpsilonStaysClear, Settled

LEMMA TimeStep == TypeInv /\ GateInv /\ Ordered /\ [Next]_vars => Ordered'
<1> SUFFICES ASSUME TypeInv, GateInv, Ordered, [Next]_vars PROVE Ordered'
  OBVIOUS
<1>t. /\ verdict \in [Task -> Verdicts \cup {"none"}]
      /\ window \in [Task -> Windows] /\ win \in Windows
      /\ finish \in [Task -> Nat]
      /\ now \in Nat /\ now >= Origin
  BY DEF TypeInv, TypeOK
<1>1. ASSUME NEW p \in Platforms, SkipPlatform(p) PROVE Ordered'
  <2>1. /\ pc = "platform" /\ pc' = "platform"
        /\ UNCHANGED <<window, finish, now>>
        /\ \A u \in Task : verdict'[u] = verdict[u] \/ verdict'[u] = "ERROR"
    BY <1>1 DEF SkipPlatform
  <2> QED
    BY <2>1 DEF Ordered, TimeInv, EpsilonStaysClear, Settled
<1>2. ASSUME NEW p \in Platforms, Gate(p) PROVE Ordered'
  <2>1. pc' = "task" /\ UNCHANGED <<window, verdict, finish>>
    BY <1>2 DEF Gate, chains
  <2>2. now' \in Nat /\ now' >= now
    BY <1>2, <1>t, CampaignAssumption DEF Gate
  <2> QED
    BY <1>t, <2>1, <2>2, CampaignAssumption
       DEF Ordered, TimeInv, EpsilonStaysClear, Settled, SpanOf
<1>3. ASSUME NEW t \in Task,
             \/ Unresolved(t) \/ Unmet(t) \/ ExecuteFails(t)
             \/ CollectFails(t) \/ EvaluateFails(t)
      PROVE  Ordered'
  <2>1. (pc = "task" /\ IsFirst(t)) \/ (Running /\ cur = t)
    BY <1>3 DEF Unresolved, Unmet, ExecuteFails, CollectFails, EvaluateFails,
                Running
  <2>2. \E v \in Verdicts : AppendChain(t, v, ZeroWindow, {})
    BY <1>3, Constants DEF Unresolved, Unmet, ExecuteFails, CollectFails,
                           EvaluateFails, AppendError
  <2>3. UNCHANGED finish /\ now' \in Nat /\ now' >= now
    BY <1>3, <1>t, CampaignAssumption
       DEF Unresolved, Unmet, ExecuteFails, CollectFails, EvaluateFails
  <2> QED
    BY <2>1, <2>2, <2>3, TaskIsActive, TimeAppendNone
<1>4. ASSUME NEW t \in Task, Unmapped(t) \/ Evaluate(t) PROVE Ordered'
  <2>1. pc \in {"collect", "evaluate"} /\ cur = t /\ UNCHANGED <<finish, now>>
    BY <1>4 DEF Unmapped, Evaluate
  <2>2. verdict[t] = "none"
    BY <2>1, TaskIsActive DEF Running
  <2>3. \E v \in Verdicts : \E c :
          /\ (pc = "collect" /\ v = "ERROR") \/ pc = "evaluate"
          /\ AppendChain(t, v, win, c)
    BY <1>4, Constants DEF Unmapped, Evaluate
  <2> QED
    BY <2>1, <2>2, <2>3, TimeAppendWindow
<1>5. ASSUME NEW t \in Task, Ready(t) PROVE Ordered'
  <2>1. pc' = "execute" /\ UNCHANGED <<window, verdict, finish>>
    BY <1>5 DEF Ready, chains
  <2>2. now' \in Nat /\ now' >= now
    BY <1>5, <1>t, CampaignAssumption DEF Ready
  <2> QED
    BY <1>t, <2>1, <2>2, CampaignAssumption
       DEF Ordered, TimeInv, EpsilonStaysClear, Settled, SpanOf
<1>6. ASSUME NEW t \in Task, Execute(t) PROVE Ordered'
  <2>1. PICK d \in 0 .. MaxCommand, c \in 0 .. MaxCleanup :
          /\ now' = now + d + c
          /\ finish' = [finish EXCEPT ![t] = now + d]
          /\ win' = Window(now, now + d)
    BY <1>6 DEF Execute
  <2>2. /\ cur = t /\ cur' = t /\ pc = "execute" /\ pc' = "collect"
        /\ UNCHANGED <<window, verdict>>
    BY <1>6 DEF Execute, chains
  <2>3. verdict[t] = "none" /\ window[t] = ZeroWindow
    BY <2>2, TaskIsActive DEF Running, Ordered, TimeInv
  <2>4. \A u \in Task \ {t} : finish'[u] = finish[u]
    BY <1>t, <2>1
  <2>5. /\ finish'[t] = now + d /\ finish'[t] <= now' /\ now <= now'
        /\ d \in Nat /\ c \in Nat /\ now' \in Nat
    BY <1>t, <2>1, CampaignAssumption
  <2>6. win'.start = now - Eps /\ win'.end = now + d + Pad
    BY <2>1 DEF Window
  <2>7. SpanOf(win', finish'[t])
    BY <1>t, <2>5, <2>6, CampaignAssumption DEF SpanOf, Origin
  <2>8. /\ \A u \in Task : window[u] # ZeroWindow =>
             u # t /\ finish[u] <= win'.start + Eps
        /\ \A u \in Task : Settled(u) =>
             u # t /\ finish[u] + MinWait <= win'.start + Eps
    BY <1>t, <2>3, <2>6, CampaignAssumption DEF Ordered, TimeInv, Settled
  <2>9. TimeInv'
    <3>1. \A u \in Task : window[u] # ZeroWindow =>
            /\ verdict[u] # "none"
            /\ SpanOf(window[u], finish'[u])
            /\ finish'[u] <= now'
      BY <1>t, <2>3, <2>4, <2>5 DEF Ordered, TimeInv
    <3>2. \A u \in Task : Settled(u) => finish'[u] + MinWait <= now'
      BY <1>t, <2>3, <2>4, <2>5, CampaignAssumption
         DEF Ordered, TimeInv, Settled
    <3> QED
      BY <2>2, <2>4, <2>5, <2>7, <2>8, <3>1, <3>2
         DEF TimeInv, Settled, SpanOf
  <2>10. EpsilonStaysClear'
    BY <2>2, <2>3, <2>4 DEF Ordered, EpsilonStaysClear
  <2> QED
    BY <2>9, <2>10 DEF Ordered
<1>7. ASSUME NEW t \in Task, Collect(t) PROVE Ordered'
  <2>1. PICK d \in MinWait .. MaxWait : now' = now + d
    BY <1>7 DEF Collect
  <2>2. /\ pc = "collect" /\ pc' = "evaluate" /\ cur = t
        /\ UNCHANGED <<window, verdict, finish, cur, win>>
    BY <1>7 DEF Collect, chains
  <2>3. now' \in Nat /\ now' >= now /\ finish[cur] + MinWait <= now'
    BY <1>t, <2>1, <2>2, CampaignAssumption DEF Ordered, TimeInv
  <2> QED
    BY <1>t, <2>2, <2>3, CampaignAssumption
       DEF Ordered, TimeInv, EpsilonStaysClear, Settled, SpanOf
<1>8. CASE NextPlatform
  BY <1>8 DEF NextPlatform, chains, Ordered, TimeInv, EpsilonStaysClear,
              Settled, SpanOf
<1>9. CASE Conclude
  <2>1. /\ pc' = "done" /\ UNCHANGED <<window, finish, now>>
        /\ \A t \in Task : verdict'[t] = FinalVerdict(t)
    BY <1>9 DEF Conclude
  <2>2. \A t \in Task :
          /\ verdict[t] # "none" => verdict'[t] # "none"
          /\ verdict'[t] # "ERROR" => verdict[t] # "ERROR"
    BY <2>1 DEF FinalVerdict
  <2> QED
    BY <2>1, <2>2 DEF Ordered, TimeInv, EpsilonStaysClear, Settled, SpanOf
<1>10. CASE UNCHANGED vars
  BY <1>10 DEF vars, chains, Ordered, TimeInv, EpsilonStaysClear, Settled,
               SpanOf
<1> QED
  BY <1>1, <1>2, <1>3, <1>4, <1>5, <1>6, <1>7, <1>8, <1>9, <1>10
     DEF Next, Technique, Done

(* The epsilon of a window never reaches a technique collected before. *)
THEOREM EpsilonClear == Spec => []EpsilonStaysClear
<1>1. Ordered => EpsilonStaysClear
  BY DEF Ordered
<1> QED
  BY TypeInit, TypeStep, GateInit, GateStep, TimeInit, TimeStep, <1>1, PTL
     DEF Spec

----------------------------------------------------------------------------
(* The events. What a command, a probe or a cleanup of task t leaves. *)
LEMMA LeavesSources ==
  ASSUME NEW t \in Task, NEW from, NEW to, Leaves(t, from, to)
  PROVE  \A e \in events' : e \in events \/ e.src = t
BY DEF Leaves

(* Appending the chain of t with a set c of events collected in its window w:
   from then on the events of t belong to a task that has been driven. *)
LEMMA SourceAppend ==
  ASSUME TypeInv, TimeInv, SourceInv,
         NEW t \in Task, NEW v \in Verdicts, NEW w \in Windows,
         NEW c \in SUBSET Events,
         verdict[t] = "none", AppendChain(t, v, w, c),
         UNCHANGED finish,
         \A e \in events' : e \in events \/ e.src = t,
         Running => cur = t,
         \A e \in c : /\ verdict[e.src] # "none" \/ e.src = t
                      /\ w.start <= e.at /\ e.at <= w.end
                      /\ e.src # t /\ window[e.src] # ZeroWindow =>
                           finish[e.src] <= w.start + Eps
  PROVE  SourceInv'
<1>1. /\ pc' = "task" /\ got' = {}
      /\ verdict' = [verdict EXCEPT ![t] = v]
      /\ window' = [window EXCEPT ![t] = w]
      /\ collected' = [collected EXCEPT ![t] = c]
  BY DEF AppendChain
<1>2. /\ verdict \in [Task -> Verdicts \cup {"none"}]
      /\ window \in [Task -> Windows]
      /\ collected \in [Task -> SUBSET Events]
      /\ events \in SUBSET Events
  BY DEF TypeInv, TypeOK
<1>3. /\ window'[t] = w /\ verdict'[t] = v /\ v # "none" /\ collected'[t] = c
      /\ \A u \in Task \ {t} : /\ window'[u] = window[u]
                               /\ verdict'[u] = verdict[u]
                               /\ collected'[u] = collected[u]
  BY <1>1, <1>2, Constants
<1>4. \A e \in Events : e.src \in Task
  BY DEF Events
<1>5. \A e \in events' : verdict'[e.src] # "none"
  BY <1>2, <1>3, <1>4 DEF SourceInv
<1>6. ASSUME NEW u \in Task, NEW e \in collected'[u]
      PROVE  /\ verdict'[e.src] # "none"
             /\ window'[u].start <= e.at /\ e.at <= window'[u].end
             /\ e.src # u /\ window'[e.src] # ZeroWindow =>
                  finish[e.src] <= window'[u].start + Eps
  <2>1. CASE u = t
    <3>1. e \in c /\ e.src \in Task
      BY <1>3, <1>4, <1>6, <2>1
    <3> QED
      BY <1>3, <2>1, <3>1
  <2>2. CASE u # t
    <3>1. e \in collected[u] /\ e.src \in Task
      BY <1>2, <1>3, <1>4, <1>6, <2>2
    <3>2. /\ verdict[e.src] # "none"
          /\ window[u].start <= e.at /\ e.at <= window[u].end
          /\ e.src # u /\ window[e.src] # ZeroWindow =>
               finish[e.src] <= window[u].start + Eps
      BY <3>1 DEF SourceInv
    <3>3. e.src # t
      BY <3>2
    <3> QED
      BY <1>3, <2>2, <3>1, <3>2, <3>3
  <2> QED
    BY <2>1, <2>2
<1> QED
  BY <1>1, <1>5, <1>6 DEF SourceInv

LEMMA SourceInit == Init => SourceInv
BY DEF Init, SourceInv

LEMMA SourceStep ==
  TypeInv /\ GateInv /\ Ordered /\ SourceInv /\ [Next]_vars => SourceInv'
<1> SUFFICES ASSUME TypeInv, GateInv, Ordered, SourceInv, [Next]_vars
             PROVE  SourceInv'
  OBVIOUS
<1>t. /\ verdict \in [Task -> Verdicts \cup {"none"}]
      /\ window \in [Task -> Windows] /\ win \in Windows
      /\ collected \in [Task -> SUBSET Events] /\ got \in SUBSET Events
      /\ events \in SUBSET Events
      /\ finish \in [Task -> Nat]
      /\ \A e \in Events : e.src \in Task
  BY DEF TypeInv, TypeOK, Events
<1>i. TimeInv
  BY DEF Ordered
<1>1. ASSUME NEW p \in Platforms, SkipPlatform(p) PROVE SourceInv'
  <2>1. /\ pc = "platform" /\ pc' = "platform"
        /\ UNCHANGED <<window, collected, finish, events, got, win, cur>>
        /\ \A u \in Task : verdict'[u] = verdict[u] \/ verdict'[u] = "ERROR"
    BY <1>1 DEF SkipPlatform
  <2> QED
    BY <1>t, <2>1 DEF SourceInv, Running
<1>2. ASSUME NEW p \in Platforms, Gate(p) PROVE SourceInv'
  BY <1>2 DEF Gate, chains, SourceInv, Running
<1>3. ASSUME NEW t \in Task,
             \/ Unresolved(t) \/ Unmet(t) \/ ExecuteFails(t)
             \/ CollectFails(t) \/ EvaluateFails(t) \/ Unmapped(t)
      PROVE  SourceInv'
  <2>1. (pc = "task" /\ IsFirst(t)) \/ (Running /\ cur = t)
    BY <1>3 DEF Unresolved, Unmet, ExecuteFails, CollectFails, EvaluateFails,
                Unmapped, Running
  <2>2. \E v \in Verdicts, w \in Windows : AppendChain(t, v, w, {})
    BY <1>3, <1>t, Constants
       DEF Unresolved, Unmet, ExecuteFails, CollectFails, EvaluateFails,
           Unmapped, AppendError
  <2>3. UNCHANGED finish
    BY <1>3 DEF Unresolved, Unmet, ExecuteFails, CollectFails, EvaluateFails,
                Unmapped
  <2>4. \A e \in events' : e \in events \/ e.src = t
    BY <1>3, LeavesSources
       DEF Unresolved, Unmet, ExecuteFails, CollectFails, EvaluateFails,
           Unmapped
  <2>5. verdict[t] = "none" /\ (Running => cur = t)
    BY <2>1, TaskIsActive DEF Running
  <2> QED
    BY <1>i, <2>2, <2>3, <2>4, <2>5, SourceAppend, Constants
<1>4. ASSUME NEW t \in Task, Evaluate(t) PROVE SourceInv'
  <2>1. PICK v \in Verdicts : AppendChain(t, v, win, got)
    BY <1>4, Constants DEF Evaluate
  <2>2. pc = "evaluate" /\ cur = t /\ UNCHANGED <<finish, events>>
    BY <1>4 DEF Evaluate
  <2>3. verdict[t] = "none"
    BY <2>2, TaskIsActive DEF Running
  <2>4. \A u \in Task : window[u] # ZeroWindow => finish[u] <= win.start + Eps
    BY <2>2, <1>i DEF TimeInv
  <2>5. \A e \in got : /\ verdict[e.src] # "none" \/ e.src = t
                       /\ win.start <= e.at /\ e.at <= win.end
                       /\ e.src # t /\ window[e.src] # ZeroWindow =>
                            finish[e.src] <= win.start + Eps
    BY <1>t, <2>2, <2>4 DEF SourceInv
  <2> QED
    BY <1>t, <1>i, <2>1, <2>2, <2>3, <2>5, SourceAppend
<1>5. ASSUME NEW t \in Task, Ready(t) PROVE SourceInv'
  <2>1. /\ pc = "task" /\ pc' = "execute" /\ cur' = t
        /\ UNCHANGED <<verdict, window, collected, finish, got, win>>
    BY <1>5 DEF Ready, chains
  <2>2. \A e \in events' : e \in events \/ e.src = t
    BY <1>5, LeavesSources DEF Ready
  <2>3. got = {}
    BY <2>1 DEF SourceInv
  <2> QED
    BY <2>1, <2>2, <2>3 DEF SourceInv, Running
<1>6. ASSUME NEW t \in Task, Execute(t) PROVE SourceInv'
  <2>1. /\ pc = "execute" /\ pc' = "collect" /\ cur = t /\ cur' = t
        /\ UNCHANGED <<verdict, window, collected, got>>
    BY <1>6 DEF Execute, chains
  <2>2. \A e \in events' : e \in events \/ e.src = t
    BY <1>6, LeavesSources DEF Execute
  <2>3. got = {}
    BY <2>1 DEF SourceInv
  <2>4. verdict[t] = "none" /\ window[t] = ZeroWindow
    BY <2>1, <1>i, TaskIsActive DEF Running, TimeInv
  <2>5. \A u \in Task \ {t} : finish'[u] = finish[u]
    BY <1>6, <1>t DEF Execute
  <2>6. \A u \in Task : \A e \in collected[u] :
          e \in Events /\ e.src \in Task /\ e.src # t
    BY <1>t, <2>4 DEF SourceInv
  <2> QED
    BY <2>1, <2>2, <2>3, <2>4, <2>5, <2>6 DEF SourceInv, Running
<1>7. ASSUME NEW t \in Task, Collect(t) PROVE SourceInv'
  <2>1. /\ pc = "collect" /\ pc' = "evaluate" /\ cur = t
        /\ got' \in SUBSET Visible(t, now')
        /\ UNCHANGED <<verdict, window, collected, finish, events, win, cur>>
    BY <1>7 DEF Collect, chains
  <2> QED
    BY <2>1 DEF SourceInv, Running, Visible
<1>8. CASE NextPlatform
  BY <1>8 DEF NextPlatform, chains, SourceInv, Running
<1>9. CASE Conclude
  <2>1. /\ pc = "platform" /\ pc' = "done"
        /\ UNCHANGED <<window, collected, finish, events, got, win, cur>>
        /\ \A u \in Task : verdict'[u] = FinalVerdict(u)
    BY <1>9 DEF Conclude
  <2>2. \A u \in Task : verdict[u] # "none" => verdict'[u] # "none"
    BY <2>1 DEF FinalVerdict
  <2>3. got = {}
    BY <2>1 DEF SourceInv
  <2> QED
    BY <1>t, <2>1, <2>2, <2>3 DEF SourceInv, Running
<1>10. CASE UNCHANGED vars
  BY <1>10 DEF vars, chains, SourceInv, Running
<1> QED
  BY <1>1, <1>2, <1>3, <1>4, <1>5, <1>6, <1>7, <1>8, <1>9, <1>10
     DEF Next, Technique, Done

(* Labels are written once, by the last step, and read off the windows. *)
LEMMA LabelInit == Init => LabelInv
BY DEF Init, LabelInv

LEMMA LabelStep == TypeInv /\ LabelInv /\ [Next]_vars => LabelInv'
<1> SUFFICES ASSUME TypeInv, LabelInv, [Next]_vars PROVE LabelInv'
  OBVIOUS
<1>1. CASE pc # "done" /\ UNCHANGED label
  BY <1>1 DEF LabelInv
<1>2. CASE Conclude
  <2>1. UNCHANGED <<synthetic, window>> /\ pc' = "done"
    BY <1>2 DEF Conclude, inputs
  <2>2. \A t \in Task : label'[t] = LabelOf(t)
    BY <1>2 DEF Conclude
  <2>3. \A t \in Task : LabelOf(t) = LabelOf(t)'
    BY <2>1 DEF LabelOf, OverlapsAnother, Overlaps
  <2> QED
    BY <2>1, <2>2, <2>3 DEF LabelInv
<1>3. CASE UNCHANGED vars
  <2>1. UNCHANGED <<synthetic, window, pc, label>>
    BY <1>3 DEF vars, inputs, chains
  <2>2. \A t \in Task : LabelOf(t) = LabelOf(t)'
    BY <2>1 DEF LabelOf, OverlapsAnother, Overlaps
  <2> QED
    BY <2>1, <2>2 DEF LabelInv
<1>4. (pc # "done" /\ UNCHANGED label) \/ Conclude \/ UNCHANGED vars
  BY DEF Next, Technique, Done, SkipPlatform, Gate, Unresolved, Unmet, Ready,
         ExecuteFails, Execute, Unmapped, CollectFails, Collect,
         EvaluateFails, Evaluate, NextPlatform
<1> QED
  BY <1>1, <1>2, <1>3, <1>4

LEMMA IInvInit == Init => IInv
BY TypeInit, GateInit, TimeInit, SourceInit, LabelInit DEF IInv

LEMMA IInvStep == IInv /\ [Next]_vars => IInv'
BY TypeStep, GateStep, TimeStep, SourceStep, LabelStep DEF IInv

THEOREM Invariance == Spec => []IInv
BY IInvInit, IInvStep, PTL DEF Spec

(* A chain that is not labelled window_overlap collected nothing that another
   recorded execution caused within its own window. An event that the window lets
   through lies between its start and the end of the other one; since the other
   command finished before this one started, the two windows intersect, which is
   what the label is computed from. *)
THEOREM Attribution == Spec => []AttributionSound
<1>1. IInv => AttributionSound
  <2> SUFFICES ASSUME IInv, NEW t \in Task, NEW u \in Task,
                      t # u, label[t] \in Scoped, window[u] # ZeroWindow,
                      NEW e \in collected[t], e.src = u, ~(e.at >= window[u].end)
               PROVE  FALSE
    BY DEF AttributionSound
  <2>1. label[t] = LabelOf(t)
    BY DEF IInv, LabelInv, Scoped
  <2>2. ~OverlapsAnother(t) /\ window[t] # ZeroWindow
    BY <2>1 DEF LabelOf, Scoped
  <2>3. /\ window[t] \in Windows /\ window[u] \in Windows
        /\ finish[t] \in Nat /\ finish[u] \in Nat /\ e.at \in Nat
    BY DEF IInv, TypeInv, TypeOK, Events
  <2>4. SpanOf(window[t], finish[t]) /\ SpanOf(window[u], finish[u])
    BY <2>2 DEF IInv, Ordered, TimeInv
  <2>5. window[t].start <= e.at /\ finish[u] <= window[t].start + Eps
    BY DEF IInv, SourceInv
  <2>6. Overlaps(window[t], window[u]) /\ window[u].start # 0
    <3>1. /\ window[t].start \in Nat /\ window[t].end \in Nat
          /\ window[u].start \in Nat /\ window[u].end \in Nat
      BY <2>3 DEF Windows
    <3>2. e.at < window[u].end
      BY <2>3, <3>1
    <3>3. /\ window[t].start + Eps <= finish[t]
          /\ window[t].end = finish[t] + Pad
          /\ 1 <= window[u].start /\ window[u].start + Eps <= finish[u]
          /\ window[u].end = finish[u] + Pad
      BY <2>4 DEF SpanOf
    <3>4. window[t].start < window[u].end
      BY <2>3, <2>5, <3>1, <3>2
    <3>5. window[u].start < window[t].end
      <4>0. Eps \in Nat /\ Pad \in Nat \ {0}
        BY CampaignAssumption
      <4>1. window[u].start <= window[t].start
        <5>1. window[u].start + Eps <= window[t].start + Eps
          BY <2>3, <2>5, <3>1, <3>3, <4>0
        <5> QED
          BY <3>1, <4>0, <5>1
      <4>2. window[t].start < window[t].end
        BY <2>3, <3>1, <3>3, <4>0
      <4> QED
        BY <3>1, <4>1, <4>2
    <3> QED
      BY <3>1, <3>3, <3>4, <3>5 DEF Overlaps
  <2> QED
    BY <2>2, <2>6 DEF OverlapsAnother
<1> QED
  BY Invariance, <1>1, PTL

----------------------------------------------------------------------------
(* The refinement. Nothing is claimed before the last step, so every other
   step leaves the contract's state alone, but for the canaries. *)
LEMMA ContractInit == Init => Contract!Init
<1> SUFFICES ASSUME Init PROVE Contract!Init
  OBVIOUS
<1>1. plan \in [Task -> Platforms]
  BY CampaignAssumption DEF Init, Task
<1> QED
  BY <1>1 DEF Init, Contract!Init, Published, Contract!Unpublished

LEMMA ContractStep == IInv /\ [Next]_vars => [Contract!Next]_(Contract!vars)
<1> SUFFICES ASSUME IInv, [Next]_vars PROVE [Contract!Next]_(Contract!vars)
  OBVIOUS
<1> USE DEF Contract!Unpublished
<1>1. CASE UNCHANGED <<plan, gate, synthetic>> /\ pc # "done" /\ pc' # "done"
  BY <1>1 DEF Contract!vars, Published
<1>2. ASSUME NEW p \in Platforms, Gate(p), ~synthetic
      PROVE  Contract!Next
  <2>1. /\ pc = "platform" /\ pc' = "task" /\ p \notin handled
        /\ UNCHANGED <<plan, synthetic>>
    BY <1>2 DEF Gate, IsNext, Waiting, inputs
  <2>2. PICK healthy \in BOOLEAN :
          gate' = [gate EXCEPT ![p] = IF healthy THEN "healthy" ELSE "failed"]
    BY <1>2 DEF Gate
  <2>3. gate[p] = "none" /\ gate \in [Platforms -> {"none", "healthy", "failed"}]
    BY <2>1 DEF IInv, GateInv, Driving, TypeInv, TypeOK
  <2>4. \A q \in Platforms : gate'[q] =
          IF q = p THEN (IF healthy THEN "healthy" ELSE "failed") ELSE gate[q]
    BY <2>2, <2>3
  <2>5. Published = [t \in Task |-> "none"] /\ Published' = Published
    BY <2>1 DEF Published
  <2>6. CASE healthy
    <3>1. /\ {q \in Platforms : gate'[q] = "healthy"}
                = {q \in Platforms : gate[q] = "healthy"} \cup {p}
          /\ {q \in Platforms : gate'[q] = "failed"}
                = {q \in Platforms : gate[q] = "failed"}
      BY <2>3, <2>4, <2>6
    <3>2. Contract!Prove(p)
      BY <2>1, <2>3, <2>5, <3>1 DEF Contract!Prove
    <3> QED
      BY <3>2 DEF Contract!Next
  <2>7. CASE ~healthy
    <3>1. /\ {q \in Platforms : gate'[q] = "failed"}
                = {q \in Platforms : gate[q] = "failed"} \cup {p}
          /\ {q \in Platforms : gate'[q] = "healthy"}
                = {q \in Platforms : gate[q] = "healthy"}
      BY <2>3, <2>4, <2>7
    <3>2. Contract!Refute(p)
      BY <2>1, <2>3, <2>5, <3>1 DEF Contract!Refute
    <3> QED
      BY <3>2 DEF Contract!Next
  <2> QED
    BY <2>6, <2>7
<1>3. CASE Conclude /\ synthetic
  <2>1. UNCHANGED <<plan, synthetic, gate>>
    BY <1>3 DEF Conclude, inputs
  <2> QED
    BY <1>3, <2>1 DEF Contract!vars, Published
<1>4. CASE Conclude /\ ~synthetic
  <2>1. /\ pc = "platform" /\ pc' = "done" /\ Waiting = {}
        /\ UNCHANGED <<plan, synthetic, gate>>
        /\ verdict' = [t \in Task |-> FinalVerdict(t)]
    BY <1>4 DEF Conclude, inputs
  <2>2. /\ plan \in [Task -> Platforms]
        /\ verdict \in [Task -> Verdicts \cup {"none"}]
        /\ gate \in [Platforms -> {"none", "healthy", "failed"}]
    BY DEF IInv, TypeInv, TypeOK
  <2>3. \A t \in Task : verdict[t] # "none"
    BY <2>1 DEF IInv, GateInv, Waiting
  <2>4. inconclusive = (\E p \in Platforms : gate[p] = "failed")
    BY <2>1 DEF IInv, GateInv
  <2>5. \A t \in Task : verdict[t] \notin {"none", "ERROR"} =>
                          gate[plan[t]] # "none"
    BY <1>4, <2>1 DEF IInv, GateInv
  <2>6. verdict' \in [Task -> Claim \cup NoClaim]
    BY <2>1, <2>2, <2>3, Constants DEF FinalVerdict, Verdicts, NoClaim
  <2>7. ASSUME NEW t \in Task, verdict'[t] \in Claim
        PROVE  /\ {p \in Platforms : gate[p] = "failed"} = {}
               /\ gate[plan[t]] = "healthy"
    <3>1. ~inconclusive /\ verdict[t] \in Claim
      BY <2>1, <2>7 DEF FinalVerdict, Claim
    <3>2. \A p \in Platforms : gate[p] # "failed"
      BY <2>4, <3>1
    <3>3. gate[plan[t]] # "none"
      BY <2>5, <3>1 DEF Claim
    <3> QED
      BY <2>2, <3>2, <3>3
  <2>8. Published = [t \in Task |-> "none"] /\ Published' = verdict'
    BY <1>4, <2>1 DEF Published
  <2>9. Contract!Publish
    BY <2>1, <2>2, <2>6, <2>7, <2>8
       DEF Contract!Publish, Contract!Claim, Contract!NoClaim, Claim, NoClaim
  <2> QED
    BY <2>9 DEF Contract!Next
<1>5. CASE UNCHANGED vars
  BY <1>5 DEF vars, inputs, trust, chains, Contract!vars, Published
<1>6. \/ UNCHANGED <<plan, gate, synthetic>> /\ pc # "done" /\ pc' # "done"
      \/ \E p \in Platforms : Gate(p) /\ ~synthetic
      \/ Conclude
      \/ UNCHANGED vars
  BY DEF Next, Technique, Done, SkipPlatform, Gate, Unresolved, Unmet, Ready,
         ExecuteFails, Execute, Unmapped, CollectFails, Collect,
         EvaluateFails, Evaluate, NextPlatform, AppendError, AppendChain,
         inputs, trust
<1> QED
  BY <1>1, <1>2, <1>3, <1>4, <1>5, <1>6

(* A campaign, whatever its plan and its failures, keeps the trust contract. *)
THEOREM Refinement == Spec => ImplementsContract
BY Invariance, ContractInit, ContractStep, PTL
   DEF Spec, ImplementsContract, Contract!Spec

=============================================================================
