---------------------------- MODULE SettleProofs ----------------------------
(***************************************************************************)
(* What Settle promises, for every choice of its durations.                *)
(***************************************************************************)
EXTENDS Settle, TLAPS

(* The rhythm of the polls: how far a wait can be from the last answer. *)
Rhythm ==
  /\ polled <= clock
  /\ pc = "sleep" => clock <= wake /\ wake <= Latest(MinWait, polled + PollInterval)
  /\ pc = "query" =>
       /\ asked <= clock /\ clock <= asked + MaxQuery
       /\ asked <= Latest(MinWait, polled + PollInterval)
  /\ pc # "returned" => polled <= Timeout
  /\ last > 0 /\ pc = "sleep" => polled + PollInterval <= wake
  /\ last > 0 /\ pc = "query" => polled + PollInterval <= asked

(* What the counters say of the archive: the last event that was counted was
   visible for as many intervals as the streak is long. *)
Stillness ==
  /\ \A k \in 1 .. Len(arrived) : arrived[k] <= clock
  /\ last > 0 => arrived[last] + stable * PollInterval <= polled

(* A match that is still not acted on became visible after the last poll. *)
Unseen ==
  pc # "returned" /\ hit # 0 /\ ~broken => polled <= arrived[hit]

(* There is a result exactly when Settle has returned. *)
Finished ==
  /\ (pc = "returned") = (outcome # "none")
  /\ pc # "returned" => events = 0

IInv == TypeOK /\ Rhythm /\ Stillness /\ Unseen /\ Finished

LEMMA Multiples ==
  ASSUME NEW s \in Nat, NEW n \in Nat, NEW d \in Nat
  PROVE  /\ (s + 1) * d = s * d + d
         /\ s * d \in Nat
         /\ s >= n => s * d >= n * d
<1>1. (s + 1) * d = s * d + d
  OBVIOUS
<1>2. s * d \in Nat
  OBVIOUS
<1>3. ASSUME s >= n PROVE s * d >= n * d
  <2>1. PICK m \in Nat : s = n + m
    <3>1. s - n \in Nat /\ s = n + (s - n)
      BY <1>3
    <3> QED
      BY <3>1
  <2>2. s * d = n * d + m * d
    BY <2>1
  <2>3. m * d >= 0
    BY <2>1
  <2>4. n * d \in Int /\ m * d \in Int
    BY <2>1
  <2> QED
    BY <2>2, <2>3, <2>4
<1> QED
  BY <1>1, <1>2, <1>3

LEMMA Appended ==
  ASSUME NEW s \in Seq(Nat), NEW x \in Nat
  PROVE  /\ Append(s, x) \in Seq(Nat)
         /\ Len(Append(s, x)) = Len(s) + 1
         /\ Len(s) \in Nat
         /\ Append(s, x)[Len(s) + 1] = x
         /\ \A k \in 1 .. Len(s) : Append(s, x)[k] = s[k]
OBVIOUS

LEMMA InitInv == Init => IInv
BY SettleAssumption
   DEF Init, IInv, TypeOK, Rhythm, Stillness, Unseen, Finished, Latest

LEMMA StepInv == IInv /\ [Next]_vars => IInv'
<1> SUFFICES ASSUME IInv, [Next]_vars PROVE IInv'
  OBVIOUS
<1> USE SettleAssumption
<1>t. /\ clock \in Nat /\ polled \in Nat /\ asked \in Nat /\ wake \in Nat
      /\ arrived \in Seq(Nat) /\ Len(arrived) \in Nat
      /\ last \in Nat /\ stable \in Nat /\ hit \in Nat
      /\ \A k \in 1 .. Len(arrived) : arrived[k] \in Nat
  BY DEF IInv, TypeOK
<1>1. CASE Tick
  <2>1. /\ clock' = clock + 1
        /\ UNCHANGED <<arrived, hit, broken, pc, wake, asked, last, stable,
                       polled, outcome, events>>
    BY <1>1 DEF Tick, archive
  <2>2. TypeOK'
    BY <2>1, <1>t DEF IInv, TypeOK
  <2>3. Rhythm'
    BY <1>1, <2>1, <1>t DEF IInv, Rhythm, Tick, Latest
  <2>4. Stillness'
    BY <2>1, <1>t DEF IInv, Stillness
  <2> QED
    BY <2>1, <2>2, <2>3, <2>4 DEF IInv, Unseen, Finished
<1>2. CASE Arrive
  <2>1. /\ arrived' = Append(arrived, clock)
        /\ hit' \in {hit, IF hit = 0 THEN Len(arrived) + 1 ELSE hit}
        /\ UNCHANGED <<clock, broken, pc, wake, asked, last, stable, polled,
                       outcome, events>>
    BY <1>2 DEF Arrive
  <2>2. /\ arrived' \in Seq(Nat)
        /\ Len(arrived') = Len(arrived) + 1
        /\ arrived'[Len(arrived) + 1] = clock
        /\ \A k \in 1 .. Len(arrived) : arrived'[k] = arrived[k]
    BY <2>1, <1>t, Appended
  <2>3. TypeOK'
    BY <2>1, <2>2, <1>t DEF IInv, TypeOK
  <2>4. Stillness'
    <3>1. \A k \in 1 .. Len(arrived') : arrived'[k] <= clock
      BY <2>2, <1>t DEF IInv, Stillness
    <3>2. last > 0 => arrived'[last] = arrived[last]
      BY <2>2, <1>t DEF IInv, TypeOK
    <3> QED
      BY <2>1, <3>1, <3>2 DEF IInv, Stillness
  <2>5. Unseen'
    <3>1. hit # 0 => hit \in 1 .. Len(arrived) /\ arrived'[hit] = arrived[hit]
      BY <2>2, <1>t DEF IInv, TypeOK
    <3>2. polled <= clock
      BY DEF IInv, Rhythm
    <3>3. CASE hit' = hit
      BY <3>1, <3>3, <2>1 DEF IInv, Unseen
    <3>4. CASE hit' = Len(arrived) + 1
      BY <3>4, <3>2, <2>1, <2>2 DEF Unseen
    <3> QED
      BY <2>1, <3>3, <3>4
  <2> QED
    BY <2>1, <2>3, <2>4, <2>5 DEF IInv, Rhythm, Finished
<1>3. CASE Wake
  BY <1>3, <1>t DEF Wake, archive, IInv, TypeOK, Rhythm, Stillness, Unseen,
                    Finished, Latest
<1>4. CASE QueryFails
  BY <1>4, <1>t DEF QueryFails, archive, IInv, TypeOK, Rhythm, Stillness,
                    Unseen, Finished
<1>5. CASE Satisfied
  BY <1>5, <1>t DEF Satisfied, archive, IInv, TypeOK, Rhythm, Stillness,
                    Unseen, Finished
<1>6. CASE Poll
  <2>1. /\ pc = "query" /\ (hit = 0 \/ broken)
        /\ stable' = Streak /\ last' = Len(arrived) /\ polled' = clock
        /\ UNCHANGED <<clock, arrived, hit, broken, asked>>
    BY <1>6 DEF Poll, archive
  <2>2. \/ /\ pc' = "returned" /\ outcome' \in {"settled", "timedOut"}
           /\ events' = Len(arrived) /\ wake' = wake
        \/ /\ clock <= Timeout
           /\ pc' = "sleep" /\ wake' = clock + PollInterval
           /\ UNCHANGED <<outcome, events>>
    BY <1>6, <1>t DEF Poll, Return, PollAgain, NextPoll, TimedOut
  <2>3. Streak \in Nat
    BY <1>t DEF Streak
  <2>4. TypeOK'
    BY <2>1, <2>2, <2>3, <1>t DEF IInv, TypeOK
  <2>5. Rhythm'
    BY <2>1, <2>2, <1>t DEF Rhythm, Latest
  <2>6. Stillness'
    <3>1. CASE Len(arrived) = last /\ last > 0
      <4>1. stable' = stable + 1
        BY <2>1, <3>1 DEF Streak
      <4>2. /\ arrived[last] + stable * PollInterval <= polled
            /\ polled + PollInterval <= asked /\ asked <= clock
        BY <2>1, <3>1 DEF IInv, Stillness, Rhythm
      <4>3. /\ (stable + 1) * PollInterval = stable * PollInterval + PollInterval
            /\ stable * PollInterval \in Nat
        BY <1>t, Multiples
      <4>4. arrived[last] \in Nat
        BY <3>1, <1>t
      <4>5. arrived[last] + (stable + 1) * PollInterval <= clock
        BY <4>2, <4>3, <4>4, <1>t
      <4> QED
        BY <2>1, <3>1, <4>1, <4>5 DEF IInv, Stillness
    <3>2. CASE Len(arrived) # last
      <4>1. stable' = 0 /\ 0 * PollInterval = 0
        BY <2>1, <3>2 DEF Streak
      <4>2. Len(arrived) > 0 => arrived[Len(arrived)] <= clock
        BY <1>t DEF IInv, Stillness
      <4> QED
        BY <2>1, <4>1, <4>2, <1>t DEF IInv, Stillness
    <3>3. CASE last = 0 /\ Len(arrived) = 0
      BY <2>1, <3>3 DEF IInv, Stillness
    <3> QED
      BY <3>1, <3>2, <3>3, <1>t
  <2>7. Unseen'
    BY <2>1 DEF Unseen
  <2>8. Finished'
    BY <2>1, <2>2 DEF IInv, Finished
  <2> QED
    BY <2>4, <2>5, <2>6, <2>7, <2>8 DEF IInv
<1>7. CASE UNCHANGED vars
  BY <1>7 DEF vars, archive, IInv, TypeOK, Rhythm, Stillness, Unseen, Finished
<1> QED
  BY <1>1, <1>2, <1>3, <1>4, <1>5, <1>6, <1>7 DEF Next

THEOREM Invariance == Spec => []IInv
BY InitInv, StepInv, PTL DEF Spec

(* The state of a poll loop keeps its types. *)
THEOREM TypeCorrect == Spec => []TypeOK
<1>1. IInv => TypeOK
  BY DEF IInv
<1> QED
  BY Invariance, <1>1, PTL

(* Settle never outlives its budget by more than a poll and a query. *)
THEOREM InTime == Spec => []ReturnsInTime
<1>1. IInv => ReturnsInTime
  BY SettleAssumption DEF IInv, TypeOK, Rhythm, ReturnsInTime, Latest
<1> QED
  BY Invariance, <1>1, PTL

(* A visible match is acted on within a poll and a query. *)
THEOREM Prompt == Spec => []DetectionIsPrompt
<1>1. IInv => DetectionIsPrompt
  <2> SUFFICES ASSUME IInv, pc # "returned", hit # 0, ~broken
               PROVE  clock <= Latest(MinWait, arrived[hit] + PollInterval)
                                 + MaxQuery
    BY DEF DetectionIsPrompt
  <2>1. /\ clock \in Nat /\ polled \in Nat /\ arrived[hit] \in Nat
        /\ asked \in Nat /\ wake \in Nat
    BY DEF IInv, TypeOK
  <2>2. polled <= arrived[hit]
    BY DEF IInv, Unseen
  <2>3. clock <= Latest(MinWait, polled + PollInterval) + MaxQuery
    BY <2>1, SettleAssumption DEF IInv, TypeOK, Rhythm, Latest
  <2> QED
    BY <2>1, <2>2, <2>3, SettleAssumption DEF Latest
<1> QED
  BY Invariance, <1>1, PTL

LEMMA ContractInit == Init => Contract!Init
BY DEF Init, Contract!Init, Contract!Unanswered

LEMMA ContractStep == IInv /\ [Next]_vars => [Contract!Next]_(Contract!vars)
<1> SUFFICES ASSUME IInv, [Next]_vars PROVE [Contract!Next]_(Contract!vars)
  OBVIOUS
<1>1. CASE Tick
  BY <1>1 DEF Tick, archive, Contract!Next, Contract!Pass
<1>2. CASE Arrive
  BY <1>2 DEF Arrive, Contract!Next, Contract!Arrive
<1>3. CASE Wake
  BY <1>3 DEF Wake, archive, Contract!vars
<1>4. CASE QueryFails
  BY <1>4 DEF QueryFails, archive, IInv, Finished, Contract!Next,
              Contract!Fail, Contract!Unanswered
<1>5. CASE Satisfied
  BY <1>5 DEF Satisfied, archive, IInv, Finished, Contract!Next,
              Contract!Answer, Contract!Unanswered, Contract!Reason
<1>6. CASE Poll
  <2> USE SettleAssumption
  <2>1. /\ pc = "query" /\ stable' = Streak /\ outcome = "none" /\ events = 0
        /\ UNCHANGED <<clock, arrived, hit>>
    BY <1>6 DEF Poll, archive, IInv, Finished
  <2>2. CASE PollAgain
    BY <2>1, <2>2 DEF PollAgain, Contract!vars
  <2>3. CASE \E why \in {"settled", "timedOut"} : Return(why) /\ Contract!Reason
    BY <2>1, <2>3 DEF Return, Contract!Next, Contract!Answer,
                      Contract!Unanswered
  <2>4. TimedOut => Contract!Reason
    BY DEF TimedOut, Contract!Reason
  <2>5. Settled => Contract!Reason
    <3> SUFFICES ASSUME Settled
                 PROVE  /\ Len(arrived) > 0
                        /\ clock - arrived[Len(arrived)]
                             >= StableFor * PollInterval
      BY DEF Contract!Reason
    <3>1. /\ Len(arrived) = last /\ last > 0 /\ stable + 1 >= StableFor
          /\ last \in 1 .. Len(arrived) /\ arrived[last] \in Nat
          /\ stable \in Nat
      BY DEF IInv, TypeOK, Settled, Streak
    <3>2. /\ arrived[last] + stable * PollInterval <= polled
          /\ polled + PollInterval <= asked /\ asked <= clock
      BY <2>1, <3>1 DEF IInv, Stillness, Rhythm
    <3>3. /\ (stable + 1) * PollInterval = stable * PollInterval + PollInterval
          /\ stable * PollInterval \in Nat
          /\ (stable + 1) * PollInterval >= StableFor * PollInterval
          /\ StableFor * PollInterval \in Nat
      <4>1. stable + 1 \in Nat
        BY <3>1
      <4> QED
        BY <3>1, <4>1, Multiples
    <3>4. clock \in Nat /\ polled \in Nat /\ asked \in Nat
      BY DEF IInv, TypeOK
    <3> QED
      BY <3>1, <3>2, <3>3, <3>4
  <2> QED
    BY <1>6, <2>2, <2>3, <2>4, <2>5 DEF Poll
<1>7. CASE UNCHANGED vars
  BY <1>7 DEF vars, archive, Contract!vars
<1> QED
  BY <1>1, <1>2, <1>3, <1>4, <1>5, <1>6, <1>7 DEF Next

(* Settle keeps the promise of a collection, whatever its durations. *)
THEOREM Refinement == Spec => ImplementsCollection
BY Invariance, ContractInit, ContractStep, PTL
   DEF Spec, ImplementsCollection, Contract!Spec
=============================================================================
