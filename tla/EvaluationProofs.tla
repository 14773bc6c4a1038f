-------------------------- MODULE EvaluationProofs --------------------------
(***************************************************************************)
(* What a verdict stands for, for every collection of events and every list*)
(* of rules.                                                               *)
(***************************************************************************)
EXTENDS Evaluation, TLAPS

(* The rules that have been evaluated. *)
Before(k) == {i \in Expected : i < k}

(* What evaluateExpected has gathered is what the rules before r say. *)
Gathered ==
  pc # "returned" =>
    /\ best = Strongest(Before(r))
    /\ evidence = {p \in Before(r) \X DOMAIN events : p[2] \in Proof(p[1])}
    /\ \A i \in Before(r) : ~Broken(i)

(* What Evaluate has counted is what the events before e say to rule r. *)
Counted ==
  pc = "scan" =>
    /\ r \in Expected
    /\ events # <<>>
    /\ rules[r].file = "usable"
    /\ found = {n \in Proof(r) : n < e}
    /\ usable = 0 <=> \A n \in Seen(r) : n >= e

(* What is returned, and that the evidence goes with it. *)
Returned ==
  pc = "returned" =>
    /\ verdict = IF \E i \in Expected : Broken(i) THEN "ERROR"
                 ELSE Strongest(Expected)
    /\ evidence = IF verdict = "ERROR" THEN {}
                  ELSE {p \in Expected \X DOMAIN events : p[2] \in Proof(p[1])}

IInv == TypeOK /\ Gathered /\ Counted /\ Returned

----------------------------------------------------------------------------
LEMMA Ranks ==
  /\ Rank("NO_TELEMETRY") = 1 /\ Rank("INCONCLUSIVE") = 2
  /\ Rank("MISSED") = 3 /\ Rank("DETECTED") = 4
<1>1. \A k \in 1 .. 4 : k = 1 \/ k = 2 \/ k = 3 \/ k = 4
  OBVIOUS
<1>2. /\ Ranked[1] = "NO_TELEMETRY" /\ Ranked[2] = "INCONCLUSIVE"
      /\ Ranked[3] = "MISSED" /\ Ranked[4] = "DETECTED"
  BY DEF Ranked
<1>3. 1 \in 1 .. 4 /\ 2 \in 1 .. 4 /\ 3 \in 1 .. 4 /\ 4 \in 1 .. 4
  OBVIOUS
<1>4. Rank("NO_TELEMETRY") = 1
  BY <1>1, <1>2, <1>3 DEF Rank
<1>5. Rank("INCONCLUSIVE") = 2
  BY <1>1, <1>2, <1>3 DEF Rank
<1>6. Rank("MISSED") = 3
  BY <1>1, <1>2, <1>3 DEF Rank
<1>7. Rank("DETECTED") = 4
  BY <1>1, <1>2, <1>3 DEF Rank
<1> QED
  BY <1>4, <1>5, <1>6, <1>7

LEMMA GradeNames ==
  Grades = {"NO_TELEMETRY", "INCONCLUSIVE", "MISSED", "DETECTED"}
<1>1. \A k \in 1 .. 4 : k = 1 \/ k = 2 \/ k = 3 \/ k = 4
  OBVIOUS
<1>2. /\ Ranked[1] = "NO_TELEMETRY" /\ Ranked[2] = "INCONCLUSIVE"
      /\ Ranked[3] = "MISSED" /\ Ranked[4] = "DETECTED"
  BY DEF Ranked
<1>3. 1 \in 1 .. 4 /\ 2 \in 1 .. 4 /\ 3 \in 1 .. 4 /\ 4 \in 1 .. 4
  OBVIOUS
<1> QED
  BY <1>1, <1>2, <1>3 DEF Grades

LEMMA StrongestGrade == ASSUME NEW R PROVE Strongest(R) \in Grades
BY GradeNames DEF Strongest

(* One more rule: the better of what it says and what the others say. *)
LEMMA OneMore ==
  ASSUME NEW R, NEW i
  PROVE  Strongest(R \cup {i}) =
           IF Rank(Strongest({i})) > Rank(Strongest(R))
           THEN Strongest({i}) ELSE Strongest(R)
<1> DEFINE P(j) == Proof(j) # {}
           L(j) == Looked(j)
           U(j) == Unread(j)
           S == R \cup {i}
<1>1. /\ (\E j \in S : P(j)) <=> (\E j \in R : P(j)) \/ P(i)
      /\ (\E j \in S : L(j)) <=> (\E j \in R : L(j)) \/ L(i)
      /\ (\E j \in S : U(j)) <=> (\E j \in R : U(j)) \/ U(i)
  OBVIOUS
<1>2. /\ (\E j \in {i} : P(j)) <=> P(i)
      /\ (\E j \in {i} : L(j)) <=> L(i)
      /\ (\E j \in {i} : U(j)) <=> U(i)
  OBVIOUS
<1> QED
  BY <1>1, <1>2, Ranks DEF Strongest

(* What the rules say depends on the inputs only, and those are kept. *)
LEMMA Frame ==
  ASSUME inputs' = inputs
  PROVE  /\ events' = events /\ rules' = rules
         /\ Expected' = Expected
         /\ \A i : /\ Proof(i)' = Proof(i)
                   /\ Seen(i)' = Seen(i)
                   /\ Looked(i)' <=> Looked(i)
                   /\ Unread(i)' <=> Unread(i)
                   /\ Broken(i)' <=> Broken(i)
<1>1. events' = events /\ rules' = rules
  BY DEF inputs
<1>2. \A i : Seen(i)' = Seen(i)
  BY <1>1 DEF Seen
<1>3. \A i : Proof(i)' = Proof(i)
  BY <1>1, <1>2 DEF Proof
<1>4. \A i : Looked(i)' <=> Looked(i)
  BY <1>1, <1>2 DEF Looked
<1>5. \A i : (Unread(i)' <=> Unread(i)) /\ (Broken(i)' <=> Broken(i))
  BY <1>1 DEF Unread, Broken
<1> QED
  BY <1>1, <1>2, <1>3, <1>4, <1>5 DEF Expected

LEMMA Positions ==
  ASSUME TypeOK
  PROVE  /\ Expected = 1 .. Len(rules) /\ Len(rules) \in Nat
         /\ DOMAIN events = 1 .. Len(events) /\ Len(events) \in Nat
         /\ r \in Nat /\ e \in Nat
         /\ r > Len(rules) => Before(r) = Expected
         /\ r <= Len(rules) =>
              /\ r \in Expected
              /\ Before(r + 1) = Before(r) \cup {r}
<1>1. /\ Expected = 1 .. Len(rules) /\ Len(rules) \in Nat
      /\ DOMAIN events = 1 .. Len(events) /\ Len(events) \in Nat
  <2>1. events \in Seq(Event) /\ rules \in Seq(Rule)
    BY DEF TypeOK
  <2> HIDE DEF Event, Rule
  <2> QED
    BY <2>1 DEF Expected
<1>2. r \in 1 .. Len(rules) + 1 /\ e \in 1 .. Len(events) + 1
  BY DEF TypeOK
<1>3. ASSUME r > Len(rules) PROVE Before(r) = Expected
  BY <1>1, <1>2, <1>3 DEF Before
<1>4. ASSUME r <= Len(rules)
      PROVE  r \in Expected /\ Before(r + 1) = Before(r) \cup {r}
  BY <1>1, <1>2, <1>4 DEF Before
<1> QED
  BY <1>1, <1>2, <1>3, <1>4

(* What one rule says, by itself. *)
LEMMA OneRule ==
  ASSUME NEW i
  PROVE  Strongest({i}) =
           IF Proof(i) # {} THEN "DETECTED"
           ELSE IF Looked(i) THEN "MISSED"
           ELSE IF Unread(i) THEN "INCONCLUSIVE"
           ELSE "NO_TELEMETRY"
BY DEF Strongest

(* Grading a rule as it is keeps the whole invariant. *)
LEMMA Graded ==
  ASSUME IInv, pc # "returned", r \in Expected, ~Broken(r),
         Grade(Strongest({r})), found' = Proof(r)
  PROVE  IInv'
<1> USE DEF IInv
<1>1. inputs' = inputs
  BY DEF Grade
<1>2. /\ events' = events /\ rules' = rules
      /\ Expected' = Expected
      /\ \A i : /\ Proof(i)' = Proof(i)
                /\ Looked(i)' <=> Looked(i)
                /\ Unread(i)' <=> Unread(i)
                /\ Broken(i)' <=> Broken(i)
  BY <1>1, Frame
<1>3. /\ pc' = "rule" /\ r' = r + 1 /\ e' = e /\ usable' = usable
      /\ verdict' = verdict
  BY DEF Grade
<1>4. /\ Expected = 1 .. Len(rules) /\ Len(rules) \in Nat /\ r \in Nat
      /\ DOMAIN events = 1 .. Len(events)
      /\ Before(r + 1) = Before(r) \cup {r}
  BY Positions
<1>5. Before(r)' = Before(r) \cup {r}
  <2>1. Before(r)' = Before(r + 1)
    BY <1>2, <1>3 DEF Before
  <2> QED
    BY <2>1, <1>4
<1>6. best' = Strongest(Before(r) \cup {r})
  <2>1. best' = Better(Strongest({r}))
    BY DEF Grade
  <2>2. best = Strongest(Before(r))
    BY DEF Gathered
  <2> QED
    BY <2>1, <2>2, OneMore DEF Better
<1>7. best' = Strongest(Before(r))'
  BY <1>2, <1>5, <1>6 DEF Strongest
<1>8. best' \in Grades
  BY <1>6, StrongestGrade
<1>9. Proof(r) \subseteq DOMAIN events
  BY DEF Proof, Seen
<1>10. evidence' = {p \in Before(r)' \X DOMAIN events : p[2] \in Proof(p[1])}
  <2>1. evidence' = evidence \cup {<<r, n>> : n \in Proof(r)}
    BY DEF Grade
  <2>2. evidence = {p \in Before(r) \X DOMAIN events : p[2] \in Proof(p[1])}
    BY DEF Gathered
  <2>3. {p \in (Before(r) \cup {r}) \X DOMAIN events : p[2] \in Proof(p[1])}
          = {p \in Before(r) \X DOMAIN events : p[2] \in Proof(p[1])}
            \cup {<<r, n>> : n \in Proof(r)}
    BY <1>9
  <2> QED
    BY <2>1, <2>2, <2>3, <1>5
<1>11. Gathered'
  <2>1. \A i \in Before(r)' : ~Broken(i)'
    BY <1>2, <1>5 DEF Gathered
  <2>2. evidence' = {p \in Before(r)' \X DOMAIN events' : p[2] \in Proof(p[1])'}
    BY <1>2, <1>10
  <2> QED
    BY <1>7, <2>1, <2>2 DEF Gathered
<1>12. TypeOK'
  <2>1. evidence' \in SUBSET ((1 .. Len(rules)) \X (1 .. Len(events)))
    <3>1. Before(r)' \subseteq 1 .. Len(rules)
      BY <1>4, <1>5 DEF Before
    <3> QED
      BY <3>1, <1>4, <1>10
  <2>2. found' \in SUBSET (1 .. Len(events))
    BY <1>4, <1>9
  <2>3. r' \in 1 .. Len(rules') + 1
    BY <1>2, <1>3, <1>4
  <2> QED
    BY <1>2, <1>3, <1>8, <2>1, <2>2, <2>3 DEF TypeOK
<1>13. Counted' /\ Returned'
  BY <1>3 DEF Counted, Returned
<1> QED
  BY <1>11, <1>12, <1>13

----------------------------------------------------------------------------
LEMMA InitInv == Init => IInv
<1> SUFFICES ASSUME Init PROVE IInv
  OBVIOUS
<1>1. events \in Seq(Event) /\ rules \in Seq(Rule)
  BY EvaluationAssumption DEF Init
<1>2. Len(events) \in Nat /\ Len(rules) \in Nat
  BY <1>1
<1>3. TypeOK
  BY <1>1, <1>2, GradeNames DEF Init, TypeOK
<1>4. Before(r) = {}
  BY <1>3, Positions DEF Before, Init
<1>5. Gathered
  BY <1>4 DEF Init, Gathered, Strongest
<1> QED
  BY <1>3, <1>5 DEF Init, IInv, Counted, Returned

(* The steps that read one event leave the other rules alone. *)
LEMMA Scanned ==
  ASSUME IInv, pc = "scan", e \in DOMAIN events,
         e' = e + 1, UNCHANGED <<inputs, pc, r, best, evidence, verdict>>,
         found' = found \cup {n \in {e} : n \in Proof(r)},
         usable' = IF e \in Seen(r) THEN usable + 1 ELSE usable
  PROVE  IInv'
<1> USE DEF IInv
<1>1. /\ events' = events /\ rules' = rules /\ inputs' = inputs
      /\ Expected' = Expected
      /\ \A i : /\ Proof(i)' = Proof(i)
                /\ Seen(i)' = Seen(i)
                /\ Looked(i)' <=> Looked(i)
                /\ Unread(i)' <=> Unread(i)
                /\ Broken(i)' <=> Broken(i)
  BY Frame
<1>2. /\ DOMAIN events = 1 .. Len(events) /\ Len(events) \in Nat
      /\ e \in Nat /\ r \in Nat
  BY Positions
<1>3. pc' = "scan" /\ r' = r /\ best' = best /\ evidence' = evidence
      /\ verdict' = verdict
  OBVIOUS
<1>4. Before(r)' = Before(r)
  BY <1>1, <1>3 DEF Before
<1>5. Gathered'
  <2>1. best' = Strongest(Before(r))'
    BY <1>1, <1>3, <1>4 DEF Gathered, Strongest
  <2> QED
    BY <2>1, <1>1, <1>3, <1>4 DEF Gathered
<1>6. Seen(r) \subseteq DOMAIN events /\ Proof(r) \subseteq Seen(r)
  BY DEF Seen, Proof
<1>7. /\ r \in Expected /\ events # <<>> /\ rules[r].file = "usable"
      /\ found = {n \in Proof(r) : n < e}
      /\ usable = 0 <=> \A n \in Seen(r) : n >= e
  BY DEF Counted
<1>8. usable \in Nat
  BY DEF TypeOK
<1>9. found' = {n \in Proof(r) : n < e + 1}
  BY <1>2, <1>6, <1>7
<1>10. usable' = 0 <=> \A n \in Seen(r) : n >= e + 1
  <2>1. CASE e \in Seen(r)
    BY <2>1, <1>2, <1>8
  <2>2. CASE e \notin Seen(r)
    BY <2>2, <1>2, <1>6, <1>7
  <2> QED
    BY <2>1, <2>2
<1>11. Counted'
  BY <1>1, <1>3, <1>7, <1>9, <1>10 DEF Counted
<1>12. TypeOK'
  <2>1. found' \in SUBSET (1 .. Len(events))
    BY <1>2, <1>6, <1>9
  <2>2. usable' \in Nat
    BY <1>8
  <2>3. e' \in 1 .. Len(events') + 1
    BY <1>1, <1>2
  <2> QED
    BY <1>1, <1>3, <2>1, <2>2, <2>3 DEF TypeOK
<1>13. Returned'
  BY <1>3 DEF Returned
<1> QED
  BY <1>5, <1>11, <1>12, <1>13

LEMMA StepInv == IInv /\ [Next]_vars => IInv'
<1> SUFFICES ASSUME IInv, [Next]_vars PROVE IInv'
  OBVIOUS
<1> USE DEF IInv
<1>p. /\ Expected = 1 .. Len(rules) /\ Len(rules) \in Nat
      /\ DOMAIN events = 1 .. Len(events) /\ Len(events) \in Nat
      /\ r \in Nat /\ e \in Nat
      /\ r > Len(rules) => Before(r) = Expected
      /\ r <= Len(rules) => r \in Expected
  BY Positions
<1>s. \A i : Proof(i) \subseteq Seen(i) /\ Seen(i) \subseteq DOMAIN events
  BY DEF Proof, Seen
<1>1. CASE NothingCollected
  <2>1. events = <<>> /\ pc = "rule" /\ r <= Len(rules)
    BY <1>1 DEF NothingCollected, AtRule
  <2>2. Proof(r) = {} /\ ~Looked(r) /\ ~Unread(r) /\ ~Broken(r)
    BY <2>1, <1>s DEF Looked, Unread, Broken
  <2>3. Strongest({r}) = "NO_TELEMETRY"
    BY <2>2, OneRule
  <2>4. Grade(Strongest({r})) /\ found' = Proof(r)
    BY <1>1, <2>2, <2>3 DEF NothingCollected
  <2> QED
    BY <1>p, <2>1, <2>2, <2>4, Graded
<1>2. CASE NoRule
  <2>1. pc = "rule" /\ r <= Len(rules) /\ events # <<>>
        /\ rules[r].file \in {"unmapped", "absent"}
    BY <1>2 DEF NoRule, AtRule
  <2>2. Proof(r) = {} /\ Looked(r) /\ ~Broken(r)
    BY <2>1 DEF Proof, Looked, Broken
  <2>3. Strongest({r}) = "MISSED"
    BY <2>2, OneRule
  <2>4. Grade(Strongest({r})) /\ found' = Proof(r)
    BY <1>2, <2>2, <2>3 DEF NoRule
  <2> QED
    BY <1>p, <2>1, <2>2, <2>4, Graded
<1>3. CASE ParseError
  <2>1. /\ pc = "rule" /\ r \in Expected /\ Broken(r)
        /\ pc' = "returned" /\ verdict' = "ERROR" /\ evidence' = {}
        /\ UNCHANGED <<inputs, r, e, usable, found, best>>
    BY <1>3, <1>p DEF ParseError, AtRule, Broken
  <2>2. Expected' = Expected /\ \A i : Broken(i)' <=> Broken(i)
    BY <2>1, Frame
  <2>3. TypeOK'
    BY <2>1 DEF TypeOK, inputs
  <2> QED
    BY <2>1, <2>2, <2>3 DEF Gathered, Counted, Returned
<1>4. CASE Unsupported
  <2>1. pc = "rule" /\ r <= Len(rules) /\ events # <<>>
        /\ rules[r].file = "unsupported"
    BY <1>4 DEF Unsupported, AtRule
  <2>2. Proof(r) = {} /\ ~Looked(r) /\ Unread(r) /\ ~Broken(r)
    BY <2>1 DEF Proof, Looked, Unread, Broken
  <2>3. Strongest({r}) = "INCONCLUSIVE"
    BY <2>2, OneRule
  <2>4. Grade(Strongest({r})) /\ found' = Proof(r)
    BY <1>4, <2>2, <2>3 DEF Unsupported
  <2> QED
    BY <1>p, <2>1, <2>2, <2>4, Graded
<1>5. CASE Open
  <2>1. /\ pc = "rule" /\ r <= Len(rules) /\ events # <<>>
        /\ rules[r].file = "usable"
        /\ pc' = "scan" /\ e' = 1 /\ usable' = 0 /\ found' = {}
        /\ UNCHANGED <<inputs, r, best, evidence, verdict>>
    BY <1>5 DEF Open, AtRule
  <2>2. /\ events' = events /\ rules' = rules
        /\ Expected' = Expected
        /\ \A i : /\ Proof(i)' = Proof(i)
                  /\ Seen(i)' = Seen(i)
                  /\ Looked(i)' <=> Looked(i)
                  /\ Unread(i)' <=> Unread(i)
                  /\ Broken(i)' <=> Broken(i)
    BY <2>1, Frame
  <2>3. Before(r)' = Before(r)
    BY <2>1, <2>2 DEF Before
  <2>4. best' = Strongest(Before(r))'
    BY <2>1, <2>2, <2>3 DEF Gathered, Strongest
  <2>5. Gathered'
    BY <2>1, <2>2, <2>3, <2>4 DEF Gathered
  <2>6. Counted'
    <3>1. \A n \in Seen(r) : n >= 1
      BY <1>p, <1>s
    <3>2. {n \in Proof(r) : n < 1} = {}
      BY <1>p, <1>s
    <3> QED
      BY <1>p, <2>1, <2>2, <3>1, <3>2 DEF Counted
  <2>7. TypeOK'
    BY <1>p, <2>1, <2>2 DEF TypeOK
  <2> QED
    BY <2>1, <2>5, <2>6, <2>7 DEF Returned
<1>6. CASE Skip
  <2>1. /\ pc = "scan" /\ e \in DOMAIN events
        /\ ~Admissible(rules[r], events[e])
        /\ e' = e + 1 /\ usable' = usable /\ found' = found
        /\ UNCHANGED <<inputs, pc, r, best, evidence, verdict>>
    BY <1>6, <1>p DEF Skip, Scanning, TypeOK
  <2>2. e \notin Seen(r) /\ e \notin Proof(r)
    BY <2>1, <1>s DEF Seen
  <2>3. found' = found \cup {n \in {e} : n \in Proof(r)}
    BY <2>1, <2>2
  <2> QED
    BY <2>1, <2>2, <2>3, Scanned
<1>7. CASE Look
  <2>1. /\ pc = "scan" /\ e \in DOMAIN events
        /\ Admissible(rules[r], events[e])
        /\ e' = e + 1 /\ usable' = usable + 1
        /\ found' = found \cup {n \in {e} : events[n] \in rules[r].finds}
        /\ UNCHANGED <<inputs, pc, r, best, evidence, verdict>>
    BY <1>7, <1>p DEF Look, Scanning, TypeOK
  <2>2. e \in Seen(r) /\ rules[r].file = "usable"
    BY <2>1 DEF Seen, Counted
  <2>3. e \in Proof(r) <=> events[e] \in rules[r].finds
    BY <2>2 DEF Proof
  <2>4. found' = found \cup {n \in {e} : n \in Proof(r)}
    BY <2>1, <2>3
  <2> QED
    BY <2>1, <2>2, <2>4, Scanned
<1>8. CASE Judge
  <2>1. pc = "scan" /\ e > Len(events) /\ found' = found /\ Grade(Outcome)
    BY <1>8 DEF Judge
  <2>2. /\ r \in Expected /\ events # <<>> /\ rules[r].file = "usable"
        /\ found = {n \in Proof(r) : n < e}
        /\ usable = 0 <=> \A n \in Seen(r) : n >= e
    BY <2>1 DEF Counted
  <2>3. found = Proof(r) /\ (usable = 0 <=> Seen(r) = {})
    BY <1>p, <1>s, <2>1, <2>2
  <2>4. ~Broken(r) /\ ~Unread(r)
        /\ (Looked(r) <=> (rules[r].process => Seen(r) # {}))
    BY <2>2 DEF Broken, Unread, Looked
  <2>5. Outcome = Strongest({r})
    BY <2>3, <2>4, OneRule DEF Outcome
  <2> QED
    BY <2>1, <2>2, <2>3, <2>4, <2>5, Graded
<1>9. CASE Return
  <2>1. /\ pc = "rule" /\ r > Len(rules) /\ pc' = "returned"
        /\ verdict' = best
        /\ UNCHANGED <<inputs, r, e, usable, found, best, evidence>>
    BY <1>9 DEF Return
  <2>2. /\ events' = events /\ rules' = rules
        /\ Expected' = Expected
        /\ \A i : /\ Proof(i)' = Proof(i)
                  /\ Looked(i)' <=> Looked(i)
                  /\ Unread(i)' <=> Unread(i)
                  /\ Broken(i)' <=> Broken(i)
    BY <2>1, Frame
  <2>3. /\ verdict' = Strongest(Expected)
        /\ ~ \E i \in Expected : Broken(i)
        /\ evidence = {p \in Expected \X DOMAIN events : p[2] \in Proof(p[1])}
    BY <1>p, <2>1 DEF Gathered
  <2>4. verdict' = Strongest(Expected)'
    BY <2>2, <2>3 DEF Strongest
  <2>5. verdict' # "ERROR" /\ verdict' \in Grades
    BY <2>3, StrongestGrade, GradeNames
  <2>6. Returned'
    BY <2>1, <2>2, <2>3, <2>4, <2>5 DEF Returned
  <2>7. TypeOK'
    BY <2>1, <2>2, <2>5 DEF TypeOK
  <2> QED
    BY <2>1, <2>6, <2>7 DEF Gathered, Counted
<1>10. CASE UNCHANGED vars
  <2>1. UNCHANGED <<inputs, pc, r, e, usable, found, best, evidence, verdict>>
    BY <1>10 DEF vars
  <2>2. /\ events' = events /\ rules' = rules
        /\ Expected' = Expected
        /\ \A i : /\ Proof(i)' = Proof(i)
                  /\ Seen(i)' = Seen(i)
                  /\ Looked(i)' <=> Looked(i)
                  /\ Unread(i)' <=> Unread(i)
                  /\ Broken(i)' <=> Broken(i)
    BY <2>1, Frame
  <2>3. Before(r)' = Before(r)
    BY <2>1, <2>2 DEF Before
  <2>4. Strongest(Before(r))' = Strongest(Before(r))
        /\ Strongest(Expected)' = Strongest(Expected)
    BY <2>2, <2>3 DEF Strongest
  <2>5. Gathered'
    BY <2>1, <2>2, <2>3, <2>4 DEF Gathered
  <2>6. Counted' /\ TypeOK'
    BY <2>1, <2>2 DEF Counted, TypeOK
  <2>7. Returned'
    BY <2>1, <2>2, <2>4 DEF Returned
  <2> QED
    BY <2>5, <2>6, <2>7
<1> QED
  BY <1>1, <1>2, <1>3, <1>4, <1>5, <1>6, <1>7, <1>8, <1>9, <1>10 DEF Next

LEMMA Invariance == Spec => []IInv
BY InitInv, StepInv, PTL DEF Spec

----------------------------------------------------------------------------
(* Every variable keeps its type, for any events and any rules. *)
THEOREM TypeCorrect == Spec => []TypeOK
BY Invariance, PTL DEF IInv

(* For any events and any list of rules, in whatever order, the verdict is the
   strongest thing any of them says of the events, or an error that a rule which
   does not parse accounts for. *)
THEOREM GradedFairly == Spec => []VerdictIsTheStrongest
<1>1. IInv => VerdictIsTheStrongest
  <2>1. ASSUME IInv, pc = "returned"
        PROVE  verdict = IF \E i \in Expected : Broken(i) THEN "ERROR"
                         ELSE Strongest(Expected)
    BY <2>1 DEF IInv, Returned
  <2> QED
    BY <2>1 DEF VerdictIsTheStrongest
<1> QED
  BY <1>1, Invariance, PTL

(* The evidence is every admissible event of every rule that matched; there is
   some exactly when the verdict is DETECTED. *)
THEOREM EvidenceAccounted == Spec => []EvidenceIsComplete
<1>1. ASSUME IInv PROVE EvidenceIsComplete
  <2>1. SUFFICES ASSUME pc = "returned" PROVE EvidenceIsComplete
    BY DEF EvidenceIsComplete
  <2> DEFINE All == {p \in Expected \X DOMAIN events : p[2] \in Proof(p[1])}
  <2>2. /\ verdict = IF \E i \in Expected : Broken(i) THEN "ERROR"
                     ELSE Strongest(Expected)
        /\ evidence = IF verdict = "ERROR" THEN {} ELSE All
    BY <1>1, <2>1 DEF IInv, Returned
  <2>3. Strongest(Expected) # "ERROR"
    BY StrongestGrade, GradeNames
  <2>4. All # {} <=> \E i \in Expected : Proof(i) # {}
    <3>1. ASSUME NEW i \in Expected, NEW n \in Proof(i) PROVE <<i, n>> \in All
      BY DEF Proof, Seen
    <3>2. ASSUME NEW p \in All PROVE p[1] \in Expected /\ Proof(p[1]) # {}
      OBVIOUS
    <3> QED
      BY <3>1, <3>2
  <2>5. Strongest(Expected) = "DETECTED"
          <=> \E i \in Expected : Proof(i) # {}
    BY DEF Strongest
  <2>6. CASE \E i \in Expected : Broken(i)
    BY <2>2, <2>6 DEF EvidenceIsComplete
  <2>7. CASE ~ \E i \in Expected : Broken(i)
    BY <2>2, <2>3, <2>4, <2>5, <2>7 DEF EvidenceIsComplete
  <2> QED
    BY <2>6, <2>7
<1> QED
  BY <1>1, Invariance, PTL

(* Text and metadata are no process creation: what the normalizer admits as
   such has a block that says so. *)
LEMMA FidelityHolds ==
  ASSUME NEW ev, Fidelity(ev) = "process_creation"
  PROVE  ~Scraped(ev)
<1>1. HighFidelity(ev)
  BY DEF Fidelity
<1> QED
  BY <1>1 DEF HighFidelity, IsCreation, Scraped

(* A log line that merely mentions a binary neither proves a process creation
   nor is the telemetry in which one was missed. *)
THEOREM FidelityGate == Spec => []LogIsNoProof
<1>1. ASSUME IInv PROVE LogIsNoProof
  <2>1. SUFFICES ASSUME pc = "returned" PROVE LogIsNoProof
    BY DEF LogIsNoProof
  <2>2. /\ verdict = IF \E i \in Expected : Broken(i) THEN "ERROR"
                     ELSE Strongest(Expected)
        /\ \A p \in evidence : p[2] \in Proof(p[1])
    <3>1. /\ verdict = IF \E i \in Expected : Broken(i) THEN "ERROR"
                       ELSE Strongest(Expected)
          /\ evidence = IF verdict = "ERROR" THEN {}
               ELSE {p \in Expected \X DOMAIN events : p[2] \in Proof(p[1])}
      BY <1>1, <2>1 DEF IInv, Returned
    <3> QED
      BY <3>1
  <2>3. \A i : Proof(i) \subseteq Seen(i)
    BY DEF Proof
  <2>4. ASSUME NEW i, NEW n \in Seen(i), rules[i].process
        PROVE  n \in DOMAIN events /\ ~Scraped(events[n])
    BY <2>4, FidelityHolds DEF Seen, Admissible
  <2>5. \A p \in evidence : rules[p[1]].process => ~Scraped(events[p[2]])
    BY <2>2, <2>3, <2>4
  <2>6. ASSUME verdict = "MISSED"
        PROVE  \E i \in Expected :
                 \/ rules[i].file \in {"unmapped", "absent"}
                 \/ ~rules[i].process
                 \/ \E n \in DOMAIN events : ~Scraped(events[n])
    <3>1. Strongest(Expected) = "MISSED"
      BY <2>2, <2>6
    <3>2. PICK i \in Expected : Looked(i)
      BY <3>1 DEF Strongest
    <3>3. \/ rules[i].file \in {"unmapped", "absent"}
          \/ ~rules[i].process
          \/ rules[i].process /\ Seen(i) # {}
      BY <3>2 DEF Looked
    <3> QED
      BY <3>2, <3>3, <2>4
  <2> QED
    BY <2>5, <2>6 DEF LogIsNoProof
<1> QED
  BY <1>1, Invariance, PTL

=============================================================================
