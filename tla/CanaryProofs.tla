---------------------------- MODULE CanaryProofs ----------------------------
(***************************************************************************)
(* What the positive control and the query it rests on promise, for every  *)
(* choice of their durations and every archive.                            *)
(***************************************************************************)
EXTENDS Canary, TLAPS

USE QueryAssumption

----------------------------------------------------------------------------
(* Days. *)
LEMMA DayBounds ==
  ASSUME NEW t \in Int
  PROVE  /\ t \div DayLength \in Int
         /\ DayLength * (t \div DayLength) <= t
         /\ t < DayLength * (t \div DayLength) + DayLength
OBVIOUS

LEMMA DayUnique ==
  ASSUME NEW a \in Int, NEW b \in Int, DayLength * a < DayLength * b + DayLength
  PROVE  a <= b
<1> SUFFICES ASSUME a >= b + 1 PROVE FALSE
  OBVIOUS
<1>1. PICK k \in Nat : a = b + 1 + k
  <2>1. a - b - 1 \in Nat /\ a = b + 1 + (a - b - 1)
    OBVIOUS
  <2> QED
    BY <2>1
<1>2. DayLength * a = DayLength * b + DayLength + DayLength * k
  BY <1>1
<1>3. DayLength * k \in Nat
  BY <1>1
<1>4. DayLength * b \in Int
  OBVIOUS
<1> QED
  BY <1>2, <1>3, <1>4

LEMMA DayMonotone ==
  ASSUME NEW s \in Int, NEW t \in Int, s <= t
  PROVE  s \div DayLength <= t \div DayLength
<1> DEFINE a == s \div DayLength
           b == t \div DayLength
<1>1. a \in Int /\ b \in Int /\ DayLength * a <= s
      /\ t < DayLength * b + DayLength
  BY DayBounds
<1>2. DayLength * a \in Int /\ DayLength * b \in Int
  BY <1>1
<1>3. DayLength * a < DayLength * b + DayLength
  BY <1>1, <1>2
<1> HIDE DEF a, b
<1>4. a <= b
  BY <1>1, <1>3, DayUnique
<1> QED
  BY <1>4 DEF a, b

LEMMA NextDay ==
  ASSUME NEW t \in Int
  PROVE  /\ (t + DayLength) \div DayLength = t \div DayLength + 1
         /\ (t - DayLength) \div DayLength = t \div DayLength - 1
<1> DEFINE a == t \div DayLength
           b == (t + DayLength) \div DayLength
           c == (t - DayLength) \div DayLength
<1>1. /\ a \in Int /\ DayLength * a <= t /\ t < DayLength * a + DayLength
      /\ DayLength * a \in Int
  BY DayBounds
<1>2. /\ b \in Int /\ DayLength * b <= t + DayLength
      /\ t + DayLength < DayLength * b + DayLength
      /\ DayLength * b \in Int
  BY DayBounds
<1>3. /\ c \in Int /\ DayLength * c <= t - DayLength
      /\ t - DayLength < DayLength * c + DayLength
      /\ DayLength * c \in Int
  BY DayBounds
<1> HIDE DEF a, b, c
<1>4. /\ DayLength * (a + 1) = DayLength * a + DayLength
      /\ DayLength * (a - 1) = DayLength * a - DayLength
  BY <1>1
<1>5. DayLength * (a + 1) < DayLength * b + DayLength
      /\ DayLength * b < DayLength * (a + 1) + DayLength
  BY <1>1, <1>2, <1>4
<1>6. DayLength * (a - 1) < DayLength * c + DayLength
      /\ DayLength * c < DayLength * (a - 1) + DayLength
  BY <1>1, <1>3, <1>4
<1>7. b = a + 1
  BY <1>1, <1>2, <1>5, DayUnique
<1>8. c = a - 1
  BY <1>1, <1>3, <1>6, DayUnique
<1> QED
  BY <1>7, <1>8 DEF a, b, c

(* The coarse filter by days loses no event of the window: whatever the zone
   its stamp is written in, the date it shows is one of the window's days or a
   day next to them (dateAlternation's widening). *)
THEOREM DateFilterLosesNothing ==
  ASSUME NEW l \in Line, NEW w \in Window, InWindow(l, w)
  PROVE  DateFilter(l, w)
<1>1. /\ l.at \in Int /\ l.off \in Int /\ w.start \in Int /\ w.end \in Int
      /\ -DayLength <= l.off /\ l.off <= DayLength
      /\ w.start <= l.at /\ l.at <= w.end
  BY DEF Line, Window, InWindow
<1>2. w.start - DayLength <= l.at + l.off /\ l.at + l.off <= w.end + DayLength
  BY <1>1
<1>3. /\ (w.start - DayLength) \div DayLength <= (l.at + l.off) \div DayLength
      /\ (l.at + l.off) \div DayLength <= (w.end + DayLength) \div DayLength
  <2> DEFINE x == w.start - DayLength
             y == l.at + l.off
             z == w.end + DayLength
  <2>1. x \in Int /\ y \in Int /\ z \in Int
    BY <1>1
  <2>2. x <= y /\ y <= z
    BY <1>2
  <2> HIDE DEF x, y, z
  <2>3. x \div DayLength <= y \div DayLength
        /\ y \div DayLength <= z \div DayLength
    BY <2>1, <2>2, DayMonotone
  <2> QED
    BY <2>3 DEF x, y, z
<1>4. /\ UtcDay(w.start) - 1 <= LocalDay(l)
      /\ LocalDay(l) <= UtcDay(w.end) + 1
  BY <1>1, <1>3, NextDay DEF UtcDay, LocalDay
<1>5. LocalDay(l) \in Int /\ UtcDay(w.start) \in Int /\ UtcDay(w.end) \in Int
  BY <1>1, DayBounds DEF UtcDay, LocalDay
<1> QED
  BY <1>4, <1>5 DEF DateFilter, Span
----------------------------------------------------------------------------
(* The rhythm of the polls. *)
Started ==
  /\ Origin <= began /\ began <= clock
  /\ pc # "execute" /\ fired =>
       /\ window.start = began - Eps
       /\ began <= Finish /\ Finish <= clock

Asking ==
  pc = "query" =>
    /\ asked <= clock /\ clock <= asked + MaxQuery
    /\ Finish <= asked
    /\ asked <= Finish + Timeout + PollInterval

Sleeping ==
  pc = "sleep" =>
    /\ clock <= wake
    /\ Finish + PollInterval <= wake /\ wake <= clock + PollInterval
    /\ wake <= Finish + Timeout + PollInterval

Rhythm == Started /\ Asking /\ Sleeping

(* No line is visible before it was written, nor marked before the execution. *)
Causal ==
  \A n \in DOMAIN lines :
    /\ lines[n].at <= lines[n].came /\ lines[n].came <= clock
    /\ lines[n].mark = "own" => began <= lines[n].at

(* Where the checker stands, and what its result says there. *)
Standing ==
  /\ pc = "execute" => ~fired /\ ~error
  /\ pc \in {"query", "sleep"} => fired
  /\ pc # "returned" => ~healthy
  /\ fired /\ ~healthy => (error <=> failed)
  /\ ~fired => ~healthy /\ ~failed

(* Proof that is still not acted on came after the last look. *)
Pending ==
  pc \in {"query", "sleep"} /\ Roomy /\ rule = "usable" /\ ~failed /\ ~clipped =>
    \A n \in DOMAIN lines :
      Proof(n) /\ ~Swallowed(n) =>
        /\ pc = "sleep" => wake <= lines[n].came + PollInterval
        /\ pc = "query" => asked <= Latest(Finish, lines[n].came + PollInterval)

IInv ==
  /\ TypeOK /\ Rhythm /\ Causal /\ Standing /\ Pending
  /\ HealthyIsProven /\ UnhealthyIsJustified

(* A poll that reads the whole archive finds the proof it holds. *)
LEMMA ProofIsFound ==
  ASSUME IInv, pc = "query", Roomy, rule = "usable",
         NEW n \in DOMAIN lines, Proof(n), ~Swallowed(n)
  PROVE  Proves(Matched(Len(lines)))
<1>1. /\ lines \in Seq(Line) /\ Len(lines) \in Nat /\ DOMAIN lines = 1 .. Len(lines)
      /\ lines[n] \in Line /\ window \in Window
      /\ clock \in Nat /\ asked \in Nat /\ began \in Nat
  BY DEF IInv, TypeOK
<1>2. /\ lines[n].at \in Nat /\ lines[n].came \in Nat
      /\ window.start \in Nat /\ window.end \in Nat
  BY <1>1 DEF Line, Window
<1>3. fired
  BY DEF IInv, Standing
<1>4. InWindow(lines[n], window)
  <2>1. window.start = began - Eps
    BY <1>1, <1>3 DEF IInv, Rhythm, Started, Asking, Sleeping, Standing
  <2>2. began <= lines[n].at /\ lines[n].at <= lines[n].came /\ lines[n].came <= clock
    BY DEF IInv, Causal, Proof
  <2>3. clock <= asked + MaxQuery /\ asked <= Finish + Timeout + PollInterval
    BY DEF IInv, Rhythm, Started, Asking, Sleeping
  <2>4. clock <= window.end
    BY <2>3, <1>1, <1>2, CanaryAssumption DEF Roomy, Finish
  <2> QED
    BY <2>1, <2>2, <2>4, <1>1, <1>2, CanaryAssumption DEF InWindow
<1>5. n \in Printed(lines, window, Len(lines))
  <2>1. DateFilter(lines[n], window)
    BY <1>1, <1>4, DateFilterLosesNothing
  <2> QED
    BY <2>1, <1>1 DEF Printed, Proof
<1>6. n \in Scanned(lines, window, Len(lines))
  BY <1>1, <1>5 DEF Scanned, Swallowed, Printed
<1>7. n \in Answer(lines, window, Len(lines))
  BY <1>4, <1>6 DEF Answer, Proof
<1> QED
  BY <1>7 DEF Matched, Proves, Proof

LEMMA Durations ==
  /\ Eps \in Nat /\ WindowPad \in Nat /\ Timeout \in Nat /\ PollInterval \in Nat
  /\ PollInterval > 0 /\ Lag \in Nat /\ MaxQuery \in Nat /\ Origin \in Nat
BY CanaryAssumption DEF Origin

LEMMA InitInv == Init => IInv
<1> SUFFICES ASSUME Init PROVE IInv
  OBVIOUS
<1> USE CanaryAssumption DEF Init
<1>1. TypeOK
  <2>1. Origin \in Nat /\ ZeroWindow \in Window
    BY DEF Origin, ZeroWindow, Window
  <2>2. <<>> \in Seq(Line) /\ Len(<<>>) = 0
    OBVIOUS
  <2>3. lines \in Seq(Line) /\ Len(lines) = 0
    BY <2>2
  <2>4. looked \in 0 .. Len(lines) /\ evidence \in SUBSET (1 .. Len(lines))
    BY <2>3
  <2>5. clock \in Nat /\ began \in Nat /\ asked \in Nat /\ wake \in Nat
    BY Durations
  <2> HIDE DEF Init
  <2>6. /\ rule \in {"usable", "silent", "broken"} /\ pc = "execute"
        /\ window = ZeroWindow /\ healthy = FALSE /\ error = FALSE
        /\ fired = FALSE /\ failed = FALSE /\ clipped = FALSE
    BY DEF Init
  <2> QED
    BY <2>1, <2>3, <2>4, <2>5, <2>6 DEF TypeOK
<1>2. Rhythm
  BY DEF Rhythm, Started, Asking, Sleeping, Origin
<1>3. Causal /\ Standing /\ Pending /\ HealthyIsProven /\ UnhealthyIsJustified
  BY DEF Causal, Standing, Pending, HealthyIsProven, UnhealthyIsJustified
<1> QED
  BY <1>1, <1>2, <1>3 DEF IInv

LEMMA Typed ==
  ASSUME IInv
  PROVE  /\ clock \in Nat /\ began \in Nat /\ asked \in Nat /\ wake \in Nat
         /\ lines \in Seq(Line) /\ Len(lines) \in Nat
         /\ DOMAIN lines = 1 .. Len(lines)
         /\ window \in Window /\ window.start \in Nat /\ window.end \in Nat
         /\ Finish \in Int
         /\ looked \in 0 .. Len(lines)
         /\ \A n \in DOMAIN lines :
              lines[n] \in Line /\ lines[n].at \in Nat /\ lines[n].came \in Nat
<1>1. /\ clock \in Nat /\ began \in Nat /\ asked \in Nat /\ wake \in Nat
      /\ lines \in Seq(Line) /\ window \in Window /\ looked \in 0 .. Len(lines)
  BY DEF IInv, TypeOK
<1>2. Len(lines) \in Nat /\ DOMAIN lines = 1 .. Len(lines)
  BY <1>1
<1>3. window.start \in Nat /\ window.end \in Nat
  BY <1>1 DEF Window
<1>4. \A n \in DOMAIN lines : lines[n] \in Line
  BY <1>1
<1>5. \A n \in DOMAIN lines : lines[n].at \in Nat /\ lines[n].came \in Nat
  BY <1>4 DEF Line
<1>6. Finish \in Int
  BY <1>3, CanaryAssumption DEF Finish
<1> QED
  BY <1>1, <1>2, <1>3, <1>4, <1>5, <1>6

LEMMA Times ==
  ASSUME IInv
  PROVE  /\ clock \in Nat /\ began \in Nat /\ asked \in Nat /\ wake \in Nat
         /\ window.start \in Nat /\ window.end \in Nat /\ Finish \in Int
         /\ Len(lines) \in Nat
BY Typed

LEMMA TickInv == IInv /\ Tick => IInv'
<1> SUFFICES ASSUME IInv, Tick PROVE IInv'
  OBVIOUS
<1>1. /\ pc # "returned" /\ clock' = clock + 1
      /\ UNCHANGED <<lines, rule, pc, began, window, asked, wake, healthy,
                     evidence, error, fired, looked, failed, clipped>>
  BY DEF Tick, result, history
<1>2. TypeOK'
  BY <1>1, Typed DEF IInv, TypeOK
<1>3. Rhythm'
  <2>1. pc = "query" => clock < asked + MaxQuery
    BY DEF Tick
  <2>2. pc = "sleep" => clock < wake
    BY DEF Tick
  <2>3. Rhythm
    BY DEF IInv
  <2>4. Finish' = Finish
    BY <1>1 DEF Finish
  <2> QED
    <3>1. Started'
      BY <1>1, <2>3, <2>4, Times, Durations DEF Rhythm, Started
    <3>2. Asking'
      BY <1>1, <2>1, <2>3, <2>4, Times, Durations DEF Rhythm, Asking
    <3>3. Sleeping'
      BY SMTT(30), <1>1, <2>2, <2>3, <2>4, Times, Durations DEF Rhythm, Sleeping
    <3> QED
      BY <3>1, <3>2, <3>3 DEF Rhythm
<1>4. Causal'
  BY <1>1, Typed DEF IInv, Causal
<1>5. Pending'
  BY <1>1 DEF IInv, Pending, Proof, Swallowed, Finish, Latest
<1> QED
  BY <1>1, <1>2, <1>3, <1>4, <1>5
     DEF IInv, Standing, HealthyIsProven, UnhealthyIsJustified

LEMMA ArriveInv == IInv /\ Arrive => IInv'
<1> SUFFICES ASSUME IInv, Arrive PROVE IInv'
  OBVIOUS
<1> USE CanaryAssumption
<1>1. /\ pc # "returned"
      /\ UNCHANGED <<clock, rule, pc, began, window, asked, wake, healthy,
                     evidence, error, fired, looked, failed, clipped>>
  BY DEF Arrive, result, history
<1>2. PICK s \in Shapes, t \in clock - Lag .. clock :
        /\ s.mark = "own" => t >= began
        /\ lines' = Append(lines,
             [at |-> t, off |-> s.off, came |-> clock, names |-> s.names,
              sound |-> s.sound, long |-> s.long, rule |-> s.rule,
              mark |-> s.mark])
  BY DEF Arrive
<1> DEFINE l == [at |-> t, off |-> s.off, came |-> clock, names |-> s.names,
                 sound |-> s.sound, long |-> s.long, rule |-> s.rule,
                 mark |-> s.mark]
<1>3. l \in Line
  <2>1. s \in Shape
    OBVIOUS
  <2>2. t \in Nat
    BY Typed DEF IInv, Rhythm, Started, Asking, Sleeping, Origin
  <2> QED
    BY <2>1, <2>2, Typed DEF Shape, Line
<1>4. l.at = t /\ l.came = clock /\ l.mark = s.mark
  OBVIOUS
<1> HIDE DEF l
<1>5. lines' = Append(lines, l)
  BY <1>2 DEF l
<1>6. /\ lines' \in Seq(Line) /\ Len(lines') = Len(lines) + 1
      /\ DOMAIN lines' = 1 .. Len(lines) + 1
      /\ lines'[Len(lines) + 1] = l
      /\ \A n \in 1 .. Len(lines) : lines'[n] = lines[n]
  BY <1>3, <1>5, Typed
<1>7. TypeOK'
  <2>1. lines' \in Seq(Line) /\ looked' \in 0 .. Len(lines')
        /\ evidence' \in SUBSET (1 .. Len(lines'))
    BY <1>1, <1>6, Typed DEF IInv, TypeOK
  <2> QED
    BY <1>1, <2>1 DEF IInv, TypeOK
<1>8. Rhythm'
  BY <1>1 DEF IInv, Rhythm, Started, Asking, Sleeping, Finish
<1>9. Causal'
  <2>1. clock' = clock /\ began' = began /\ t <= clock /\ t \in Int
    BY <1>1, <1>2, Typed
  <2>2. ASSUME NEW n \in 1 .. Len(lines)
        PROVE  /\ lines[n].at <= lines[n].came /\ lines[n].came <= clock
               /\ lines[n].mark = "own" => began <= lines[n].at
    BY <2>2, Typed DEF IInv, Causal
  <2>3. /\ l.at <= l.came /\ l.came <= clock
        /\ l.mark = "own" => began <= l.at
    BY <1>2, <1>4, <2>1, Typed
  <2>4. \A n \in DOMAIN lines' : n \in 1 .. Len(lines) \/ n = Len(lines) + 1
    BY <1>6, Typed
  <2> QED
    BY <1>6, <2>1, <2>2, <2>3, <2>4 DEF Causal
<1>10. Pending'
  <2> SUFFICES ASSUME pc \in {"query", "sleep"}, Roomy, rule = "usable",
                      ~failed, ~clipped,
                      NEW n \in 1 .. Len(lines) + 1,
                      Proof(n)', ~Swallowed(n)'
               PROVE  /\ pc = "sleep" => wake <= lines'[n].came + PollInterval
                      /\ pc = "query" =>
                           asked <= Latest(Finish, lines'[n].came + PollInterval)
    BY <1>1, <1>6 DEF Pending, Finish, Roomy
  <2>1. CASE n = Len(lines) + 1
    <3>1. lines'[n].came = clock
      BY <2>1, <1>4, <1>6
    <3>2. /\ pc = "sleep" => wake <= clock + PollInterval
          /\ pc = "query" => asked <= clock
      BY DEF IInv, Rhythm, Started, Asking, Sleeping
    <3> QED
      BY <3>1, <3>2, Typed DEF Latest
  <2>2. CASE n \in 1 .. Len(lines)
    <3>1. lines'[n] = lines[n] /\ n \in DOMAIN lines
      BY <2>2, <1>6, Typed
    <3>2. Proof(n)
      BY <3>1 DEF Proof
    <3>3. ~Swallowed(n)
      BY SMTT(30), <2>2, <1>6, Typed DEF Swallowed
    <3> QED
      BY <3>1, <3>2, <3>3 DEF IInv, Pending
  <2> QED
    BY <2>1, <2>2, Typed
<1> QED
  BY <1>1, <1>7, <1>8, <1>9, <1>10
     DEF IInv, Standing, HealthyIsProven, UnhealthyIsJustified

LEMMA ExecuteInv == IInv /\ (Execute \/ ExecuteFails) => IInv'
<1> SUFFICES ASSUME IInv, Execute \/ ExecuteFails PROVE IInv'
  OBVIOUS
<1> USE CanaryAssumption
<1>1. CASE Execute
  <2>1. /\ pc = "execute" /\ pc' = "query" /\ fired' = TRUE
        /\ window' = WindowOf(began, clock) /\ asked' = clock
        /\ UNCHANGED <<clock, lines, rule, began, wake, healthy, evidence,
                       error, looked, failed, clipped>>
    BY <1>1 DEF Execute, result
  <2>2. Origin <= began /\ began <= clock /\ began - Eps \in Nat /\ Origin \in Nat
    BY Typed DEF IInv, Rhythm, Started, Asking, Sleeping, Origin
  <2>3. /\ window' \in Window /\ Finish' = clock
        /\ window'.start = began' - Eps
    BY SMTT(30), <2>1, <2>2, Typed DEF WindowOf, Window, Finish
  <2>4. TypeOK'
    BY <2>1, <2>3, Typed DEF IInv, TypeOK
  <2>5. Rhythm'
    BY SMTT(30), <2>1, <2>2, <2>3, Times DEF Rhythm, Started, Asking, Sleeping, Origin
  <2>6. Pending'
    BY SMTT(30), <2>1, <2>3, Typed DEF Pending, Latest
  <2>7. Standing'
    BY <2>1 DEF IInv, Standing, TypeOK
  <2> QED
    BY <2>1, <2>4, <2>5, <2>6, <2>7
       DEF IInv, Causal, HealthyIsProven, UnhealthyIsJustified
<1>2. CASE ExecuteFails
  BY <1>2 DEF ExecuteFails, history, IInv, TypeOK, Rhythm, Started, Asking,
              Sleeping, Causal, Standing, Pending, HealthyIsProven, UnhealthyIsJustified, Origin, Finish
<1> QED
  BY <1>1, <1>2

LEMMA WakeInv == IInv /\ Wake => IInv'
<1> SUFFICES ASSUME IInv, Wake PROVE IInv'
  OBVIOUS
<1> USE CanaryAssumption
<1>1. /\ pc = "sleep" /\ pc' = "query" /\ clock = wake /\ asked' = clock
      /\ UNCHANGED <<clock, lines, rule, began, window, wake, healthy, evidence,
                     error, fired, looked, failed, clipped>>
  BY DEF Wake, result, history
<1>2. fired /\ ~healthy
  BY <1>1 DEF IInv, Standing
<1>3. Rhythm'
  <2>1. Rhythm
    BY DEF IInv
  <2>2. Finish' = Finish
    BY <1>1 DEF Finish
  <2>3. Started'
    BY <1>1, <1>2, <2>1, <2>2 DEF Rhythm, Started
  <2>4. Asking'
    BY <1>1, <2>1, <2>2, Times, Durations DEF Rhythm, Sleeping, Asking
  <2>5. Sleeping'
    BY <1>1 DEF Sleeping
  <2> QED
    BY <2>3, <2>4, <2>5 DEF Rhythm
<1>4. Pending'
  <2>1. Finish' = Finish
    BY <1>1 DEF Finish
  <2> SUFFICES ASSUME Roomy, rule = "usable", ~failed, ~clipped,
                      NEW n \in DOMAIN lines, Proof(n), ~Swallowed(n)
               PROVE  clock <= Latest(Finish, lines[n].came + PollInterval)
    BY <1>1, <2>1 DEF Pending, Proof, Swallowed, Roomy
  <2>2. wake <= lines[n].came + PollInterval
    BY <1>1 DEF IInv, Pending
  <2>3. lines[n].came \in Nat
    BY Typed
  <2> QED
    BY <1>1, <2>2, <2>3, Times, Durations DEF Latest
<1> QED
  BY <1>1, <1>2, <1>3, <1>4, Typed
     DEF IInv, TypeOK, Causal, Standing, HealthyIsProven, UnhealthyIsJustified

(* A poll that is not the last one leaves the rhythm as it should be. *)
LEMMA ContinueInv ==
  ASSUME IInv, pc = "query", Continue,
         UNCHANGED <<clock, lines, rule, began, window, asked, fired>>
  PROVE  /\ Rhythm'
         /\ wake' \in Nat
         /\ pc' \in {"sleep", "returned"}
         /\ pc' = "returned" => clock > Finish + Timeout
         /\ pc' = "sleep" => wake' = clock + PollInterval
         /\ UNCHANGED <<healthy, evidence, Finish>>
         /\ fired /\ ~healthy
<1>1. fired /\ ~healthy
  BY DEF IInv, Standing
<1>2. CASE GivesUp
  <2>1. pc' = "returned" /\ wake' = wake /\ UNCHANGED <<healthy, evidence>>
    BY <1>2 DEF Continue
  <2> QED
    BY <1>1, <1>2, <2>1, Typed, CanaryAssumption
       DEF IInv, Rhythm, Started, Asking, Sleeping, Finish, GivesUp, Origin, WindowOf
<1>3. CASE ~GivesUp
  <2>1. pc' = "sleep" /\ wake' = clock + PollInterval
        /\ UNCHANGED <<healthy, evidence>>
    BY <1>3 DEF Continue
  <2>2. Finish <= clock /\ clock <= Finish + Timeout
    BY <1>1, <1>3, Typed, CanaryAssumption DEF IInv, Rhythm, Started, Asking, Sleeping, GivesUp
  <2>3. Rhythm
    BY DEF IInv
  <2>4. Finish' = Finish
    BY DEF Finish
  <2>5. Started'
    BY <1>1, <2>1, <2>3, <2>4, Times DEF Rhythm, Started
  <2>6. Sleeping'
    BY SMTT(30), <1>1, <2>1, <2>2, <2>4, Times, Durations DEF Sleeping
  <2>7. Asking' /\ wake' \in Nat
    BY <2>1, Times, Durations DEF Asking
  <2> QED
    BY <1>1, <2>1, <2>4, <2>5, <2>6, <2>7 DEF Rhythm
<1> QED
  BY <1>2, <1>3

LEMMA ReadsFacts ==
  ASSUME IInv, NEW cut \in 0 .. Len(lines), Reads(cut)
  PROVE  /\ pc = "query"
         /\ looked' \in 0 .. Len(lines)
         /\ clipped' \in BOOLEAN
         /\ looked' # 0 => cut = Len(lines)
         /\ ~clipped' => cut = Len(lines) /\ ~clipped
         /\ UNCHANGED <<clock, lines, rule, began, window, asked, fired>>
<1>1. /\ pc = "query"
      /\ looked' = IF cut = Len(lines) THEN cut ELSE 0
      /\ clipped' = (clipped \/ cut # Len(lines))
      /\ UNCHANGED <<clock, lines, rule, began, window, asked, fired>>
  BY DEF Reads
<1>2. clipped' \in BOOLEAN /\ (~clipped' => cut = Len(lines) /\ ~clipped)
  BY <1>1, Zenon
<1>3. looked' \in 0 .. Len(lines) /\ (looked' # 0 => cut = Len(lines))
  BY <1>1, Times
<1> QED
  BY <1>1, <1>2, <1>3

LEMMA PollInv == IInv /\ Poll => IInv'
<1> SUFFICES ASSUME IInv, Poll PROVE IInv'
  OBVIOUS
<1> USE CanaryAssumption
<1>1. CASE QueryFails
  <2>1. /\ pc = "query" /\ error' = TRUE /\ failed' = TRUE /\ looked' = 0
        /\ Continue
        /\ UNCHANGED <<clock, lines, rule, began, window, asked, fired, clipped>>
    BY <1>1 DEF QueryFails
  <2>c. /\ Rhythm' /\ wake' \in Nat /\ pc' \in {"sleep", "returned"}
        /\ pc' = "returned" => clock > Finish + Timeout
        /\ UNCHANGED <<healthy, evidence, Finish>>
        /\ fired /\ ~healthy
    BY <2>1, ContinueInv
  <2>t. TypeOK'
    BY <2>1, <2>c DEF IInv, TypeOK
  <2>s. Standing' /\ Causal' /\ HealthyIsProven'
    BY <2>1, <2>c DEF IInv, Standing, Causal, HealthyIsProven
  <2>u. UnhealthyIsJustified' /\ Pending'
    BY <2>1, <2>c, Typed
       DEF UnhealthyIsJustified, Pending, Proof, Swallowed, Roomy
  <2> QED
    BY <2>c, <2>t, <2>s, <2>u DEF IInv
<1>2. CASE EvaluationFails
  <2>1. PICK cut \in 0 .. Len(lines) :
          Reads(cut) /\ rule = "broken" /\ error' = TRUE /\ failed' = TRUE
          /\ Continue
    BY <1>2 DEF EvaluationFails
  <2>2. /\ pc = "query"
        /\ looked' \in 0 .. Len(lines) /\ clipped' \in BOOLEAN
        /\ UNCHANGED <<clock, lines, rule, began, window, asked, fired>>
    BY <2>1, ReadsFacts
  <2>c. /\ Rhythm' /\ wake' \in Nat /\ pc' \in {"sleep", "returned"}
        /\ pc' = "returned" => clock > Finish + Timeout
        /\ UNCHANGED <<healthy, evidence, Finish>>
        /\ fired /\ ~healthy
    BY <2>1, <2>2, ContinueInv
  <2>t. TypeOK'
    BY <2>1, <2>2, <2>c DEF IInv, TypeOK
  <2>s. Standing' /\ Causal' /\ HealthyIsProven'
    BY <2>1, <2>2, <2>c DEF IInv, Standing, Causal, HealthyIsProven
  <2>u. UnhealthyIsJustified' /\ Pending'
    BY <2>1, <2>2, <2>c DEF UnhealthyIsJustified, Pending, Roomy
  <2> QED
    BY <2>c, <2>t, <2>s, <2>u DEF IInv
<1>3. CASE NotSeen
  <2>1. PICK cut \in 0 .. Len(lines) :
          Reads(cut) /\ ~Proves(Matched(cut)) /\ Continue
          /\ UNCHANGED <<error, failed>>
    BY <1>3 DEF NotSeen
  <2>2. /\ pc = "query"
        /\ looked' \in 0 .. Len(lines) /\ clipped' \in BOOLEAN
        /\ looked' # 0 => cut = Len(lines)
        /\ ~clipped' => cut = Len(lines)
        /\ UNCHANGED <<clock, lines, rule, began, window, asked, fired>>
    BY <2>1, ReadsFacts
  <2>c. /\ Rhythm' /\ wake' \in Nat /\ pc' \in {"sleep", "returned"}
        /\ pc' = "returned" => clock > Finish + Timeout
        /\ UNCHANGED <<healthy, evidence, Finish>>
        /\ fired /\ ~healthy
    BY <2>1, <2>2, ContinueInv
  <2>3. cut = Len(lines) /\ Roomy /\ rule = "usable" =>
          \A n \in DOMAIN lines : Proof(n) => Swallowed(n)
    BY <2>1, <2>2, ProofIsFound
  <2>4. UnhealthyIsJustified'
    <3> SUFFICES ASSUME pc' = "returned"
                 PROVE  /\ clock > Finish + Timeout
                        /\ Roomy /\ rule = "usable" =>
                             \A n \in 1 .. looked' : Proof(n) => Swallowed(n)
      BY <2>2, <2>c
         DEF UnhealthyIsJustified, Proof, Swallowed, Roomy
    <3>1. clock > Finish + Timeout
      BY <2>c
    <3>2. ASSUME Roomy, rule = "usable", NEW n \in 1 .. looked', Proof(n)
          PROVE  Swallowed(n)
      <4>1. cut = Len(lines) /\ n \in DOMAIN lines
        BY <2>2, Typed
      <4> QED
        BY <4>1, <3>2, <2>3
    <3> QED
      BY <3>1, <3>2
  <2>5. Pending'
    <3>1. ~clipped' /\ Roomy /\ rule = "usable" =>
            \A n \in DOMAIN lines : Proof(n) => Swallowed(n)
      BY <2>2, <2>3
    <3> QED
      BY <3>1, <2>2 DEF Pending, Proof, Swallowed, Roomy
  <2>t. TypeOK'
    BY <2>1, <2>2, <2>c DEF IInv, TypeOK
  <2>s. Standing' /\ Causal' /\ HealthyIsProven'
    BY <2>1, <2>2, <2>c DEF IInv, Standing, Causal, HealthyIsProven
  <2> QED
    BY <2>c, <2>t, <2>s, <2>4, <2>5 DEF IInv
<1>4. CASE Seen
  <2>1. PICK cut \in 0 .. Len(lines) :
          /\ Reads(cut) /\ Proves(Matched(cut))
          /\ healthy' = TRUE /\ evidence' = Matched(cut) /\ error' = FALSE
          /\ pc' = "returned" /\ UNCHANGED <<wake, failed>>
    BY <1>4 DEF Seen
  <2>2. /\ pc = "query"
        /\ looked' \in 0 .. Len(lines) /\ clipped' \in BOOLEAN
        /\ UNCHANGED <<clock, lines, rule, began, window, asked, fired>>
    BY <2>1, ReadsFacts
  <2>3. fired /\ window.start = began - Eps
    BY <2>2 DEF IInv, Standing, Rhythm, Started, Asking, Sleeping
  <2>4. \A n \in Matched(cut) :
          /\ n \in 1 .. Len(lines)
          /\ lines[n].rule /\ lines[n].names /\ lines[n].sound
          /\ window.start <= lines[n].at /\ lines[n].at <= window.end
    BY DEF Matched, Answer, Scanned, Printed, InWindow
  <2>5. HealthyIsProven'
    BY <2>1, <2>2, <2>3, <2>4 DEF HealthyIsProven, Proves
  <2>6. TypeOK'
    <3>1. evidence' \in SUBSET (1 .. Len(lines'))
      BY <2>1, <2>2, <2>4
    <3> QED
      BY <2>1, <2>2, <3>1 DEF IInv, TypeOK
  <2>7. Rhythm'
    BY <2>1, <2>2, <2>3 DEF IInv, Rhythm, Started, Asking, Sleeping, Finish, Origin
  <2> QED
    BY <2>1, <2>2, <2>3, <2>5, <2>6, <2>7
       DEF IInv, Causal, Standing, Pending, UnhealthyIsJustified
<1> QED
  BY <1>1, <1>2, <1>3, <1>4 DEF Poll

LEMMA StepInv == IInv /\ [Next]_vars => IInv'
<1> SUFFICES ASSUME IInv, [Next]_vars PROVE IInv'
  OBVIOUS
<1>1. CASE UNCHANGED vars
  BY <1>1 DEF vars, result, history, IInv, TypeOK, Rhythm, Started, Asking,
     Sleeping, Causal, Standing, Pending, HealthyIsProven, UnhealthyIsJustified, Proof, Swallowed, Finish,
     Origin, Latest, Roomy
<1> QED
  BY <1>1, TickInv, ArriveInv, ExecuteInv, PollInv, WakeInv DEF Next

THEOREM Invariance == Spec => []IInv
BY InitInv, StepInv, PTL DEF Spec

(* The checker's state keeps its types for every choice of its durations. *)
THEOREM TypeCorrect == Spec => []TypeOK
<1>1. IInv => TypeOK
  BY DEF IInv
<1> QED
  BY <1>1, Invariance, PTL

(* A healthy control rests on this execution's own marker, for every archive:
   Run's check of the evidence and the start of the window. *)
THEOREM Healthy == Spec => []HealthyIsProven
<1>1. IInv => HealthyIsProven
  BY DEF IInv
<1> QED
  BY <1>1, Invariance, PTL

(* An unhealthy control had its time, and its last look at the archive missed
   nothing but what the scanner cannot hold: the deadline and the query. *)
THEOREM Unhealthy == Spec => []UnhealthyIsJustified
<1>1. IInv => UnhealthyIsJustified
  BY DEF IInv
<1> QED
  BY <1>1, Invariance, PTL

(* The error says whether a poll failed: r.Err is kept until the marker is
   seen. *)
THEOREM Sticky == Spec => []ErrorIsSticky
<1>1. IInv => ErrorIsSticky
  BY DEF IInv, Standing, ErrorIsSticky
<1> QED
  BY <1>1, Invariance, PTL

(* Visible proof is acted on at the next poll, for every timeout: the loop of
   Run. *)
THEOREM Prompt == Spec => []DecidesPromptly
<1>1. IInv => DecidesPromptly
  <2> SUFFICES ASSUME IInv, pc \in {"query", "sleep"} PROVE DecidesPromptly
    BY DEF DecidesPromptly
  <2>1. clock <= Finish + Timeout + PollInterval + MaxQuery
    BY SMTT(30), Typed, CanaryAssumption DEF IInv, Rhythm, Started, Asking, Sleeping
  <2>2. ASSUME Roomy, rule = "usable", ~failed, ~clipped,
               NEW n \in DOMAIN lines, Proof(n), ~Swallowed(n)
        PROVE  clock <= Latest(Finish, lines[n].came + PollInterval) + MaxQuery
    <3>1. /\ pc = "sleep" => wake <= lines[n].came + PollInterval
          /\ pc = "query" => asked <= Latest(Finish, lines[n].came + PollInterval)
      BY <2>2 DEF IInv, Pending
    <3>2. /\ pc = "sleep" => clock <= wake
          /\ pc = "query" => clock <= asked + MaxQuery
      BY DEF IInv, Rhythm, Started, Asking, Sleeping
    <3>3. lines[n].came \in Nat /\ (pc = "query" \/ pc = "sleep")
      BY Typed
    <3>4. CASE pc = "sleep"
      BY SMTT(30), <3>1, <3>2, <3>4, <3>3, Times, Durations DEF Latest
    <3>5. CASE pc = "query"
      <4> DEFINE d == Latest(Finish, lines[n].came + PollInterval)
      <4>1. d \in Int
        BY <3>3, Times, Durations DEF Latest
      <4> HIDE DEF d
      <4>2. asked <= d /\ clock <= asked + MaxQuery
        BY <3>1, <3>2, <3>5 DEF d
      <4>3. clock <= d + MaxQuery
        BY <4>1, <4>2, Times, Durations
      <4> QED
        BY <4>3 DEF d
    <3> QED
      BY <3>3, <3>4, <3>5
  <2> QED
    BY <2>1, <2>2 DEF DecidesPromptly
<1> QED
  BY <1>1, Invariance, PTL
=============================================================================
