------------------------------- MODULE Settle -------------------------------
(***************************************************************************)
(* Settler.Settle: polls the collector over one execution's window until an*)
(* expected rule matches, the number of events stops growing, or the       *)
(* timeout has elapsed; while the SIEM indexes events when it pleases.     *)
(*                                                                         *)
(* Only the events of the window and the host are modelled, by the instant *)
(* they become visible to a query. The context a campaign passes is        *)
(* context.Background(), which is never cancelled.                         *)
(***************************************************************************)
EXTENDS Integers, Sequences

CONSTANTS
  MinWait,        \* floor before the first poll
  PollInterval,   \* gap between polls
  Timeout,        \* total budget
  StableFor,      \* polls with no new events before settling
  MaxQuery,       \* bound: longest query
  MaxEvents,      \* bound: events of the window
  MaxClock        \* bound: the instants considered

(* withDefaults leaves every duration and the count positive. *)
ASSUME SettleAssumption ==
  /\ MinWait \in Nat \ {0}
  /\ PollInterval \in Nat \ {0}
  /\ Timeout \in Nat \ {0}
  /\ StableFor \in Nat \ {0}
  /\ MaxQuery \in Nat
  /\ MaxEvents \in Nat
  /\ MaxClock \in Nat

VARIABLES
  clock,
  arrived,    \* when each event of the window became visible
  hit,        \* the first event an expected rule matches, 0 for none
  broken,     \* an expected rule does not parse: satisfied never holds
  pc,         \* sleep, query, returned
  wake,       \* when the sleep ends
  asked,      \* when the query was sent
  last,       \* the number of events of the previous poll
  stable,     \* polls since the number changed
  polled,     \* when the previous poll was answered
  outcome,    \* why Settle returned
  events      \* the number of events it returned

archive == <<arrived, hit, broken>>
vars == <<clock, archive, pc, wake, asked, last, stable, polled, outcome,
          events>>

TypeOK ==
  /\ clock \in Nat
  /\ arrived \in Seq(Nat)
  /\ hit \in 0 .. Len(arrived)
  /\ broken \in BOOLEAN
  /\ pc \in {"sleep", "query", "returned"}
  /\ wake \in Nat
  /\ asked \in Nat
  /\ last \in 0 .. Len(arrived)
  /\ stable \in Nat
  /\ polled \in Nat
  /\ outcome \in {"none", "satisfied", "settled", "timedOut", "failed"}
  /\ events \in 0 .. Len(arrived)

----------------------------------------------------------------------------
Init ==
  /\ clock = 0
  /\ arrived = <<>>
  /\ hit = 0
  /\ broken \in BOOLEAN
  /\ pc = "sleep"
  /\ wake = MinWait
  /\ asked = 0
  /\ last = 0
  /\ stable = 0
  /\ polled = 0
  /\ outcome = "none"
  /\ events = 0

(* A sleep ends on time; a query takes MaxQuery at most. *)
Tick ==
  /\ clock < MaxClock
  /\ pc = "sleep" => clock < wake
  /\ pc = "query" => clock < asked + MaxQuery
  /\ clock' = clock + 1
  /\ UNCHANGED <<archive, pc, wake, asked, last, stable, polled, outcome,
                 events>>

(* An event of the window becomes visible; a rule may match it. *)
Arrive ==
  /\ Len(arrived) < MaxEvents
  /\ arrived' = Append(arrived, clock)
  /\ hit' \in {hit, IF hit = 0 THEN Len(arrived) + 1 ELSE hit}
  /\ UNCHANGED <<clock, broken, pc, wake, asked, last, stable, polled, outcome,
                 events>>

Wake ==
  /\ pc = "sleep" /\ clock = wake
  /\ pc' = "query"
  /\ asked' = clock
  /\ UNCHANGED <<clock, archive, wake, last, stable, polled, outcome, events>>

(* The caller gets the error and drops the events of the earlier polls. *)
QueryFails ==
  /\ pc = "query"
  /\ pc' = "returned"
  /\ outcome' = "failed"
  /\ UNCHANGED <<clock, archive, wake, asked, last, stable, polled, events>>

(* The predicate is evaluated before anything is counted. *)
Satisfied ==
  /\ pc = "query"
  /\ hit # 0 /\ ~broken
  /\ pc' = "returned"
  /\ outcome' = "satisfied"
  /\ events' = Len(arrived)
  /\ UNCHANGED <<clock, archive, wake, asked, last, stable, polled>>

(* Mutant of Streak: a growing archive only takes one poll back. *)
StreakTakenBack == IF Len(arrived) = last THEN stable + 1 ELSE stable - 1

(* The polls, this one included, that found the number of the one before. *)
Streak == IF Len(arrived) = last THEN stable + 1 ELSE 0

(* Mutant of Settled: an empty archive settles as well. *)
SettledEmpty == Streak >= StableFor

Settled == Streak >= StableFor /\ Len(arrived) > 0

(* Mutant of TimedOut: the deadline moves with every poll. *)
TimedOutPerPoll == clock > asked + Timeout

TimedOut == clock > Timeout

(* Mutant of NextPoll: polls are spaced out while nothing changes. *)
NextPollBackedOff == clock + PollInterval * (stable + 1)

NextPoll == clock + PollInterval

(* A poll that is not satisfied returns, or goes back to sleep. *)
Return(why) ==
  /\ pc' = "returned"
  /\ outcome' = why
  /\ events' = Len(arrived)
  /\ UNCHANGED wake

PollAgain ==
  /\ pc' = "sleep"
  /\ wake' = NextPoll
  /\ UNCHANGED <<outcome, events>>

Poll ==
  /\ pc = "query"
  /\ hit = 0 \/ broken
  /\ stable' = Streak
  /\ last' = Len(arrived)
  /\ polled' = clock
  /\ \/ Settled /\ Return("settled")
     \/ ~Settled /\ TimedOut /\ Return("timedOut")
     \/ ~Settled /\ ~TimedOut /\ PollAgain
  /\ UNCHANGED <<clock, archive, asked>>

Next == Tick \/ Arrive \/ Wake \/ QueryFails \/ Satisfied \/ Poll

Spec == Init /\ [][Next]_vars

(* Time passes, and Settle runs when it can; nothing makes events arrive. *)
FairSpec == Spec /\ WF_vars(Tick) /\ WF_vars(Wake)
                 /\ WF_vars(QueryFails \/ Satisfied \/ Poll)

----------------------------------------------------------------------------
(* Settle keeps the promise of a collection: it hands over what the archive
   holds at that very instant, and never before it found a match, saw the
   archive still for StableFor poll intervals, or ran out of time. In
   particular an archive that is merely slow, and still empty, is waited for
   until the timeout. *)
Contract == INSTANCE Collection WITH
  Quiet    <- StableFor * PollInterval,
  Patience <- Timeout,
  answer   <- [given  |-> pc = "returned",
               failed |-> outcome = "failed",
               events |-> events]

ImplementsCollection == Contract!Spec

(* Settle is over at most one poll after its budget, and however long ago the
   deadline was last looked at. *)
Latest(a, b) == IF a < b THEN b ELSE a

ReturnsInTime ==
  pc # "returned" => clock <= Latest(MinWait, Timeout + PollInterval) + MaxQuery

(* A match that becomes visible is acted on at the next poll: the time until
   a detection depends on the poll interval, not on the budget. *)
DetectionIsPrompt ==
  pc # "returned" /\ hit # 0 /\ ~broken =>
    clock <= Latest(MinWait, arrived[hit] + PollInterval) + MaxQuery

(* Settle returns, whether or not anything ever arrives. *)
EventuallyReturns == <>(pc = "returned")
=============================================================================
