----------------------------- MODULE WazuhQuery -----------------------------
(***************************************************************************)
(* WazuhCollector.Query against the manager's archive: a fixed-string grep *)
(* for the host, a coarse grep for the days the window spans, a scanner    *)
(* with a bounded buffer, and the exact comparison with the window.        *)
(*                                                                         *)
(* A line is what these stages tell apart. The only date a line carries is *)
(* the one of its own stamp, written in the zone of who stamped it.        *)
(***************************************************************************)
EXTENDS Integers, Sequences, FiniteSets

CONSTANTS
  DayLength,   \* 24 hours
  MaxDays      \* maxDays: more stamps than this and the filter is dropped

ASSUME QueryAssumption ==
  /\ DayLength \in Nat \ {0}
  /\ MaxDays \in Nat

(* Offsets from UTC stay within a day. *)
Line == [
  at    : Nat,                          \* the instant of its stamp
  off   : -DayLength .. DayLength,      \* the offset the stamp is written with
  came  : Nat,                          \* when it became visible
  names : BOOLEAN,                      \* the host's name occurs somewhere
  sound : BOOLEAN,                      \* JSON with a stamp that parses
  long  : BOOLEAN,                      \* longer than the scanner's buffer
  rule  : BOOLEAN,                      \* the canary rule's condition holds
  mark  : {"own", "earlier", "none"}]   \* whose marker it carries

Window == [start : Nat, end : Nat]
ZeroWindow == [start |-> 0, end |-> 0]

(* The date a line shows, and the one an instant has in UTC. *)
LocalDay(l) == (l.at + l.off) \div DayLength
UtcDay(t) == t \div DayLength

(* Mutant of Span: the days of the window itself. *)
SpanUnwidened(w) == UtcDay(w.start) .. UtcDay(w.end)

(* The days of the window, and one more on each side. *)
Span(w) == UtcDay(w.start) - 1 .. UtcDay(w.end) + 1

(* dateAlternation returns no pattern. *)
Unfiltered(w) ==
  \/ w = ZeroWindow
  \/ w.end < w.start
  \/ UtcDay(w.end) - UtcDay(w.start) + 3 > MaxDays

DateFilter(l, w) == Unfiltered(w) \/ LocalDay(l) \in Span(w)

(* What reaches the output when the first grep read the first cut lines only;
   its failure is hidden by the pipeline, whose status is the second one's. *)
Printed(lines, w, cut) ==
  {n \in 1 .. Len(lines) : n <= cut /\ lines[n].names /\ DateFilter(lines[n], w)}

(* scanLines stops at the first line it cannot hold, and does not say so. *)
Scanned(lines, w, cut) ==
  {n \in Printed(lines, w, cut) :
     \A m \in Printed(lines, w, cut) : m <= n => ~lines[m].long}

InWindow(l, w) == w.start <= l.at /\ l.at <= w.end

(* The positions of the events that Query returns. *)
Answer(lines, w, cut) ==
  {n \in Scanned(lines, w, cut) : lines[n].sound /\ InWindow(lines[n], w)}
=============================================================================
