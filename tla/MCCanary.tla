------------------------------ MODULE MCCanary ------------------------------
(***************************************************************************)
(* One positive control over an archive of up to MaxLines lines, around a  *)
(* midnight. The lines: the marker stamped in two zones, or in a line that *)
(* the rule does not match, an earlier control's marker, a line too long.  *)
(***************************************************************************)
EXTENDS Canary

Plain == [off |-> 0, names |-> TRUE, sound |-> TRUE, long |-> FALSE,
          rule |-> TRUE, mark |-> "own"]

MCShapes == {
  Plain,
  [Plain EXCEPT !.off = 1 - DayLength],
  [Plain EXCEPT !.rule = FALSE],
  [Plain EXCEPT !.mark = "earlier"],
  [Plain EXCEPT !.mark = "none", !.long = TRUE]}
=============================================================================
