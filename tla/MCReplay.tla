------------------------------ MODULE MCReplay ------------------------------
(***************************************************************************)
(* Plans of up to three tasks on two techniques, with every set of two     *)
(* events collected and every kind of rule.                                *)
(***************************************************************************)
EXTENDS Replay, TLC

CONSTANTS t1, t2, e1, e2

Usable == [mapped |-> TRUE, broken |-> FALSE, unread |-> FALSE,
           admits |-> {e1, e2}, finds |-> {e1}]

MCRules == {
  Usable,
  [Usable EXCEPT !.admits = {e1}, !.finds = {}],
  [Usable EXCEPT !.admits = {}, !.finds = {}, !.unread = TRUE],
  [Usable EXCEPT !.broken = TRUE],
  [Usable EXCEPT !.mapped = FALSE]}

Symmetric == Permutations({t1, t2})
=============================================================================
