----------------------------- MODULE MCDispatch -----------------------------
(***************************************************************************)
(* Dispatch on one technique with two tests and one with none: tests whose *)
(* inputs nest to five, to six and in a circle; prerequisites that are     *)
(* blank or not; every kind of override, of plan and of rule-map entry.    *)
(***************************************************************************)
EXTENDS Dispatch, TLC

CONSTANTS t1, t2, run, far, near, other, a, b, c, d, e, f

Plain == [platforms |-> {"linux"}, inputs |-> [i \in {a} |-> {far}],
          prereqs |-> <<>>, command |-> {run, a}, cleanup |-> {}]

(* a refers to b, b to c, and so on; the last value is a word. *)
Next5 == (a :> {b}) @@ (b :> {c}) @@ (c :> {d}) @@ (d :> {e}) @@ (e :> {far})
Next6 == (e :> {f}) @@ (f :> {far}) @@ Next5

MCTests == {
  Plain,
  [Plain EXCEPT !.inputs = Next5, !.cleanup = {run, b}],
  [Plain EXCEPT !.inputs = Next6, !.prereqs = <<{b}, {a}>>],
  [Plain EXCEPT !.inputs = (a :> {b, run}) @@ (b :> {a}), !.cleanup = {b}],
  [Plain EXCEPT !.inputs = (a :> {}), !.prereqs = <<{a}, {run, a}, {run, b}>>,
                !.platforms = {"linux", "windows"}],
  [Plain EXCEPT !.platforms = {"windows"}, !.command = {run, b}, !.cleanup = {a}]}

MCTrees == {[t \in {t1, t2} |-> IF t = t1 THEN <<u, Plain>> ELSE <<>>] : u \in MCTests}

First == [tech |-> t1, index |-> 1, plain |-> TRUE]
Padded == [First EXCEPT !.plain = FALSE]

MCNamed == {NoId, Malformed, First, Padded, [First EXCEPT !.index = 0],
            [First EXCEPT !.index = 3], [First EXCEPT !.tech = t2]}

Pin == [reason |-> TRUE, command |-> {}, cleanup |-> {}, platforms |-> {},
        inputs |-> (a :> {near})]
Whole == [Pin EXCEPT !.command = {other, a}, !.cleanup = {other}]

MCOverrides == {
  <<>>,
  First :> Pin,
  First :> [Pin EXCEPT !.inputs = (b :> {near, a})],
  First :> Whole,
  First :> [Whole EXCEPT !.platforms = {"windows"}, !.inputs = NoPins],
  First :> [Pin EXCEPT !.inputs = NoPins],
  First :> [Pin EXCEPT !.reason = FALSE],
  [First EXCEPT !.tech = t2] :> Whole}
=============================================================================
