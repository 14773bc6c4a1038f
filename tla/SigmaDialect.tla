---------------------------- MODULE SigmaDialect ----------------------------
(***************************************************************************)
(* The Sigma rules that the comments of internal/evaluator describe, and   *)
(* what they mean: the reference for module Matching. It is stated over    *)
(* what the author of a rule has in mind, the tree of its condition and the*)
(* keys of its selections; Written is how a tree is spelled.               *)
(*                                                                         *)
(* A tree lists its nodes, each after its children, left before right; the *)
(* node of a binary operator has the number of nodes on its right. What is *)
(* recursive is a function over trees: its argument gets shorter.          *)
(*                                                                         *)
(* The value of a field is the set of the tests it passes, pairs of a      *)
(* modifier and an operand (the test of no modifier is "equals"). An event *)
(* maps the fields it has to their values.                                 *)
(***************************************************************************)
EXTENDS Integers, Sequences, FiniteSets

CONSTANTS
  Names,     \* search identifiers
  Filters,   \* those named filter... or falsepositive...
  Covers,    \* the names each glob pattern covers
  Counts     \* the number each numeral stands for

Globs == DOMAIN Covers
Reserved == {"and", "or", "not", "all", "of", "them"}
Open == "("
Close == ")"
Comma == ","
Marks == {Open, Close, Comma}
Words == Names \cup DOMAIN Counts \cup Reserved
Token == Words \cup Globs \cup Marks
Text == Seq(Token)

ASSUME DialectAssumption ==
  /\ Names \cap (DOMAIN Counts \cup Globs \cup Reserved \cup Marks) = {}
  /\ DOMAIN Counts \cap (Globs \cup Reserved \cup Marks) = {}
  /\ Globs \cap (Reserved \cup Marks) = {}
  /\ \A g \in Globs : IsFiniteSet(Covers[g])
  /\ \A k \in DOMAIN Counts : Counts[k] \in Nat

Blank == ""                                \* the empty string

Empty(value) == <<"equals", Blank>> \in value

FidelityKey == "__source_fidelity__"    \* the normalizer's own field

(* Trees. A count and "all of" range over a target: "them", the identifiers
   but the filters, or a list of names and globs. *)
Target == Seq(Words \cup Globs)
Node == [op : {"ident"}, name : Words] \cup [op : {"not"}]
        \cup [op : {"and", "or"}, right : Nat]
        \cup [op : {"some"}, count : DOMAIN Counts, names : Target]
        \cup [op : {"every"}, names : Target]
Tree == Seq(Node)

Nil             == <<>>
Ident(n)        == <<[op |-> "ident", name |-> n]>>
Both(a, b)      == a \o b \o <<[op |-> "and", right |-> Len(b)]>>
Either(a, b)    == a \o b \o <<[op |-> "or", right |-> Len(b)]>>
Negation(a)     == a \o <<[op |-> "not"]>>
Some(k, target) == <<[op |-> "some", count |-> k, names |-> target]>>
Every(target)   == <<[op |-> "every", names |-> target]>>

Root(t)  == t[Len(t)]
Child(t) == SubSeq(t, 1, Len(t) - 1)
Left(t)  == SubSeq(t, 1, Len(t) - 1 - Root(t).right)
Right(t) == SubSeq(t, Len(Left(t)) + 1, Len(t) - 1)

Them == <<>>

Denoted(n) == IF n \in Globs THEN Covers[n] ELSE {n}

Meant(target, defined) ==
  IF target = Them THEN defined \ Filters
  ELSE UNION {IF target[k] \in Globs THEN Covers[target[k]] \cap defined
                                     ELSE {target[k]} : k \in DOMAIN target}

(* Whether a condition holds when exactly the identifiers in hit do: what its
   root makes of what holds of the subtrees. *)
MeansAt(t, holds, defined, hit) ==
  LET root == Root(t)
      meant == Meant(root.names, defined)
  IN  /\ t # Nil
      /\ \/ root.op = "ident" /\ root.name \in hit
         \/ root.op = "and" /\ holds[Left(t)] /\ holds[Right(t)]
         \/ root.op = "or" /\ (holds[Left(t)] \/ holds[Right(t)])
         \/ root.op = "not" /\ ~holds[Child(t)]
         \/ root.op = "some" /\ Cardinality(meant \cap hit) >= Counts[root.count]
         \/ root.op = "every" /\ meant # {} /\ meant \subseteq hit

Means(tree, defined, hit) ==
  LET holds[t \in Tree] == MeansAt(t, holds, defined, hit) IN holds[tree]

(* The trees of the dialect. What a count ranges over it counts once. *)
InTarget(names) == \A k \in DOMAIN names : names[k] \in Names \cup Globs

Separate(names) ==
  \A j, k \in DOMAIN names : j # k => Denoted(names[j]) \cap Denoted(names[k]) = {}

SentenceAt(t, whole) ==
  LET root == Root(t)
  IN  /\ t # Nil
      /\ \/ root.op = "ident" /\ Len(t) = 1 /\ root.name \in Names
         \/ root.op \in {"and", "or"} /\ whole[Left(t)] /\ whole[Right(t)]
         \/ root.op = "not" /\ whole[Child(t)]
         \/ root.op = "some" /\ Len(t) = 1 /\ InTarget(root.names) /\ Separate(root.names)
         \/ root.op = "every" /\ Len(t) = 1 /\ InTarget(root.names)

Sentence(tree) ==
  LET whole[t \in Tree] == SentenceAt(t, whole) IN whole[tree]

(* Selections, by the kind of their YAML node: a map of keys, all of which must
   hold; a list of strings, other scalars and maps, one of which must appear in
   the event, or hold; or a scalar, read as a list of one. A key asks for one of
   its values (with the modifier "all", each of them) to be met or, with null
   among them, for the field to be missing or empty. *)
Asked(mods) == IF mods \subseteq {"all"} THEN {"equals"} ELSE mods \ {"all"}

KeyHolds(key, event) ==
  LET present == key.field \in DOMAIN event
      met == {v \in key.values :
                \E m \in Asked(key.mods) : <<m, v>> \in event[key.field]}
  IN  \/ key.null /\ (present => Empty(event[key.field]))
      \/ present /\ met # {} /\ ("all" \in key.mods => met = key.values)

Appears(word, event) ==
  \E f \in DOMAIN event \ {FidelityKey} : <<"contains", word>> \in event[f]

Holds(sel, event) ==
  CASE sel.kind = "map"    -> \A key \in sel.keys : KeyHolds(key, event)
    [] sel.kind = "list"   -> \/ \E w \in sel.words \cup sel.scalars : Appears(w, event)
                              \/ \E keys \in sel.maps :
                                    \A key \in keys : KeyHolds(key, event)
    [] sel.kind = "scalar" -> Appears(sel.text, event)

Hit(selections, event) == {n \in DOMAIN selections : Holds(selections[n], event)}

(* How tightly a tree binds. *)
Strength(t) ==
  CASE Root(t).op = "or" -> 1 [] Root(t).op = "and" -> 2
    [] Root(t).op = "not" -> 3 [] OTHER -> 4

Listed(target) ==
  [k \in 1 .. 2 * Len(target) - 1 |->
     IF k % 2 = 1 THEN target[(k + 1) \div 2] ELSE Comma]

(* A list is in parentheses after a count, and bare after "all of". *)
Operand(op, target) ==
  CASE target = Them -> <<"them">>
    [] Len(target) = 1 -> target
    [] Len(target) > 1 -> IF op = "some" THEN <<Open>> \o Listed(target) \o <<Close>>
                                         ELSE Listed(target)

(* A subtree is in parentheses when it binds less than its place asks for. *)
Within(t, text, strength) ==
  IF Strength(t) < strength THEN <<Open>> \o text[t] \o <<Close>> ELSE text[t]

WrittenAt(t, text) ==
  LET root == Root(t)
  IN  CASE t = Nil -> <<>>
        [] t # Nil /\ root.op = "ident" -> <<root.name>>
        [] t # Nil /\ root.op = "and" ->
             Within(Left(t), text, 2) \o <<"and">> \o Within(Right(t), text, 3)
        [] t # Nil /\ root.op = "or" ->
             Within(Left(t), text, 1) \o <<"or">> \o Within(Right(t), text, 2)
        [] t # Nil /\ root.op = "not" -> <<"not">> \o Within(Child(t), text, 3)
        [] t # Nil /\ root.op = "some" -> <<root.count, "of">> \o Operand("some", root.names)
        [] t # Nil /\ root.op = "every" -> <<"all", "of">> \o Operand("every", root.names)

Written(tree) ==
  LET text[t \in Tree] == WrittenAt(t, text) IN text[tree]
=============================================================================
