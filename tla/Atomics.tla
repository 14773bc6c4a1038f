------------------------------- MODULE Atomics -------------------------------
(***************************************************************************)
(* The registry of atomic tests: which command an atomic ID stands for.    *)
(*                                                                         *)
(* A text (a command, a prerequisite, the value of an input) is the set of *)
(* the words and of the placeholders that occur in it: enough to tell whose*)
(* words a command has and which placeholders are left. The empty text is  *)
(* a blank one.                                                            *)
(***************************************************************************)
EXTENDS Integers, Sequences

CONSTANTS
  Techniques,
  Platforms,
  Words,
  Inputs,      \* the names of placeholders
  Malformed    \* what does not parse as an ID

ASSUME AtomicsAssumption ==
  /\ "linux" \in Platforms
  /\ Words \cap Inputs = {}

Text == SUBSET (Words \cup Inputs)

(* Values for some of the inputs. *)
IsValues(v) == DOMAIN v \subseteq Inputs /\ \A i \in DOMAIN v : v[i] \in Text

(* An ID is plain when it is written as the registry's own files write it: the
   pattern takes leading zeros too. *)
Id == [tech : Techniques, index : Nat, plain : BOOLEAN]

(* A test of the vendored tree. *)
IsUpstream(u) ==
  /\ u.platforms \subseteq Platforms
  /\ IsValues(u.inputs)
  /\ u.prereqs \in Seq(Text)
  /\ u.command \in Text
  /\ u.cleanup \in Text

(* A lab override. *)
IsOverride(o) ==
  /\ o.reason \in BOOLEAN
  /\ o.command \in Text
  /\ o.cleanup \in Text
  /\ o.platforms \subseteq Platforms
  /\ IsValues(o.inputs)

(* A resolved test; reason: the report gives one for a substitution. *)
Test == [platforms : SUBSET Platforms,
         prereqs   : Seq(Text),
         command   : Text,
         cleanup   : Text,
         reason    : BOOLEAN]

----------------------------------------------------------------------------
(* loadOverrides accepts the file. *)
Acceptable(overrides) ==
  \A id \in DOMAIN overrides :
    /\ overrides[id].reason
    /\ overrides[id].command # {} \/ DOMAIN overrides[id].inputs # {}

(* One pass: a known placeholder becomes its value, an unknown one stays. *)
Replaced(text, values) ==
  (text \ DOMAIN values) \cup UNION {values[i] : i \in text \cap DOMAIN values}

(* Mutant of Interpolate: a value is taken for plain text. *)
InterpolateOnce(text, values) == Replaced(text, values)

(* interpolate: a value may have placeholders of its own, and five passes bound
   how deep they nest. A pass that changes nothing ends the loop early. *)
Interpolate(text, values) ==
  LET pass(t) == Replaced(t, values)
  IN pass(pass(pass(pass(pass(text)))))

(* Mutant of Pinned: a pin is a default, taken where the test has none. *)
PinnedBehind(defaults, pins) ==
  [i \in DOMAIN defaults \cup DOMAIN pins |->
     IF i \in DOMAIN defaults THEN defaults[i] ELSE pins[i]]

(* The pins of an override go over the defaults of the test, and beside them:
   that a pinned input is declared is not checked. *)
Pinned(defaults, pins) ==
  [i \in DOMAIN defaults \cup DOMAIN pins |->
     IF i \in DOMAIN pins THEN pins[i] ELSE defaults[i]]

NoPins == [i \in {} |-> {}]

(* A command override replaces the test whole: it has no prerequisites, and its
   inputs, if it has any, are not read. *)
Substitute(o) ==
  [platforms |-> IF o.platforms = {} THEN {"linux"} ELSE o.platforms,
   prereqs   |-> <<>>,
   command   |-> o.command,
   cleanup   |-> o.cleanup,
   reason    |-> o.reason]

(* The upstream test, with the pins it is resolved by. *)
Instantiate(u, pins) ==
  LET v == Pinned(u.inputs, pins) IN
  [platforms |-> u.platforms,
   prereqs   |-> [k \in DOMAIN u.prereqs |-> Interpolate(u.prereqs[k], v)],
   command   |-> Interpolate(u.command, v),
   cleanup   |-> Interpolate(u.cleanup, v),
   reason    |-> DOMAIN pins # {}]

(* An override is looked up by the ID as it is written. *)
Replaces(overrides, id) ==
  id \in DOMAIN overrides /\ overrides[id].command # {}

PinsOf(overrides, id) ==
  IF id \in DOMAIN overrides THEN overrides[id].inputs ELSE NoPins

(* ParseID: the index is 1-based. *)
Parses(id) == id # Malformed /\ id.index >= 1

(* Resolve does not end in an error: there is an override, or the tree has a
   file of the technique with that many tests. *)
Resolvable(tree, overrides, id) ==
  /\ Parses(id)
  /\ Replaces(overrides, id) \/ id.index <= Len(tree[id.tech])

Resolve(tree, overrides, id) ==
  IF Replaces(overrides, id)
    THEN Substitute(overrides[id])
    ELSE Instantiate(tree[id.tech][id.index], PinsOf(overrides, id))
=============================================================================
