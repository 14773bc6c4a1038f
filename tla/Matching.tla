------------------------------ MODULE Matching ------------------------------
(***************************************************************************)
(* The rule parser and the matcher (internal/evaluator/rule.go, matcher.go):*)
(* Parse turns a detection block into field maps and a condition tree, and *)
(* Match evaluates them against an event. Which modifiers a rule may use is*)
(* decided in Parse and acted on by Evaluate (sigma.go).                   *)
(*                                                                         *)
(* A condition is a sequence of words and marks. A blank follows each word,*)
(* so "or(" and "and(", which the parser takes for names, do not occur; nor*)
(* do globs outside the operands of an aggregate, and names that begin as a*)
(* numeral or "them" does, of which the parser takes the beginning.        *)
(*                                                                         *)
(* A rule is its selections, its condition and what its author means, a    *)
(* tree or Nil when the condition is no sentence of the dialect. A key is  *)
(* what its text says, a field and a set of modifiers, each set spelled in *)
(* one order, and its values: those of a list, or one scalar, or null. A   *)
(* value that is a map leaves the key without values, as an empty list.    *)
(***************************************************************************)
EXTENDS SigmaDialect

CONSTANTS
  Rules,     \* the rules to parse
  Events     \* the normalized events to match

VARIABLES
  pc, rule,
  detections,    \* Rule.Detections
  unsupported,   \* Rule.Unsupported # ""
  condition,     \* Rule.Condition
  pos,           \* condParser.pos when the parse is over
  event, matched \* the last event and what Match said of it

vars == <<pc, rule, detections, unsupported, condition, pos, event, matched>>
parsed == <<rule, detections, unsupported, condition, pos>>

supportedModifiers ==
  {"all", "endswith", "startswith", "contains", "re", "lt", "lte", "gt", "gte"}

keywordField == "__keywords__"

(* Sigma rules, whose keys do not use the parser's own field. *)
KeyAssumption(key) ==
  /\ key.field # keywordField
  /\ ~key.list => IF key.null THEN key.values = {} ELSE \E v \in key.values : key.values = {v}

ASSUME RulesAssumption ==
  \A r \in Rules :
    /\ r.words \in Text /\ r.meant \in Tree
    /\ r.meant # Nil => Sentence(r.meant) /\ r.words = Written(r.meant)
    /\ IsFiniteSet(DOMAIN r.selections)
    /\ \A n \in DOMAIN r.selections :
         LET sel == r.selections[n]
         IN  /\ sel.kind \in {"map", "list", "scalar"}
             /\ sel.kind = "map" => \A key \in sel.keys : KeyAssumption(key)

(* yaml.v3 refuses a map in which a key is repeated. *)
Repeats(keys) == \E a, b \in keys : a # b /\ a.field = b.field /\ a.mods = b.mods

Malformed(r) ==
  \E n \in DOMAIN r.selections :
    LET sel == r.selections[n]
    IN  \/ sel.kind = "map" /\ Repeats(sel.keys)
        \/ sel.kind = "list" /\ \E keys \in sel.maps : Repeats(keys)

(* A list of values loses the empty strings, and null, which has no text. *)
Entry(key) ==
  [values |-> IF key.list THEN key.values \ {Blank} ELSE key.values,
   mods   |-> key.mods,
   null   |-> key.null /\ ~key.list]

(* The field maps parseFieldMap can return. A map of field conditions is
   walked in no order, and of two keys on a field the last one walked stays;
   of a list only the strings are kept, and without any the map is empty. *)
FieldMaps(sel) ==
  LET fields == {key.field : key \in sel.keys}
      last == {w \in [fields -> sel.keys] : \A f \in fields : w[f].field = f}
      keywords == [values |-> sel.words, mods |-> {}, null |-> FALSE]
  IN  CASE sel.kind = "map" -> {[f \in fields |-> Entry(w[f])] : w \in last}
        [] sel.kind = "list" /\ sel.words # {} -> {[f \in {keywordField} |-> keywords]}
        [] OTHER -> {<<>>}

(* The condition parser. What a reading returns is the tree and how many of
   the words s it took, from position p on. *)
Got(tree, took) == [tree |-> tree, took |-> took]

(* Some words were taken before. *)
Then(took, read) == Got(read.tree, took + read.took)

At(s, p, word) == p <= Len(s) /\ s[p] = word

(* An operator needs a blank after it, which the end of the text is not. *)
Word(s, p, word) == p < Len(s) /\ s[p] = word

Past(s, p, mark) == p + 1    \* a mutant: the mark is not looked for
After(s, p, mark) == IF At(s, p, mark) THEN p + 1 ELSE p

ReadPlain(s, p) ==    \* a mutant: a glob is not an operand
  IF p <= Len(s) /\ s[p] \in Words
  THEN [names |-> <<s[p]>>, at |-> p + 1] ELSE [names |-> <<>>, at |-> p]

readAggIdent(s, p) ==
  IF p <= Len(s) /\ s[p] \in Words \cup Globs
  THEN [names |-> <<s[p]>>, at |-> p + 1] ELSE [names |-> <<>>, at |-> p]

(* Names with commas between them, and the position after them. *)
OperandsAt(s, p, list) ==
  LET one == readAggIdent(s, p)
      rest == list[one.at + 1]
  IN  IF At(s, one.at, Comma)
      THEN [names |-> one.names \o rest.names, at |-> rest.at] ELSE one

Operands(s, first) ==
  LET list[p \in Nat] == OperandsAt(s, p, list) IN list[first]

ParseOneOf(s, p) ==
  LET q == IF Word(s, p + 1, "of") THEN p + 2 ELSE p + 1
      one == readAggIdent(s, q)
      list == Operands(s, q + 1)
  IN  CASE At(s, q, "them") -> Got(Some(s[p], Them), q + 1 - p)
        [] At(s, q, Open) -> Got(Some(s[p], list.names), After(s, list.at, Close) - p)
        [] OTHER         -> Got(Some(s[p], one.names), one.at - p)

ParseAllOf(s, p) ==
  LET list == Operands(s, p + 2)
  IN  IF At(s, p + 2, "them") THEN Got(Every(Them), 3)
                              ELSE Got(Every(list.names), list.at - p)

(* The methods of the parser and the loops of two of them, which extend the
   tree on their left. A call is what is called, with what on its left, and
   where; read gives the reading of each call. *)
Call == {"or", "orRest", "and", "andRest", "not", "primary"} \X Tree \X Nat

ParseOr(read, p) ==
  LET left == read[<<"and", Nil, p>>]
  IN  Then(left.took, read[<<"orRest", left.tree, p + left.took>>])

OrRest(read, s, left, p) ==
  LET right == read[<<"and", Nil, p + 1>>]
      took == 1 + right.took
  IN  IF Word(s, p, "or")
      THEN Then(took, read[<<"orRest", Either(left, right.tree), p + took>>])
      ELSE Got(left, 0)

ParseAnd(read, p) ==
  LET left == read[<<"not", Nil, p>>]
  IN  Then(left.took, read[<<"andRest", left.tree, p + left.took>>])

AndRest(read, s, left, p) ==
  LET right == read[<<"not", Nil, p + 1>>]
      took == 1 + right.took
  IN  IF Word(s, p, "and")
      THEN Then(took, read[<<"andRest", Both(left, right.tree), p + took>>])
      ELSE Got(left, 0)

ParseNot(read, s, p) ==
  LET child == read[<<"not", Nil, p + 1>>]
  IN  IF Word(s, p, "not") THEN Got(Negation(child.tree), 1 + child.took)
                           ELSE read[<<"primary", Nil, p>>]

ParsePrimary(read, s, p) ==
  LET inner == read[<<"or", Nil, p + 1>>]
  IN  IF p > Len(s) THEN Got(Nil, 0)
      ELSE CASE s[p] \in DOMAIN Counts -> ParseOneOf(s, p)
             [] s[p] = "all" /\ Word(s, p + 1, "of") -> ParseAllOf(s, p)
             [] s[p] = Open ->
                  Got(inner.tree, After(s, p + 1 + inner.took, Close) - p)
             [] OTHER -> IF s[p] \in Words THEN Got(Ident(s[p]), 1) ELSE Got(Nil, 0)

ReadCall(c, read, s) ==
  CASE c[1] = "or"      -> ParseOr(read, c[3])
    [] c[1] = "orRest"  -> OrRest(read, s, c[2], c[3])
    [] c[1] = "and"     -> ParseAnd(read, c[3])
    [] c[1] = "andRest" -> AndRest(read, s, c[2], c[3])
    [] c[1] = "not"     -> ParseNot(read, s, c[3])
    [] c[1] = "primary" -> ParsePrimary(read, s, c[3])

Reading(s) == LET read[c \in Call] == ReadCall(c, read, s) IN read

parseCondition(s) == Reading(s)[<<"or", Nil, 1>>]
-----------------------------------------------------------------------------
(* The matcher. *)

(* The modifier that decides how a value is compared. *)
Comparison(mods) ==
  LET number == mods \cap {"lt", "lte", "gt", "gte"}
  IN  CASE "re" \in mods -> "re"
        [] "re" \notin mods /\ number # {} -> CHOOSE m \in number : TRUE
        [] OTHER -> IF "contains" \in mods THEN "contains"
                    ELSE IF "startswith" \in mods THEN "startswith"
                    ELSE IF "endswith" \in mods THEN "endswith" ELSE "equals"

matchField(value, entry) ==
  LET matchOne(candidate) == <<Comparison(entry.mods), candidate>> \in value
  IN  /\ entry.values # {}
      /\ IF "all" \in entry.mods THEN \A c \in entry.values : matchOne(c)
                                 ELSE \E c \in entry.values : matchOne(c)

matchKeywords(words, ev) ==
  \E f \in DOMAIN ev \ {FidelityKey}, w \in words : <<"contains", w>> \in ev[f]

matchEntry(entry, field, ev) ==
  IF entry.null THEN field \in DOMAIN ev => Empty(ev[field])
                ELSE field \in DOMAIN ev /\ matchField(ev[field], entry)

evalIdent(n, det, ev) ==
  /\ n \in DOMAIN det
  /\ IF keywordField \in DOMAIN det[n]
     THEN matchKeywords(det[n][keywordField].values, ev)
     ELSE \A f \in DOMAIN det[n] : matchEntry(det[n][f], f, ev)

(* A mutant: "them" includes the filters. *)
ExpandAll(names, det) ==
  IF names = <<>> THEN {0} \X DOMAIN det
  ELSE UNION {{k} \X (IF names[k] \in Globs THEN Covers[names[k]] \cap DOMAIN det
                                            ELSE {names[k]}) : k \in DOMAIN names}

(* The list expandIdentNames returns, as pairs of a place and a name: a name
   that two operands cover is counted twice. *)
expandIdentNames(names, det) ==
  IF names = <<>> THEN {0} \X (DOMAIN det \ Filters)
  ELSE UNION {{k} \X (IF names[k] \in Globs THEN Covers[names[k]] \cap DOMAIN det
                                            ELSE {names[k]}) : k \in DOMAIN names}

evalOneOf(e, det, ev) ==
  Cardinality({x \in expandIdentNames(e.names, det) : evalIdent(x[2], det, ev)})
    >= Counts[e.count]

evalAllOf(e, det, ev) ==
  LET names == expandIdentNames(e.names, det)
  IN  names # {} /\ \A x \in names : evalIdent(x[2], det, ev)

(* evalExpr of a tree, given that of its subtrees; of Nil it is FALSE. *)
evalAt(t, holds, det, ev) ==
  LET root == Root(t)
  IN  /\ t # Nil
      /\ \/ root.op = "ident" /\ evalIdent(root.name, det, ev)
         \/ root.op = "and" /\ holds[Left(t)] /\ holds[Right(t)]
         \/ root.op = "or" /\ (holds[Left(t)] \/ holds[Right(t)])
         \/ root.op = "not" /\ ~holds[Child(t)]
         \/ root.op = "some" /\ evalOneOf(root, det, ev)
         \/ root.op = "every" /\ evalAllOf(root, det, ev)

evalExpr(e, det, ev) ==
  LET holds[t \in Tree] == evalAt(t, holds, det, ev) IN holds[e]
-----------------------------------------------------------------------------
NoEvent == <<>>

Init ==
  /\ rule \in Rules
  /\ pc = "parse"
  /\ detections = <<>> /\ unsupported = FALSE /\ condition = Nil /\ pos = 1
  /\ event = NoEvent /\ matched = FALSE

(* RuleParser.Parse: the text is no rule. *)
Refuse ==
  /\ pc = "parse" /\ Malformed(rule)
  /\ pc' = "refused"
  /\ UNCHANGED <<parsed, event, matched>>

(* RuleParser.Parse. *)
Parse ==
  /\ pc = "parse" /\ ~Malformed(rule)
  /\ pc' = "match"
  /\ \E det \in [DOMAIN rule.selections ->
                   UNION {FieldMaps(s) : s \in {rule.selections[n] :
                                           n \in DOMAIN rule.selections}}] :
       /\ \A n \in DOMAIN det : det[n] \in FieldMaps(rule.selections[n])
       /\ detections' = det
       /\ unsupported' = \E n \in DOMAIN det : \E f \in DOMAIN det[n] :
                           ~(det[n][f].mods \subseteq supportedModifiers)
  /\ LET read == parseCondition(rule.words)
     IN  condition' = read.tree /\ pos' = 1 + read.took
  /\ UNCHANGED <<rule, event, matched>>

(* Matcher.Match, which Evaluate calls for an event unless the rule uses
   something unsupported. *)
Match(ev) ==
  /\ pc = "match" /\ ~unsupported
  /\ pc' = "done"
  /\ event' = ev
  /\ matched' = (condition # Nil /\ evalExpr(condition, detections, ev))
  /\ UNCHANGED parsed

Next == Refuse \/ Parse \/ \E ev \in Events : Match(ev)

Spec == Init /\ [][Next]_vars
-----------------------------------------------------------------------------
InDialect == rule.meant # Nil

(* The parser keeps one entry of a field, and of a list its strings, or its
   nonempty values; the matcher compares in one way. *)
KeyKept(key) ==
  /\ key.list => Blank \notin key.values /\ ~key.null
  /\ \A m, w \in key.mods \ {"all"} : m = w

KeptWhole(r) ==
  \A n \in DOMAIN r.selections :
    LET sel == r.selections[n]
    IN  \/ /\ sel.kind = "list"
           /\ sel.words # {} /\ sel.scalars = {} /\ sel.maps = {}
        \/ /\ sel.kind = "map"
           /\ \A a, b \in sel.keys : a.field = b.field => a = b
           /\ \A a \in sel.keys : KeyKept(a)

(* Each variable keeps its type, and the parser, which slices the
   condition at its position, never goes past the end. *)
TypeOK ==
  /\ pc \in {"parse", "refused", "match", "done"}
  /\ DOMAIN detections \subseteq DOMAIN rule.selections
  /\ pos \in 1 .. Len(rule.words) + 1
  /\ condition \in Tree
  /\ {unsupported, matched} \subseteq BOOLEAN
  /\ event \in Events \cup {NoEvent}

(* rule.go, parseCondition drops what follows the tree it has read: no
   condition of the dialect loses a part of itself that way, whatever
   operators, aggregates, lists and globs it nests. *)
NothingLeftOver ==
  pc \in {"match", "done"} /\ InDialect => pos = Len(rule.words) + 1

(* matcher.go: a rule that is evaluated matches exactly the events its author
   means: precedence and parentheses are read as they are written, filters
   are left out of "them", an undefined identifier or an absent field never
   matches, all the field conditions of an identifier must, and a modifier
   that the matcher cannot compare with keeps the rule from being evaluated. *)
MatchesAsMeant ==
  pc = "done" /\ InDialect =>
    (matched <=> Means(rule.meant, DOMAIN rule.selections,
                       Hit(rule.selections, event)))
=============================================================================
