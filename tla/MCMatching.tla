----------------------------- MODULE MCMatching -----------------------------
(***************************************************************************)
(* Conditions over three identifiers, and selections over two fields.      *)
(***************************************************************************)
EXTENDS Matching

MCNames == {"sel_a", "sel_b", "filter_c"}
MCFilters == {"filter_c"}
MCCovers == [g \in {"sel_*"} |-> {"sel_a", "sel_b"}]
MCCounts == [n \in {"1", "2"} |-> IF n = "1" THEN 1 ELSE 2]

Key(f, mods, values) ==
  [field |-> f, mods |-> mods, values |-> values, null |-> FALSE,
   list |-> Cardinality(values) # 1]
Missing(f) ==
  [field |-> f, mods |-> {}, values |-> {}, null |-> TRUE, list |-> FALSE]
Keys(S) == [kind |-> "map", keys |-> S]
List(words, scalars, maps) ==
  [kind |-> "list", words |-> words, scalars |-> scalars, maps |-> maps]
Keywords(S) == List(S, {}, {})

(* Values: the empty string, x, and some y that holds x. *)
Any == {"startswith", "endswith", "contains", "re"} \X {Blank}
E == Any \cup {<<"equals", Blank>>}
X == Any \cup {<<"equals", "x">>, <<"startswith", "x">>, <<"endswith", "x">>,
              <<"contains", "x">>, <<"re", "x">>}
YX == Any \cup {<<"equals", "yx">>, <<"startswith", "y">>, <<"endswith", "x">>,
               <<"contains", "x">>, <<"contains", "y">>, <<"re", "x">>, <<"gt", "x">>}

MCEvents ==
  LET fields == {S \cup {FidelityKey} : S \in SUBSET {"A", "B"}}
                \cup {{"A", "B", "C", FidelityKey}}
  IN  {e \in UNION {[S -> {X, YX, E}] : S \in fields} :
         e[FidelityKey] = YX /\ ("C" \in DOMAIN e => e["C"] # YX)}

(* Conditions: each identifier asks for its own field. *)
Plain == [n \in MCNames |->
            Keys({Key(CASE n = "sel_a" -> "A" [] n = "sel_b" -> "B" [] OTHER -> "C",
                      {}, {"x"})})]

Idents == {Ident(n) : n \in MCNames}
Atoms == Idents
  \cup {Some("1", Them), Some("2", Them), Some("1", <<"sel_*">>),
        Some("1", <<"sel_a", "filter_c">>), Some("2", <<"filter_c", "sel_*">>),
        Every(Them), Every(<<"sel_*">>), Every(<<"sel_b", "filter_c">>)}
Pairs(S, T) == UNION {{Both(a, b), Either(a, b)} : a \in S, b \in T}
Level1 == Atoms \cup {Negation(a) : a \in Atoms} \cup Pairs(Atoms, Atoms)
Deep == {Negation(a) : a \in Pairs(Idents, Idents)}
        \cup Pairs(Level1, Idents) \cup Pairs(Idents, Level1)

Meaning(sels, tree) == [selections |-> sels, words |-> Written(tree), meant |-> tree]

Conditions ==
  {Meaning(Plain, t) : t \in Level1 \cup Deep}
  \cup {Meaning([n \in {"sel_a"} |-> Plain[n]], t) : t \in Level1}
  \cup {Meaning(<<>>, t) : t \in Atoms}

(* Selections: one or two keys, on different fields, keywords. *)
SomeKeys(f) ==
  {Key(f, mods, values) :
     mods \in {{}, {"contains"}, {"startswith"}, {"re"}, {"gt"}, {"all"},
               {"contains", "all"}, {"base64"}},
     values \in {{}, {"x"}, {"x", "y"}, {Blank}}}
  \cup {Missing(f)}

Selections ==
  {Keys({a}) : a \in SomeKeys("A")}
  \cup {Keys({a, b}) : a \in SomeKeys("A"), b \in SomeKeys("B")}
  \cup {Keywords(S) : S \in {{"x"}, {"y"}, {"x", "y"}, {Blank}}}

Alone(S) == {Meaning([n \in {"sel_a"} |-> s], Ident("sel_a")) : s \in S}

(* Texts that are no sentence. *)
Scraps ==
  LET tokens == {"sel_a", "and", "or", "not", "all", "of", "1", "them", "(", ")", ","}
      texts == UNION {[1 .. n -> tokens] : n \in 0 .. 3}
  IN  {[selections |-> Plain, words |-> w, meant |-> Nil] : w \in texts}

Simple(f) == {Key(f, {m}, {v}) : m \in {"contains", "endswith", "base64"},
                                 v \in {"x", "y"}}

(* Texts in which a key is repeated. *)
Repeated ==
  LET twice(mods) == {Key("A", mods, {v}) : v \in {"x", "y"}}
  IN  Alone({Keys(twice({"contains"})), List({"x"}, {}, {twice({})})})

MCRules == Conditions \cup Alone(Selections) \cup Scraps \cup Repeated

ASSUME MCRulesKept == \A r \in MCRules : Malformed(r) \/ KeptWhole(r)

(* Selections the parser does not keep whole: two conditions on one field, told
   apart by their modifiers, *)
Pairwise == {p \in Simple("A") \X Simple("A") : p[1].mods # p[2].mods}
Twice == {Keys({p[1], p[2]}) : p \in Pairwise}

(* lists in which there is no string, and a scalar. *)
Lists == {List({}, {}, {{a}, {b}}) : a \in Simple("A"), b \in Simple("B")}
         \cup {List({}, {"x"}, {}), List({}, {}, {}), [kind |-> "scalar", text |-> "x"]}

MCNotKept == Alone(Twice \cup Lists)
=============================================================================
