--------------------------- MODULE MatchingProofs ---------------------------
(***************************************************************************)
(* A condition of the dialect, however deep, is read as it is written, and *)
(* an identifier, a count and "all of" hold of an event exactly when the   *)
(* author of the rule means it.                                            *)
(*                                                                         *)
(* The recursive functions of the model are reasoned about by the least    *)
(* counterexample, which the well-foundedness of the naturals provides.    *)
(***************************************************************************)
EXTENDS Matching, WellFoundedInduction, FunctionTheorems, FiniteSetTheorems, SequenceTheorems,
        TLAPS

-----------------------------------------------------------------------------
(* Induction and recursion on a rank. *)
LEMMA LeastRank ==
  ASSUME NEW D, NEW rank \in [D -> Nat], NEW S, S \subseteq D, S # {}
  PROVE  \E x \in S : \A y \in S : rank[x] <= rank[y]
<1> DEFINE R == OpToRel(<, Nat)
           T == {rank[x] : x \in S}
<1>1. IsWellFoundedOn(R, Nat)
  BY NatLessThanWellFounded
<1>2. \A i, j \in Nat : i < j => <<i, j>> \in R
  BY DEF OpToRel
<1>3. T \subseteq Nat /\ T # {}
  OBVIOUS
<1> HIDE DEF R
<1>4. PICK n \in T : \A m \in T : ~ (<<m, n>> \in R)
  <2> HIDE DEF T
  <2> QED
    BY <1>1, <1>3, WFMin
<1>5. \A m \in T : n <= m
  <2> SUFFICES ASSUME NEW m \in T PROVE n <= m
    OBVIOUS
  <2>1. n \in Nat /\ m \in Nat
    BY <1>3
  <2>2. ~(m < n)
    BY <1>2, <1>4, <2>1
  <2> QED
    BY <2>1, <2>2
<1>6. PICK x \in S : n = rank[x]
  BY <1>4
<1>7. \A y \in S : rank[y] \in T
  OBVIOUS
<1> HIDE DEF T
<1> QED
  BY <1>5, <1>6, <1>7

(* G says what a function is at x, from its values at what ranks below x. *)
Defining(D, V, rank, G) ==
  /\ V # {} /\ rank \in [D -> Nat] /\ G \in [D \X [D -> V] -> V]
  /\ \A x \in D : \A f, g \in [D -> V] :
       (\A y \in D : rank[y] < rank[x] => f[y] = g[y]) => G[<<x, f>>] = G[<<x, g>>]

(* There is a function that does what G says: a recursive definition whose
   argument decreases defines what it seems to. *)
THEOREM RankedRecursion ==
  ASSUME NEW D, NEW V, NEW rank, NEW G, Defining(D, V, rank, G)
  PROVE  \E h \in [D -> V] : \A x \in D : h[x] = G[<<x, h>>]
<1>0. /\ V # {} /\ rank \in [D -> Nat] /\ G \in [D \X [D -> V] -> V]
      /\ \A x \in D : \A f, g \in [D -> V] :
           (\A y \in D : rank[y] < rank[x] => f[y] = g[y]) => G[<<x, f>>] = G[<<x, g>>]
  BY DEF Defining
<1> USE <1>0
<1> DEFINE Meets(f, n) == f \in [D -> V] /\ \A x \in D : rank[x] < n => f[x] = G[<<x, f>>]
<1>1. ASSUME NEW n \in Nat, NEW m \in Nat, NEW f, NEW g, Meets(f, n), Meets(g, m),
             NEW x \in D, rank[x] < n, rank[x] < m
      PROVE  f[x] = g[x]
  <2> DEFINE S == {z \in D : rank[z] < n /\ rank[z] < m /\ f[z] # g[z]}
  <2> SUFFICES ASSUME f[x] # g[x] PROVE FALSE
    OBVIOUS
  <2>1. S \subseteq D /\ S # {}
    BY <1>1
  <2>2. PICK z \in S : \A y \in S : rank[z] <= rank[y]
    <3> HIDE DEF S
    <3> QED BY <2>1, LeastRank
  <2>3. z \in D /\ rank[z] < n /\ rank[z] < m /\ f[z] # g[z]
    BY <2>2
  <2>4. ASSUME NEW y \in D, rank[y] < rank[z] PROVE f[y] = g[y]
    BY <2>2, <2>3, <2>4
  <2>5. f[z] = G[<<z, f>>] /\ g[z] = G[<<z, g>>] /\ f \in [D -> V] /\ g \in [D -> V]
    BY <2>3, <1>1
  <2> QED
    BY <2>3, <2>4, <2>5
<1>2. \A n \in Nat : \E f : Meets(f, n)
  <2> DEFINE S == {n \in Nat : ~ \E f : Meets(f, n)}
             id == [n \in Nat |-> n]
  <2> SUFFICES ASSUME S # {} PROVE FALSE
    OBVIOUS
  <2>1. PICK n \in S : \A j \in S : n <= j
    <3>1. S \subseteq Nat /\ id \in [Nat -> Nat]
      OBVIOUS
    <3>2. \E x \in S : \A y \in S : id[x] <= id[y]
      <4> HIDE DEF S, id
      <4> QED BY <3>1, LeastRank
    <3> QED BY <3>1, <3>2
  <2>2. n \in Nat /\ ~ \E f : Meets(f, n)
    BY <2>1
  <2>3. n # 0
    <3>1. PICK v \in V : TRUE
      OBVIOUS
    <3>2. Meets([x \in D |-> v], 0)
      OBVIOUS
    <3> QED BY <3>2, <2>2
  <2>4. PICK f : Meets(f, n - 1)
    <3>1. n - 1 \in Nat /\ ~(n <= n - 1)
      BY <2>2, <2>3
    <3>2. n - 1 \notin S
      BY <2>1, <3>1
    <3> HIDE DEF Meets
    <3> QED BY <3>1, <3>2
  <2> DEFINE e == [x \in D |-> IF rank[x] < n - 1 THEN f[x] ELSE G[<<x, f>>]]
  <2>5. e \in [D -> V]
    <3>1. f \in [D -> V]
       BY <2>4
    <3>2. \A x \in D : G[<<x, f>>] \in V /\ f[x] \in V
       BY <3>1
    <3> QED BY <3>2
  <2>6. ASSUME NEW x \in D, rank[x] < n PROVE e[x] = G[<<x, e>>]
    <3>1. f \in [D -> V]
      BY <2>4
    <3>2. \A y \in D : rank[y] < rank[x] => f[y] = e[y]
      BY <2>6, <2>2
    <3>3. e[x] = G[<<x, f>>]
      BY <2>4, <2>6
    <3> HIDE DEF e
    <3>4. G[<<x, f>>] = G[<<x, e>>]
      BY <2>5, <3>1, <3>2
    <3> QED BY <3>3, <3>4
  <2> HIDE DEF e
  <2>7. Meets(e, n)
    BY <2>5, <2>6
  <2> QED BY <2>2, <2>7
<1> DEFINE pick(n) == CHOOSE f : Meets(f, n)
           h == [x \in D |-> pick(rank[x] + 1)[x]]
<1>3. \A n \in Nat : Meets(pick(n), n)
  BY <1>2
<1> HIDE DEF pick
<1>4. h \in [D -> V]
  <2>1. \A n \in Nat : pick(n) \in [D -> V]
    BY <1>3
  <2>2. \A x \in D : rank[x] + 1 \in Nat
    OBVIOUS
  <2> QED BY <2>1, <2>2
<1>5. ASSUME NEW x \in D PROVE h[x] = G[<<x, h>>]
  <2> DEFINE f == pick(rank[x] + 1)
  <2>0. \A z \in D : rank[z] + 1 \in Nat /\ rank[z] < rank[z] + 1
    OBVIOUS
  <2>1. Meets(f, rank[x] + 1) /\ rank[x] + 1 \in Nat /\ rank[x] < rank[x] + 1
    <3> HIDE DEF Meets
    <3> QED BY <2>0, <1>3
  <2>2. ASSUME NEW y \in D, rank[y] < rank[x] PROVE f[y] = h[y]
    <3>1. Meets(pick(rank[y] + 1), rank[y] + 1) /\ rank[y] + 1 \in Nat /\ rank[y] < rank[y] + 1
      <4> HIDE DEF Meets
      <4> QED BY <2>0, <1>3
    <3>2. rank[y] < rank[x] + 1
      BY <2>2
    <3>3. h[y] = pick(rank[y] + 1)[y]
      OBVIOUS
    <3> HIDE DEF h, f, Meets
    <3>4. pick(rank[y] + 1)[y] = f[y]
      BY <1>1, <2>1, <3>1, <3>2
    <3> QED BY <3>3, <3>4
  <2>3. h[x] = f[x]
    OBVIOUS
  <2>4. f \in [D -> V] /\ f[x] = G[<<x, f>>]
    BY <2>1
  <2> HIDE DEF h, f
  <2>5. G[<<x, f>>] = G[<<x, h>>]
    BY <2>2, <2>4, <1>4
  <2> QED BY <2>3, <2>4, <2>5
<1> HIDE DEF h
<1> QED BY <1>4, <1>5
-----------------------------------------------------------------------------
(* Trees. *)
LEMMA NodeKinds ==
  ASSUME NEW n \in Node
  PROVE  /\ n.op \in {"ident", "not", "and", "or", "some", "every"}
         /\ n.op = "ident" => n.name \in Words
         /\ n.op \in {"and", "or"} => n.right \in Nat
         /\ n.op = "some" => n.count \in DOMAIN Counts /\ n.names \in Target
         /\ n.op = "every" => n.names \in Target
BY DEF Node

LEMMA Subtrees ==
  ASSUME NEW t \in Tree, t # Nil
  PROVE  /\ Root(t) \in Node
         /\ Len(t) \in Nat \ {0}
         /\ Child(t) \in Tree /\ Len(Child(t)) = Len(t) - 1
         /\ Root(t).op \in {"and", "or"} =>
              /\ Left(t) \in Tree /\ Len(Left(t)) < Len(t)
              /\ Right(t) \in Tree /\ Len(Right(t)) < Len(t)
              /\ Left(t) # Nil => /\ Len(Right(t)) = Root(t).right
                                  /\ Len(Left(t)) = Len(t) - 1 - Root(t).right
<1>1. /\ Len(t) \in Nat \ {0} /\ Root(t) \in Node
      /\ \A i \in 1 .. Len(t) : t[i] \in Node
  <2>1. t \in Seq(Node) /\ t # << >>
    BY DEF Tree, Nil
  <2>2. Len(t) \in Nat \ {0}
    BY <2>1, EmptySeq
  <2>3. \A i \in 1 .. Len(t) : t[i] \in Node
    BY <2>1, ElementOfSeq
  <2> QED
    BY <2>2, <2>3 DEF Root
<1>2. /\ Child(t) \in Tree /\ Len(Child(t)) = Len(t) - 1
  <2> DEFINE e == Len(t) - 1
  <2>1. e \in Nat /\ 1 \in Int /\ \A i \in 1 .. e : t[i] \in Node
    BY <1>1
  <2>2. Child(t) = SubSeq(t, 1, e)
    BY DEF Child
  <2>3. Len(SubSeq(t, 1, e)) = e /\ SubSeq(t, 1, e) \in Seq(Node)
    <3> HIDE DEF e
    <3> QED
      BY <2>1, SubSeqProperties
  <2> QED
    BY <2>2, <2>3 DEF Tree
<1>3. ASSUME Root(t).op \in {"and", "or"}
      PROVE  /\ Left(t) \in Tree /\ Len(Left(t)) < Len(t)
             /\ Right(t) \in Tree /\ Len(Right(t)) < Len(t)
             /\ Left(t) # Nil => /\ Len(Right(t)) = Root(t).right
                                 /\ Len(Left(t)) = Len(t) - 1 - Root(t).right
  <2> DEFINE k == Len(t) - 1 - Root(t).right
  <2>1. Root(t).right \in Nat /\ k \in Int /\ k < Len(t)
    BY <1>1, <1>3, NodeKinds
  <2>2. /\ Left(t) \in Seq(Node)
        /\ Len(Left(t)) = IF 1 <= k THEN k ELSE 0
    <3>1. \A i \in 1 .. k : t[i] \in Node
      BY <1>1, <2>1
    <3>2. Left(t) = SubSeq(t, 1, k)
      BY DEF Left
    <3> HIDE DEF k
    <3> QED
      BY <2>1, <3>1, <3>2, SubSeqProperties
  <2>3. Left(t) # Nil => Len(Left(t)) # 0
    BY <2>2 DEF Nil
  <2> DEFINE m == Len(Left(t)) + 1
             e == Len(t) - 1
  <2>4. m \in Nat \ {0} /\ e \in Nat
    BY <1>1, <2>1, <2>2
  <2>5. /\ Right(t) \in Seq(Node)
        /\ Len(Right(t)) = IF m <= e THEN e - m + 1 ELSE 0
    <3>1. \A i \in m .. e : t[i] \in Node
      BY <1>1, <2>4
    <3>2. Right(t) = SubSeq(t, m, e)
      BY DEF Right
    <3> HIDE DEF m, e
    <3> QED
      BY <2>4, <3>1, <3>2, SubSeqProperties
  <2> QED
    BY <1>1, <2>1, <2>2, <2>3, <2>4, <2>5 DEF Tree
<1> QED
  BY <1>1, <1>2, <1>3

(* A set of trees that is not empty has a shortest one. *)
LEMMA ShortestTree ==
  ASSUME NEW S, S \subseteq Tree, S # {}
  PROVE  \E t \in S : \A u \in S : Len(t) <= Len(u)
<1> DEFINE rank == [t \in Tree |-> Len(t)]
<1>1. rank \in [Tree -> Nat] /\ \A t \in Tree : rank[t] = Len(t)
  BY DEF Tree
<1> HIDE DEF rank
<1>2. \E t \in S : \A u \in S : rank[t] <= rank[u]
  BY <1>1, LeastRank, Zenon
<1> QED
  BY <1>1, <1>2

(* The length ranks trees. *)
TreeRank == [t \in Tree |-> Len(t)]

(* The meaning of a tree and its evaluation are such definitions. *)
LEMMA TreeRanks ==
  /\ TreeRank \in [Tree -> Nat]
  /\ \A t \in Tree : TreeRank[t] = Len(t)
BY DEF Tree, TreeRank

LEMMA MeansIs ==
  ASSUME NEW defined, NEW hit
  PROVE  \E h \in [Tree -> BOOLEAN] :
           /\ \A t \in Tree : h[t] = MeansAt(t, h, defined, hit)
           /\ \A t : Means(t, defined, hit) = h[t]
<1> DEFINE G == [x \in Tree \X [Tree -> BOOLEAN] |-> MeansAt(x[1], x[2], defined, hit)]
<1>1. Defining(Tree, BOOLEAN, TreeRank, G)
  <2>1. ASSUME NEW t \in Tree, NEW f \in [Tree -> BOOLEAN]
        PROVE  MeansAt(t, f, defined, hit) \in BOOLEAN
    BY DEF MeansAt
  <2>2. ASSUME NEW t \in Tree, NEW f \in [Tree -> BOOLEAN], NEW g \in [Tree -> BOOLEAN],
               \A u \in Tree : TreeRank[u] < TreeRank[t] => f[u] = g[u]
        PROVE  MeansAt(t, f, defined, hit) = MeansAt(t, g, defined, hit)
    BY <2>2, Subtrees, TreeRanks DEF MeansAt
  <2> QED
    BY <2>1, <2>2, TreeRanks, ZenonT(30) DEF Defining
<1>2. PICK h \in [Tree -> BOOLEAN] : \A t \in Tree : h[t] = G[<<t, h>>]
  <2> HIDE DEF G
  <2> QED
    BY <1>1, RankedRecursion
<1>3. \A t \in Tree : h[t] = MeansAt(t, h, defined, hit)
  BY <1>2
<1> DEFINE P(g) == g = [t \in Tree |-> MeansAt(t, g, defined, hit)]
           m == CHOOSE g : P(g)
<1>4. P(h)
  BY <1>3
<1>5. \A t : Means(t, defined, hit) = m[t]
  BY Zenon DEF Means
<1> HIDE DEF P
<1>6. P(m)
  BY <1>4, Zenon
<1> HIDE DEF m
<1>7. m \in [Tree -> BOOLEAN] /\ \A t \in Tree : m[t] = MeansAt(t, m, defined, hit)
  BY <1>6 DEF P, MeansAt
<1> QED
  BY <1>5, <1>7

LEMMA EvalIs ==
  ASSUME NEW det, NEW ev
  PROVE  \E h \in [Tree -> BOOLEAN] :
           /\ \A t \in Tree : h[t] = evalAt(t, h, det, ev)
           /\ \A t : evalExpr(t, det, ev) = h[t]
<1> DEFINE G == [x \in Tree \X [Tree -> BOOLEAN] |-> evalAt(x[1], x[2], det, ev)]
<1>1. Defining(Tree, BOOLEAN, TreeRank, G)
  <2>1. ASSUME NEW t \in Tree, NEW f \in [Tree -> BOOLEAN]
        PROVE  evalAt(t, f, det, ev) \in BOOLEAN
    BY DEF evalAt
  <2>2. ASSUME NEW t \in Tree, NEW f \in [Tree -> BOOLEAN], NEW g \in [Tree -> BOOLEAN],
               \A u \in Tree : TreeRank[u] < TreeRank[t] => f[u] = g[u]
        PROVE  evalAt(t, f, det, ev) = evalAt(t, g, det, ev)
    BY <2>2, Subtrees, TreeRanks DEF evalAt
  <2> QED
    BY <2>1, <2>2, TreeRanks, ZenonT(30) DEF Defining
<1>2. PICK h \in [Tree -> BOOLEAN] : \A t \in Tree : h[t] = G[<<t, h>>]
  <2> HIDE DEF G
  <2> QED
    BY <1>1, RankedRecursion
<1>3. \A t \in Tree : h[t] = evalAt(t, h, det, ev)
  BY <1>2
<1> DEFINE P(g) == g = [t \in Tree |-> evalAt(t, g, det, ev)]
           m == CHOOSE g : P(g)
<1>4. P(h)
  BY <1>3
<1>5. \A t : evalExpr(t, det, ev) = m[t]
  BY Zenon DEF evalExpr
<1> HIDE DEF P
<1>6. P(m)
  BY <1>4, Zenon
<1> HIDE DEF m
<1>7. m \in [Tree -> BOOLEAN] /\ \A t \in Tree : m[t] = evalAt(t, m, det, ev)
  BY <1>6 DEF P, evalAt
<1> QED
  BY <1>5, <1>7

LEMMA SentenceIs ==
  \E h \in [Tree -> BOOLEAN] :
     /\ \A t \in Tree : h[t] = SentenceAt(t, h)
     /\ \A t : Sentence(t) = h[t]
<1> DEFINE G == [x \in Tree \X [Tree -> BOOLEAN] |-> SentenceAt(x[1], x[2])]
<1>1. Defining(Tree, BOOLEAN, TreeRank, G)
  <2>1. ASSUME NEW t \in Tree, NEW f \in [Tree -> BOOLEAN]
        PROVE  SentenceAt(t, f) \in BOOLEAN
    BY DEF SentenceAt
  <2>2. ASSUME NEW t \in Tree, NEW f \in [Tree -> BOOLEAN], NEW g \in [Tree -> BOOLEAN],
               \A u \in Tree : TreeRank[u] < TreeRank[t] => f[u] = g[u]
        PROVE  SentenceAt(t, f) = SentenceAt(t, g)
    BY <2>2, Subtrees, TreeRanks DEF SentenceAt
  <2> QED
    BY <2>1, <2>2, TreeRanks, ZenonT(30) DEF Defining
<1>2. PICK h \in [Tree -> BOOLEAN] : \A t \in Tree : h[t] = G[<<t, h>>]
  <2> HIDE DEF G
  <2> QED
    BY <1>1, RankedRecursion
<1>3. \A t \in Tree : h[t] = SentenceAt(t, h)
  BY <1>2
<1> DEFINE P(g) == g = [t \in Tree |-> SentenceAt(t, g)]
           m == CHOOSE g : P(g)
<1>4. P(h)
  BY <1>3
<1>5. \A t : Sentence(t) = m[t]
  BY Zenon DEF Sentence
<1> HIDE DEF P
<1>6. P(m)
  BY <1>4, Zenon
<1> HIDE DEF m
<1>7. m \in [Tree -> BOOLEAN] /\ \A t \in Tree : m[t] = SentenceAt(t, m)
  BY <1>6 DEF P, SentenceAt
<1> QED
  BY <1>5, <1>7

(* A list of n names is n names and n - 1 commas. *)
LEMMA ListedIs ==
  ASSUME NEW target \in Target, target # Them
  PROVE  /\ Len(target) \in Nat \ {0}
         /\ Listed(target) \in Seq(Token)
         /\ Len(Listed(target)) = 2 * Len(target) - 1
         /\ \A k \in 1 .. Len(target) : Listed(target)[2 * k - 1] = target[k]
         /\ \A k \in 1 .. Len(target) - 1 : Listed(target)[2 * k] = Comma
<1> DEFINE n == Len(target)
           m == 2 * n - 1
<1>1. n \in Nat \ {0} /\ \A k \in 1 .. n : target[k] \in Words \cup Globs
  <2>1. target \in Seq(Words \cup Globs) /\ target # << >>
    BY DEF Target, Them
  <2> QED
    BY <2>1, EmptySeq, ElementOfSeq
<1> HIDE DEF n
<1>2. m \in Nat
  BY <1>1
<1>3. \A k \in 1 .. m : Listed(target)[k] \in Token
  <2> SUFFICES ASSUME NEW k \in 1 .. m PROVE Listed(target)[k] \in Token
    OBVIOUS
  <2>1. CASE k % 2 = 1
    <3>1. (k + 1) \div 2 \in 1 .. n
      BY <1>1
    <3>2. Listed(target)[k] = target[(k + 1) \div 2]
      BY <2>1 DEF Listed, n
    <3> QED
      BY <3>1, <3>2, <1>1 DEF Token
  <2>2. CASE k % 2 # 1
    BY <2>2 DEF Listed, n, Token, Marks
  <2> QED
    BY <2>1, <2>2
<1>4. Listed(target) \in [1 .. m -> Token]
  BY <1>3 DEF Listed, n
<1>5. Listed(target) \in Seq(Token) /\ Len(Listed(target)) = m
  BY <1>2, <1>4
<1>6. ASSUME NEW k \in 1 .. n PROVE Listed(target)[2 * k - 1] = target[k]
  <2>1. 2 * k - 1 \in 1 .. m /\ (2 * k - 1) % 2 = 1 /\ (2 * k - 1 + 1) \div 2 = k
    BY <1>1
  <2> QED
    BY <2>1 DEF Listed, n
<1>7. ASSUME NEW k \in 1 .. n - 1 PROVE Listed(target)[2 * k] = Comma
  <2>1. 2 * k \in 1 .. m /\ (2 * k) % 2 # 1
    BY <1>1
  <2> QED
    BY <2>1 DEF Listed, n
<1> QED
  BY <1>1, <1>5, <1>6, <1>7 DEF n

(* Texts. *)
LEMMA Texts ==
  /\ \A x \in Token : <<x>> \in Text
  /\ \A x, y \in Token : <<x, y>> \in Text
  /\ \A u, v \in Text : u \o v \in Text
  /\ <<>> \in Text
BY ConcatProperties DEF Text

LEMMA Tokens ==
  /\ Reserved \subseteq Token /\ Marks \subseteq Token /\ Words \subseteq Token
  /\ DOMAIN Counts \subseteq Token /\ Words \cup Globs \subseteq Token
BY DEF Token, Words

(* A mark is no word, and no other mark. *)
LEMMA Apart ==
  /\ Open # "them" /\ Open # "not" /\ Open # "all" /\ Open # "of"
  /\ Close # "and" /\ Close # "or" /\ Close # "not" /\ Close # "of" /\ Close # "them"
  /\ Comma # "and" /\ Comma # "or" /\ Comma # Close
  /\ Open \in Marks /\ Close \in Marks /\ Comma \in Marks
<1>1. Open # "them" /\ Open # "not" /\ Open # "all" /\ Open # "of"
  BY Zenon DEF Open
<1>2. Close # "and" /\ Close # "or" /\ Close # "not" /\ Close # "of" /\ Close # "them"
  BY Zenon DEF Close
<1>3. Comma # "and" /\ Comma # "or" /\ Comma # Close
  BY Zenon DEF Comma, Close
<1>4. Open \in Marks /\ Close \in Marks /\ Comma \in Marks
  BY DEF Marks
<1> QED
  BY <1>1, <1>2, <1>3, <1>4

LEMMA OperandIs ==
  ASSUME NEW op, NEW target \in Target
  PROVE  /\ target = Them => Operand(op, target) = <<"them">>
         /\ Len(target) = 1 => Operand(op, target) = target
         /\ Len(target) > 1 =>
              Operand(op, target) = IF op = "some" THEN <<Open>> \o Listed(target) \o <<Close>>
                                                   ELSE Listed(target)
         /\ target = Them \/ Len(target) = 1 \/ Len(target) > 1
<1> DEFINE n == Len(target)
<1>1. n \in Nat /\ (target = Them <=> n = 0)
  BY EmptySeq DEF Target, Them
<1> HIDE DEF n
<1>2. n = 0 \/ n = 1 \/ n > 1
  BY <1>1
<1>3. \/ target = Them /\ ~(n = 1) /\ ~(n > 1)
      \/ target # Them /\ n = 1 /\ ~(n > 1)
      \/ target # Them /\ ~(n = 1) /\ n > 1
  BY <1>1, <1>2
<1> QED
  BY <1>3, Zenon DEF Operand, n

LEMMA OperandTyped ==
  ASSUME NEW op, NEW target \in Target
  PROVE  Operand(op, target) \in Text
<1>1. CASE target = Them
  <2>1. <<"them">> \in Text
    BY Texts, Tokens DEF Reserved
  <2> QED
    BY <1>1, <2>1, OperandIs
<1>2. CASE target # Them
  <2>1. Listed(target) \in Text
    BY <1>2, ListedIs DEF Text
  <2>2. target \in Text
    BY Tokens, SeqMonotonic DEF Target, Text
  <2>3. <<Open>> \o Listed(target) \o <<Close>> \in Text
    BY <2>1, Texts, Tokens DEF Marks
  <2> QED
    BY <1>2, <2>1, <2>2, <2>3, OperandIs
<1> QED
  BY <1>1, <1>2

LEMMA WithinTyped ==
  ASSUME NEW f \in [Tree -> Text], NEW u \in Tree, NEW n
  PROVE  Within(u, f, n) \in Text
<1>1. f[u] \in Text /\ <<Open>> \o f[u] \o <<Close>> \in Text
  BY Texts, Tokens DEF Marks
<1> QED
  BY <1>1 DEF Within

LEMMA WrittenTyped ==
  ASSUME NEW t \in Tree, NEW f \in [Tree -> Text]
  PROVE  WrittenAt(t, f) \in Text
<1>1. CASE t = Nil
  BY <1>1, Texts DEF WrittenAt
<1>2. CASE t # Nil
  <2>1. Root(t) \in Node /\ Child(t) \in Tree
        /\ (Root(t).op \in {"and", "or"} => Left(t) \in Tree /\ Right(t) \in Tree)
    BY <1>2, Subtrees
  <2>2. /\ <<"and">> \in Text /\ <<"or">> \in Text /\ <<"not">> \in Text
        /\ <<"all", "of">> \in Text
    BY Texts, Tokens DEF Reserved
  <2>3. CASE Root(t).op = "ident"
    <3>1. <<Root(t).name>> \in Text
      BY <2>1, <2>3, NodeKinds, Texts, Tokens
    <3> QED
      BY <1>2, <2>3, <3>1 DEF WrittenAt
  <2>4. CASE Root(t).op = "and"
    <3>1. WrittenAt(t, f) = Within(Left(t), f, 2) \o <<"and">> \o Within(Right(t), f, 3)
      BY <1>2, <2>4 DEF WrittenAt
    <3> QED
      BY <2>1, <2>2, <2>4, <3>1, WithinTyped, Texts, SMTT(30)
  <2>5. CASE Root(t).op = "or"
    <3>1. WrittenAt(t, f) = Within(Left(t), f, 1) \o <<"or">> \o Within(Right(t), f, 2)
      BY <1>2, <2>5 DEF WrittenAt
    <3> QED
      BY <2>1, <2>2, <2>5, <3>1, WithinTyped, Texts
  <2>6. CASE Root(t).op = "not"
    <3>1. WrittenAt(t, f) = <<"not">> \o Within(Child(t), f, 3)
      BY <1>2, <2>6 DEF WrittenAt
    <3> QED
      BY <2>1, <2>2, <3>1, WithinTyped, Texts
  <2>7. CASE Root(t).op = "some"
    <3>1. <<Root(t).count, "of">> \in Text /\ Root(t).names \in Target
      BY <2>1, <2>7, NodeKinds, Texts, Tokens DEF Reserved
    <3>2. WrittenAt(t, f) = <<Root(t).count, "of">> \o Operand("some", Root(t).names)
      BY <1>2, <2>7 DEF WrittenAt
    <3> QED
      BY <3>1, <3>2, OperandTyped, Texts
  <2>8. CASE Root(t).op = "every"
    <3>1. Root(t).names \in Target
      BY <2>1, <2>8, NodeKinds
    <3>2. WrittenAt(t, f) = <<"all", "of">> \o Operand("every", Root(t).names)
      BY <1>2, <2>8 DEF WrittenAt
    <3> QED
      BY <2>2, <3>1, <3>2, OperandTyped, Texts
  <2> QED
    BY <2>1, <2>3, <2>4, <2>5, <2>6, <2>7, <2>8, NodeKinds
<1> QED
  BY <1>1, <1>2

(* How a tree is written depends on how its subtrees are. *)
LEMMA WrittenAgrees ==
  ASSUME NEW t \in Tree, NEW f, NEW g, \A u \in Tree : Len(u) < Len(t) => f[u] = g[u]
  PROVE  WrittenAt(t, f) = WrittenAt(t, g)
<1>1. CASE t = Nil
  BY <1>1 DEF WrittenAt
<1>2. CASE t # Nil
  <2>1. \A u \in Tree : \A n : Len(u) < Len(t) => Within(u, f, n) = Within(u, g, n)
    BY DEF Within
  <2>2. Len(Child(t)) < Len(t) /\ Child(t) \in Tree
    BY <1>2, Subtrees
  <2>3. Root(t).op \in {"and", "or"} =>
          /\ Left(t) \in Tree /\ Len(Left(t)) < Len(t)
          /\ Right(t) \in Tree /\ Len(Right(t)) < Len(t)
    BY <1>2, Subtrees
  <2>4. /\ Within(Child(t), f, 3) = Within(Child(t), g, 3)
        /\ Root(t).op = "and" => /\ Within(Left(t), f, 2) = Within(Left(t), g, 2)
                                 /\ Within(Right(t), f, 3) = Within(Right(t), g, 3)
        /\ Root(t).op = "or" => /\ Within(Left(t), f, 1) = Within(Left(t), g, 1)
                                /\ Within(Right(t), f, 2) = Within(Right(t), g, 2)
    BY <2>1, <2>2, <2>3
  <2>5. Root(t).op \in {"ident", "not", "and", "or", "some", "every"}
    BY <1>2, Subtrees, NodeKinds
  <2> QED
    BY <1>2, <2>4, <2>5 DEF WrittenAt
<1> QED
  BY <1>1, <1>2

LEMMA WrittenIs ==
  /\ \A t \in Tree : Written(t) \in Text
  /\ \E h \in [Tree -> Text] :
        /\ \A t \in Tree : h[t] = WrittenAt(t, h)
        /\ \A t : Written(t) = h[t]
<1> DEFINE G == [x \in Tree \X [Tree -> Text] |-> WrittenAt(x[1], x[2])]
<1>1. Defining(Tree, Text, TreeRank, G)
  <2>1. G \in [Tree \X [Tree -> Text] -> Text]
    BY WrittenTyped
  <2>2. ASSUME NEW t \in Tree, NEW f \in [Tree -> Text], NEW g \in [Tree -> Text],
               \A u \in Tree : TreeRank[u] < TreeRank[t] => f[u] = g[u]
        PROVE  G[<<t, f>>] = G[<<t, g>>]
    <3>1. \A u \in Tree : Len(u) < Len(t) => f[u] = g[u]
      BY <2>2, TreeRanks
    <3>2. WrittenAt(t, f) = WrittenAt(t, g)
      BY <3>1, WrittenAgrees
    <3> QED
      BY <3>2
  <2>3. Text # {}
    BY Texts
  <2> HIDE DEF G
  <2> QED
    BY <2>1, <2>2, <2>3, TreeRanks DEF Defining
<1>2. PICK h \in [Tree -> Text] : \A t \in Tree : h[t] = G[<<t, h>>]
  <2> HIDE DEF G
  <2> QED
    BY <1>1, RankedRecursion
<1>3. \A t \in Tree : h[t] = WrittenAt(t, h)
  BY <1>2
<1> DEFINE P(g) == g = [t \in Tree |-> WrittenAt(t, g)]
           m == CHOOSE g : P(g)
<1>4. P(h)
  BY <1>3
<1>5. \A t : Written(t) = m[t]
  BY Zenon DEF Written
<1> HIDE DEF P
<1>6. P(m)
  BY <1>4, Zenon
<1> HIDE DEF m
<1>7. \A t \in Tree : m[t] = WrittenAt(t, m)
  BY <1>6 DEF P
<1>8. \A t \in Tree : m[t] = h[t]
  <2> DEFINE S == {t \in Tree : m[t] # h[t]}
  <2> SUFFICES ASSUME S # {} PROVE FALSE
    OBVIOUS
  <2>1. PICK t \in S : \A u \in S : Len(t) <= Len(u)
    <3>1. S \subseteq Tree
      OBVIOUS
    <3> HIDE DEF S
    <3> QED
      BY <3>1, ShortestTree
  <2>2. \A u \in Tree : Len(u) < Len(t) => m[u] = h[u]
    BY <2>1 DEF Tree
  <2>3. t \in Tree /\ m[t] # h[t]
    BY <2>1
  <2> QED
    BY <2>2, <2>3, WrittenAgrees, <1>3, <1>7
<1>9. m = h
  <2>1. m = [t \in Tree |-> m[t]] /\ h = [t \in Tree |-> h[t]]
    BY <1>6 DEF P
  <2> QED
    BY <2>1, <1>8
<1> QED
  BY <1>3, <1>5, <1>9
-----------------------------------------------------------------------------
(* How many of the words s are left from position p on. *)
LeftOf(s, p) == IF p <= Len(s) THEN Len(s) + 1 - p ELSE 0

LEMMA LeftOfIs ==
  ASSUME NEW s \in Text, NEW p \in Nat
  PROVE  /\ Len(s) \in Nat /\ LeftOf(s, p) \in Nat
         /\ p > Len(s) <=> LeftOf(s, p) = 0
         /\ \A q \in Nat : p <= q => LeftOf(s, q) <= LeftOf(s, p)
         /\ \A q \in Nat : p < q /\ p <= Len(s) => LeftOf(s, q) < LeftOf(s, p)
BY DEF LeftOf, Text

(* Lists of operands. *)
List == [names : Target, at : Nat]

LEMMA TargetOps ==
  /\ <<>> \in Target
  /\ \A n \in Words \cup Globs : <<n>> \in Target
  /\ \A a, b \in Target : a \o b \in Target
BY ConcatProperties DEF Target

LEMMA AggIdentTyped ==
  ASSUME NEW s \in Text, NEW p \in Nat
  PROVE  LET one == readAggIdent(s, p)
         IN  /\ one \in List /\ one.names \in Target /\ one.at \in Nat
             /\ one.at = p \/ (p <= Len(s) /\ one.at = p + 1)
BY TargetOps DEF readAggIdent, List

LEMMA OperandsIs ==
  ASSUME NEW s \in Text
  PROVE  \A p \in Nat : /\ Operands(s, p) \in List
                        /\ LET one == readAggIdent(s, p)
                               rest == Operands(s, one.at + 1)
                           IN  Operands(s, p) =
                                 IF At(s, one.at, Comma)
                                 THEN [names |-> one.names \o rest.names, at |-> rest.at]
                                 ELSE one
<1> DEFINE G == [x \in Nat \X [Nat -> List] |-> OperandsAt(s, x[1], x[2])]
           rank == [p \in Nat |-> LeftOf(s, p)]
<1>1. rank \in [Nat -> Nat] /\ \A p \in Nat : rank[p] = LeftOf(s, p)
  BY LeftOfIs
<1> HIDE DEF rank
<1>2. ASSUME NEW p \in Nat, NEW f, NEW g,
             \A q \in Nat : rank[q] < rank[p] => f[q] = g[q]
      PROVE  OperandsAt(s, p, f) = OperandsAt(s, p, g)
  <2> DEFINE one == readAggIdent(s, p)
             at == one.at
  <2>1. at \in Nat /\ (at = p \/ (p <= Len(s) /\ at = p + 1))
    BY AggIdentTyped
  <2>2. ASSUME At(s, at, Comma) PROVE f[at + 1] = g[at + 1]
    <3> HIDE DEF at
    <3>1. Len(s) \in Nat /\ at <= Len(s)
      BY <2>2, LeftOfIs DEF At
    <3>2. p <= Len(s) /\ p < at + 1 /\ at + 1 \in Nat
      BY <2>1, <3>1
    <3>3. LeftOf(s, at + 1) < LeftOf(s, p)
      BY <3>2, LeftOfIs
    <3> QED
      BY <3>2, <3>3, <1>1, <1>2
  <2> QED
    BY <2>2 DEF OperandsAt
<1>3. ASSUME NEW p \in Nat, NEW f \in [Nat -> List]
      PROVE  OperandsAt(s, p, f) \in List
  <2> DEFINE one == readAggIdent(s, p)
             rest == f[one.at + 1]
  <2>1. one \in List /\ one.at \in Nat /\ one.names \in Target
    BY AggIdentTyped DEF List
  <2>2. rest.names \in Target /\ rest.at \in Nat
    BY <2>1 DEF List
  <2>3. [names |-> one.names \o rest.names, at |-> rest.at] \in List
    BY <2>1, <2>2, TargetOps DEF List
  <2> QED
    BY <2>1, <2>3 DEF OperandsAt
<1>4. Defining(Nat, List, rank, G)
  <2>1. G \in [Nat \X [Nat -> List] -> List]
    BY <1>3
  <2>2. \A p \in Nat : \A f, g \in [Nat -> List] :
          (\A q \in Nat : rank[q] < rank[p] => f[q] = g[q]) => G[<<p, f>>] = G[<<p, g>>]
    BY <1>2
  <2>3. List # {}
    BY AggIdentTyped
  <2> HIDE DEF G
  <2> QED
    BY <1>1, <2>1, <2>2, <2>3 DEF Defining
<1>5. PICK h \in [Nat -> List] : \A p \in Nat : h[p] = G[<<p, h>>]
  <2> HIDE DEF G
  <2> QED
    BY <1>4, RankedRecursion
<1>6. \A p \in Nat : h[p] = OperandsAt(s, p, h)
  BY <1>5
<1> DEFINE P(g) == g = [p \in Nat |-> OperandsAt(s, p, g)]
           m == CHOOSE g : P(g)
<1>7. P(h)
  BY <1>6
<1>8. \A p : Operands(s, p) = m[p]
  BY Zenon DEF Operands
<1> HIDE DEF P
<1>9. P(m)
  BY <1>7, Zenon
<1> HIDE DEF m
<1>10. \A p \in Nat : m[p] = OperandsAt(s, p, m)
  BY <1>9 DEF P
<1>11. \A p \in Nat : m[p] = h[p]
  <2> DEFINE S == {p \in Nat : m[p] # h[p]}
  <2> SUFFICES ASSUME S # {} PROVE FALSE
    OBVIOUS
  <2>1. PICK p \in S : \A q \in S : rank[p] <= rank[q]
    <3>1. S \subseteq Nat
      OBVIOUS
    <3> HIDE DEF S
    <3> QED
      BY <3>1, <1>1, LeastRank
  <2>2. p \in Nat /\ m[p] # h[p] /\ \A q \in Nat : rank[q] < rank[p] => m[q] = h[q]
    BY <2>1, <1>1
  <2> QED
    BY <2>2, <1>2, <1>6, <1>10
<1>12. \A p \in Nat : Operands(s, p) = h[p] /\ Operands(s, p) \in List
  BY <1>8, <1>11
<1>13. ASSUME NEW p \in Nat
       PROVE  LET one == readAggIdent(s, p)
                  rest == Operands(s, one.at + 1)
              IN  Operands(s, p) = IF At(s, one.at, Comma)
                                   THEN [names |-> one.names \o rest.names, at |-> rest.at]
                                   ELSE one
  <2>1. readAggIdent(s, p).at + 1 \in Nat
    BY AggIdentTyped
  <2> QED
    BY <2>1, <1>6, <1>12 DEF OperandsAt
<1> QED
  BY <1>12, <1>13

LEMMA OperandsEnd ==
  ASSUME NEW s \in Text, NEW p \in Nat
  PROVE  /\ Operands(s, p).at \in Nat /\ Operands(s, p).names \in Target
         /\ p <= Operands(s, p).at
         /\ p <= Len(s) + 1 => Operands(s, p).at <= Len(s) + 1
<1> DEFINE at(q) == Operands(s, q).at
           ok(q) == q <= at(q) /\ (q <= Len(s) + 1 => at(q) <= Len(s) + 1)
           rank == [q \in Nat |-> LeftOf(s, q)]
           S == {q \in Nat : ~ok(q)}
<1>0. Len(s) \in Nat
  BY LeftOfIs
<1>1. rank \in [Nat -> Nat] /\ \A q \in Nat : rank[q] = LeftOf(s, q)
  BY LeftOfIs
<1>2. \A q \in Nat : at(q) \in Nat /\ Operands(s, q).names \in Target
  BY OperandsIs DEF List
<1> HIDE DEF rank
<1>3. ASSUME NEW q \in S, \A r \in S : rank[q] <= rank[r] PROVE FALSE
  <2> DEFINE one == readAggIdent(s, q)
             a == one.at
  <2>1. q \in Nat /\ ~ok(q)
    OBVIOUS
  <2>2. a \in Nat /\ (a = q \/ (q <= Len(s) /\ a = q + 1))
    BY <2>1, AggIdentTyped
  <2>3. CASE At(s, a, Comma)
    <3>1. at(q) = at(a + 1)
      <4>1. Operands(s, q) = [names |-> one.names \o Operands(s, a + 1).names, at |-> at(a + 1)]
        BY <2>1, <2>3, OperandsIs
      <4> QED
        BY <4>1
    <3> HIDE DEF a
    <3>2. a <= Len(s)
      BY <2>3, <1>0 DEF At
    <3>3. q <= Len(s) /\ q < a + 1 /\ a + 1 \in Nat
      BY <1>0, <2>1, <2>2, <3>2
    <3>4. LeftOf(s, a + 1) < LeftOf(s, q)
      BY <2>1, <3>3, LeftOfIs
    <3>5. a + 1 \notin S
      <4>1. rank[a + 1] \in Nat /\ rank[q] \in Nat /\ rank[a + 1] < rank[q]
        BY <1>1, <2>1, <3>3, <3>4
      <4> HIDE DEF ok, at
      <4> QED
        BY <1>3, <4>1
    <3>6. ok(a + 1)
      BY <3>3, <3>5
    <3> DEFINE x == at(q)
               y == at(a + 1)
    <3>7. x = y /\ y \in Nat /\ a + 1 <= y /\ (a + 1 <= Len(s) + 1 => y <= Len(s) + 1)
      BY <1>2, <3>1, <3>3, <3>6
    <3>8. ~(q <= x /\ (q <= Len(s) + 1 => x <= Len(s) + 1))
      BY <2>1
    <3>9. q \in Nat
      BY <2>1
    <3> DEFINE n == Len(s)
    <3> HIDE DEF x, y, n, S
    <3>10. n \in Nat /\ a <= n
      BY <1>0, <3>2 DEF n
    <3>11. a + 1 <= n + 1 /\ a \in Nat
      BY <2>2, <3>10
    <3>12. y <= n + 1
      BY <3>7, <3>11 DEF n
    <3>13. q < a + 1 /\ q <= n
      BY <3>3 DEF n
    <3>14. q <= y
      BY <3>7, <3>9, <3>11, <3>13
    <3> QED
      BY <3>7, <3>8, <3>12, <3>14 DEF n
  <2>4. CASE ~At(s, a, Comma)
    <3>1. at(q) = a
      BY <2>1, <2>4, OperandsIs
    <3> HIDE DEF a, at
    <3> QED
      BY <1>0, <2>1, <2>2, <3>1
  <2> QED
    BY <2>3, <2>4
<1>4. S = {}
  <2>1. S \subseteq Nat
    OBVIOUS
  <2> HIDE DEF S
  <2> QED
    BY <1>1, <1>3, <2>1, LeastRank
<1> QED
  BY <1>2, <1>4
-----------------------------------------------------------------------------
(* What a call reads: a tree and a number of words. *)
Reads == [tree : Tree, took : Nat]

LEMMA GotTyped ==
  ASSUME NEW t \in Tree, NEW n \in Nat
  PROVE  Got(t, n) \in Reads /\ Got(t, n).tree = t /\ Got(t, n).took = n
BY DEF Got, Reads

LEMMA ThenTyped ==
  ASSUME NEW r \in Reads, NEW n \in Nat
  PROVE  /\ r.tree \in Tree /\ r.took \in Nat
         /\ Then(n, r) \in Reads /\ Then(n, r).tree = r.tree /\ Then(n, r).took = n + r.took
BY DEF Then, Got, Reads

LEMMA Built ==
  /\ Nil \in Tree
  /\ \A n \in Words : Ident(n) \in Tree
  /\ \A a, b \in Tree : Both(a, b) \in Tree /\ Either(a, b) \in Tree
  /\ \A a \in Tree : Negation(a) \in Tree
  /\ \A k \in DOMAIN Counts, target \in Target : Some(k, target) \in Tree
  /\ \A target \in Target : Every(target) \in Tree
<1>1. \A n \in Node : <<n>> \in Tree
  BY DEF Tree
<1>2. \A a, b \in Tree : a \o b \in Tree
  BY ConcatProperties DEF Tree
<1>3. \A n \in Words : [op |-> "ident", name |-> n] \in Node
  BY DEF Node
<1>4. \A n \in Nat : [op |-> "and", right |-> n] \in Node /\ [op |-> "or", right |-> n] \in Node
  BY DEF Node
<1>5. [op |-> "not"] \in Node
  BY DEF Node
<1>6. \A k \in DOMAIN Counts, target \in Target :
         [op |-> "some", count |-> k, names |-> target] \in Node
  BY DEF Node
<1>7. \A target \in Target : [op |-> "every", names |-> target] \in Node
  BY DEF Node
<1>8. \A a \in Tree : Len(a) \in Nat
  BY DEF Tree
<1>9. Nil \in Tree
  BY DEF Nil, Tree
<1> QED
  BY <1>1, <1>2, <1>3, <1>4, <1>5, <1>6, <1>7, <1>8, <1>9
     DEF Ident, Both, Either, Negation, Some, Every
LEMMA AfterIs ==
  ASSUME NEW s \in Text, NEW p \in Nat, NEW mark
  PROVE  /\ After(s, p, mark) \in Nat /\ p <= After(s, p, mark)
         /\ p <= Len(s) + 1 => After(s, p, mark) <= Len(s) + 1
<1> DEFINE n == Len(s)
<1>1. n \in Nat
  BY LeftOfIs
<1>2. CASE At(s, p, mark)
  <2>1. After(s, p, mark) = p + 1 /\ p <= n
    BY <1>2 DEF After, At
  <2> HIDE DEF n
  <2>2. p <= p + 1 /\ p + 1 \in Nat /\ p + 1 <= n + 1
    BY <1>1, <2>1
  <2> QED
    BY <2>1, <2>2 DEF n
<1>3. CASE ~At(s, p, mark)
  BY <1>3 DEF After
<1> QED
  BY <1>2, <1>3

(* An aggregate takes words of the text only, and one at least. *)
LEMMA OneOfTyped ==
  ASSUME NEW s \in Text, NEW p \in Nat, p <= Len(s), s[p] \in DOMAIN Counts
  PROVE  /\ ParseOneOf(s, p) \in Reads
         /\ p + ParseOneOf(s, p).took <= Len(s) + 1
<1> DEFINE n == Len(s)
           q == IF Word(s, p + 1, "of") THEN p + 2 ELSE p + 1
           one == readAggIdent(s, q)
           list == Operands(s, q + 1)
           a == one.at
           b == list.at
           e == After(s, b, Close)
<1>1. n \in Nat /\ p <= n
  BY LeftOfIs
<1>2. q \in Nat /\ p < q /\ q <= n + 1
  BY <1>1 DEF Word
<1>3. /\ one.names \in Target /\ a \in Nat
      /\ a = q \/ (q <= n /\ a = q + 1)
  BY <1>2, AggIdentTyped
<1>4. /\ list.names \in Target /\ b \in Nat /\ q + 1 <= b
      /\ q + 1 <= n + 1 => b <= n + 1
  <2>1. q + 1 \in Nat
    BY <1>2
  <2> HIDE DEF q
  <2> QED
    BY <2>1, OperandsEnd
<1>5. e \in Nat /\ b <= e /\ (b <= n + 1 => e <= n + 1)
  <2> HIDE DEF b
  <2> QED
    BY <1>4, AfterIs, Zenon
<1>6. CASE At(s, q, "them")
  <2>1. ParseOneOf(s, p) = Got(Some(s[p], Them), q + 1 - p)
    <3>1. ~At(s, q, Open)
      BY <1>6, Apart DEF At
    <3> QED
      BY <1>6, <3>1, Zenon DEF ParseOneOf
  <2>2. q <= n
    BY <1>6 DEF At
  <2> HIDE DEF q, n
  <2>3. q + 1 - p \in Nat /\ p + (q + 1 - p) <= n + 1
    BY <1>1, <1>2, <2>2
  <2>4. Some(s[p], Them) \in Tree
    BY Built, TargetOps DEF Them
  <2> QED
    BY <2>1, <2>3, <2>4, GotTyped DEF n
<1>7. CASE ~At(s, q, "them") /\ At(s, q, Open)
  <2>1. ParseOneOf(s, p) = Got(Some(s[p], list.names), e - p)
    BY <1>7 DEF ParseOneOf
  <2>2. q <= n
    BY <1>7 DEF At
  <2> HIDE DEF q, n, b, e
  <2>3. e - p \in Nat /\ p + (e - p) <= n + 1
    BY <1>1, <1>2, <1>4, <1>5, <2>2
  <2>4. Some(s[p], list.names) \in Tree
    BY <1>4, Built
  <2> QED
    BY <2>1, <2>3, <2>4, GotTyped DEF n
<1>8. CASE ~At(s, q, "them") /\ ~At(s, q, Open)
  <2>1. ParseOneOf(s, p) = Got(Some(s[p], one.names), a - p)
    BY <1>8 DEF ParseOneOf
  <2> HIDE DEF q, n, a
  <2>2. a - p \in Nat /\ p + (a - p) <= n + 1
    BY <1>1, <1>2, <1>3
  <2>3. Some(s[p], one.names) \in Tree
    BY <1>3, Built
  <2> QED
    BY <2>1, <2>2, <2>3, GotTyped DEF n
<1> QED
  BY <1>6, <1>7, <1>8

LEMMA AllOfTyped ==
  ASSUME NEW s \in Text, NEW p \in Nat, Word(s, p + 1, "of")
  PROVE  /\ ParseAllOf(s, p) \in Reads
         /\ p + ParseAllOf(s, p).took <= Len(s) + 1
<1> DEFINE n == Len(s)
           list == Operands(s, p + 2)
           b == list.at
<1>1. n \in Nat /\ p + 2 <= n
  BY LeftOfIs DEF Word
<1>2. list.names \in Target /\ b \in Nat /\ p + 2 <= b /\ (p + 2 <= n + 1 => b <= n + 1)
  BY OperandsEnd
<1>3. CASE At(s, p + 2, "them")
  <2>1. ParseAllOf(s, p) = Got(Every(Them), 3)
    BY <1>3 DEF ParseAllOf
  <2>2. Every(Them) \in Tree
    BY Built, TargetOps DEF Them
  <2> HIDE DEF n
  <2>3. p + 3 <= n + 1
    BY <1>1
  <2> QED
    BY <2>1, <2>2, <2>3, GotTyped DEF n
<1>4. CASE ~At(s, p + 2, "them")
  <2>1. ParseAllOf(s, p) = Got(Every(list.names), b - p)
    BY <1>4 DEF ParseAllOf
  <2>2. Every(list.names) \in Tree
    BY <1>2, Built
  <2> HIDE DEF n, b
  <2>3. b - p \in Nat /\ p + (b - p) <= n + 1
    BY <1>1, <1>2
  <2> QED
    BY <2>1, <2>2, <2>3, GotTyped DEF n
<1> QED
  BY <1>3, <1>4
-----------------------------------------------------------------------------
(* The calls of the parser: a call makes only calls that rank below it. *)
CallRank(s) ==
  [c \in Call |-> 4 * LeftOf(s, c[3]) + (CASE c[1] = "or" -> 3 [] c[1] = "and" -> 2
                                           [] c[1] = "not" -> 1 [] OTHER -> 0)]

LEMMA Calls ==
  ASSUME NEW c \in Call
  PROVE  /\ c = <<c[1], c[2], c[3]>> /\ c[2] \in Tree /\ c[3] \in Nat
         /\ c[1] \in {"or", "orRest", "and", "andRest", "not", "primary"}
BY DEF Call

LEMMA CallRanks ==
  ASSUME NEW s \in Text
  PROVE  /\ CallRank(s) \in [Call -> Nat]
         /\ \A t \in Tree, p \in Nat :
              /\ CallRank(s)[<<"or", t, p>>] = 4 * LeftOf(s, p) + 3
              /\ CallRank(s)[<<"orRest", t, p>>] = 4 * LeftOf(s, p)
              /\ CallRank(s)[<<"and", t, p>>] = 4 * LeftOf(s, p) + 2
              /\ CallRank(s)[<<"andRest", t, p>>] = 4 * LeftOf(s, p)
              /\ CallRank(s)[<<"not", t, p>>] = 4 * LeftOf(s, p) + 1
              /\ CallRank(s)[<<"primary", t, p>>] = 4 * LeftOf(s, p)
<1> DEFINE r(c) == CASE c[1] = "or" -> 3 [] c[1] = "and" -> 2 [] c[1] = "not" -> 1 [] OTHER -> 0
<1>1. \A c \in Call : r(c) \in Nat
  OBVIOUS
<1>2. \A c \in Call : LeftOf(s, c[3]) \in Nat
  BY LeftOfIs DEF Call
<1>3. \A c \in Call : 4 * LeftOf(s, c[3]) + r(c) \in Nat
  <2> HIDE DEF r
  <2> QED
    BY <1>1, <1>2
<1>4. \A t \in Tree, p \in Nat : \A k \in {"or", "orRest", "and", "andRest", "not", "primary"} :
         /\ <<k, t, p>> \in Call
         /\ CallRank(s)[<<k, t, p>>] = 4 * LeftOf(s, p) + r(<<k, t, p>>)
  BY DEF CallRank, Call
<1>5. \A t \in Tree, p \in Nat :
         /\ r(<<"or", t, p>>) = 3 /\ r(<<"and", t, p>>) = 2 /\ r(<<"not", t, p>>) = 1
         /\ r(<<"orRest", t, p>>) = 0 /\ r(<<"andRest", t, p>>) = 0 /\ r(<<"primary", t, p>>) = 0
  OBVIOUS
<1>6. CallRank(s) \in [Call -> Nat]
  BY <1>3 DEF CallRank
<1>7. \A p \in Nat : LeftOf(s, p) \in Nat
  BY LeftOfIs
<1>8. ASSUME NEW t \in Tree, NEW p \in Nat
      PROVE  /\ CallRank(s)[<<"or", t, p>>] = 4 * LeftOf(s, p) + 3
             /\ CallRank(s)[<<"orRest", t, p>>] = 4 * LeftOf(s, p)
             /\ CallRank(s)[<<"and", t, p>>] = 4 * LeftOf(s, p) + 2
             /\ CallRank(s)[<<"andRest", t, p>>] = 4 * LeftOf(s, p)
             /\ CallRank(s)[<<"not", t, p>>] = 4 * LeftOf(s, p) + 1
             /\ CallRank(s)[<<"primary", t, p>>] = 4 * LeftOf(s, p)
  <2> DEFINE l == LeftOf(s, p)
  <2>1. 4 * l + 0 = 4 * l
    BY <1>7
  <2> HIDE DEF r, l
  <2>2. \A k \in {"or", "orRest", "and", "andRest", "not", "primary"} :
          CallRank(s)[<<k, t, p>>] = 4 * l + r(<<k, t, p>>)
    BY <1>4 DEF l
  <2>3. /\ CallRank(s)[<<"or", t, p>>] = 4 * l + 3
        /\ CallRank(s)[<<"orRest", t, p>>] = 4 * l + 0
        /\ CallRank(s)[<<"and", t, p>>] = 4 * l + 2
        /\ CallRank(s)[<<"andRest", t, p>>] = 4 * l + 0
        /\ CallRank(s)[<<"not", t, p>>] = 4 * l + 1
        /\ CallRank(s)[<<"primary", t, p>>] = 4 * l + 0
    BY <2>2, <1>5
  <2> QED
    BY <2>1, <2>3 DEF l
<1> QED
  BY <1>6, <1>8
Kinds == {"or", "orRest", "and", "andRest", "not", "primary"}

LEMMA CallsMade ==
  ASSUME NEW s \in Text, NEW p \in Nat, NEW q \in Nat, NEW t \in Tree, NEW u \in Tree
  PROVE  /\ \A k \in Kinds : <<k, t, q>> \in Call
         /\ p <= q =>
              /\ CallRank(s)[<<"and", t, q>>] < CallRank(s)[<<"or", u, p>>]
              /\ CallRank(s)[<<"orRest", t, q>>] < CallRank(s)[<<"or", u, p>>]
              /\ CallRank(s)[<<"not", t, q>>] < CallRank(s)[<<"and", u, p>>]
              /\ CallRank(s)[<<"andRest", t, q>>] < CallRank(s)[<<"and", u, p>>]
              /\ CallRank(s)[<<"primary", t, q>>] < CallRank(s)[<<"not", u, p>>]
         /\ p < q /\ p <= Len(s) =>
              \A j, k \in Kinds : CallRank(s)[<<j, t, q>>] < CallRank(s)[<<k, u, p>>]
<1> DEFINE l == LeftOf(s, p)
           m == LeftOf(s, q)
<1>1. /\ l \in Nat /\ m \in Nat
      /\ p <= q => m <= l
      /\ p < q /\ p <= Len(s) => m < l
  BY LeftOfIs
<1>2. \A k \in Kinds : <<k, t, q>> \in Call /\ <<k, u, p>> \in Call
  BY DEF Kinds, Call
<1>3. /\ CallRank(s)[<<"or", u, p>>] = 4 * l + 3
      /\ CallRank(s)[<<"and", u, p>>] = 4 * l + 2
      /\ CallRank(s)[<<"not", u, p>>] = 4 * l + 1
      /\ CallRank(s)[<<"and", t, q>>] = 4 * m + 2
      /\ CallRank(s)[<<"orRest", t, q>>] = 4 * m
      /\ CallRank(s)[<<"not", t, q>>] = 4 * m + 1
      /\ CallRank(s)[<<"andRest", t, q>>] = 4 * m
      /\ CallRank(s)[<<"primary", t, q>>] = 4 * m
  BY CallRanks
<1>4. \A k \in Kinds : /\ CallRank(s)[<<k, t, q>>] \in Nat
                       /\ CallRank(s)[<<k, u, p>>] \in Nat
                       /\ CallRank(s)[<<k, t, q>>] <= 4 * m + 3
                       /\ CallRank(s)[<<k, u, p>>] >= 4 * l
  <2>1. ASSUME NEW k \in Kinds
        PROVE  /\ CallRank(s)[<<k, t, q>>] \in Nat
               /\ CallRank(s)[<<k, u, p>>] \in Nat
               /\ CallRank(s)[<<k, t, q>>] <= 4 * m + 3
               /\ CallRank(s)[<<k, u, p>>] >= 4 * l
    <3>1. /\ CallRank(s)[<<"or", t, q>>] = 4 * m + 3
          /\ CallRank(s)[<<"orRest", u, p>>] = 4 * l
          /\ CallRank(s)[<<"andRest", u, p>>] = 4 * l
          /\ CallRank(s)[<<"primary", u, p>>] = 4 * l
      BY CallRanks
    <3> HIDE DEF l, m
    <3>2. /\ CallRank(s)[<<k, t, q>>] \in {4 * m, 4 * m + 1, 4 * m + 2, 4 * m + 3}
          /\ CallRank(s)[<<k, u, p>>] \in {4 * l, 4 * l + 1, 4 * l + 2, 4 * l + 3}
      BY <1>3, <3>1 DEF Kinds
    <3>3. \A x \in {4 * m, 4 * m + 1, 4 * m + 2, 4 * m + 3} : x \in Nat /\ x <= 4 * m + 3
      BY <1>1
    <3>4. \A x \in {4 * l, 4 * l + 1, 4 * l + 2, 4 * l + 3} : x \in Nat /\ x >= 4 * l
      BY <1>1
    <3> QED
      BY <3>2, <3>3, <3>4
  <2> QED
    BY <2>1
<1>5. ASSUME p <= q
      PROVE  /\ CallRank(s)[<<"and", t, q>>] < CallRank(s)[<<"or", u, p>>]
             /\ CallRank(s)[<<"orRest", t, q>>] < CallRank(s)[<<"or", u, p>>]
             /\ CallRank(s)[<<"not", t, q>>] < CallRank(s)[<<"and", u, p>>]
             /\ CallRank(s)[<<"andRest", t, q>>] < CallRank(s)[<<"and", u, p>>]
             /\ CallRank(s)[<<"primary", t, q>>] < CallRank(s)[<<"not", u, p>>]
  <2> HIDE DEF l, m
  <2> QED
    BY <1>1, <1>3, <1>5
<1>6. ASSUME p < q, p <= Len(s), NEW j \in Kinds, NEW k \in Kinds
      PROVE  CallRank(s)[<<j, t, q>>] < CallRank(s)[<<k, u, p>>]
  <2> DEFINE x == CallRank(s)[<<j, t, q>>]
             y == CallRank(s)[<<k, u, p>>]
  <2>1. x \in Nat /\ y \in Nat /\ x <= 4 * m + 3 /\ y >= 4 * l
    BY <1>4
  <2>2. m < l
    BY <1>1, <1>6
  <2> HIDE DEF l, m, x, y
  <2>3. x < y
    BY <1>1, <2>1, <2>2
  <2> QED
    BY <2>3 DEF x, y
<1> QED
  BY <1>2, <1>5, <1>6

(* A word at p is in the text. *)
LEMMA WordIn ==
  ASSUME NEW s \in Text, NEW p \in Nat, NEW w, Word(s, p, w)
  PROVE  p <= Len(s) /\ p + 1 <= Len(s)
BY DEF Word, Text

LEMMA ReadCallTyped ==
  ASSUME NEW s \in Text, NEW f \in [Call -> Reads], NEW c \in Call
  PROVE  ReadCall(c, f, s) \in Reads
<1> DEFINE p == c[3]
           left == c[2]
<1>1. /\ left \in Tree /\ p \in Nat
      /\ c[1] \in {"or", "orRest", "and", "andRest", "not", "primary"}
  BY Calls
<1>2. ASSUME NEW k \in Kinds, NEW t \in Tree, NEW q \in Nat
      PROVE  /\ f[<<k, t, q>>] \in Reads
             /\ f[<<k, t, q>>].tree \in Tree /\ f[<<k, t, q>>].took \in Nat
  <2>1. f[<<k, t, q>>] \in Reads
    BY CallsMade
  <2> QED
    BY <2>1, ThenTyped
<1>3. Nil \in Tree
  BY Built
<1> HIDE DEF p, left
<1>4. ParseOr(f, p) \in Reads
  <2> DEFINE l == f[<<"and", Nil, p>>]
             rest == f[<<"orRest", l.tree, p + l.took>>]
  <2>1. l.tree \in Tree /\ l.took \in Nat /\ p + l.took \in Nat
    BY <1>1, <1>2, <1>3 DEF Kinds
  <2>2. rest \in Reads
    BY <2>1, <1>2 DEF Kinds
  <2> QED
    BY <2>1, <2>2, ThenTyped DEF ParseOr
<1>5. ParseAnd(f, p) \in Reads
  <2> DEFINE l == f[<<"not", Nil, p>>]
             rest == f[<<"andRest", l.tree, p + l.took>>]
  <2>1. l.tree \in Tree /\ l.took \in Nat /\ p + l.took \in Nat
    BY <1>1, <1>2, <1>3 DEF Kinds
  <2>2. rest \in Reads
    BY <2>1, <1>2 DEF Kinds
  <2> QED
    BY <2>1, <2>2, ThenTyped DEF ParseAnd
<1>6. OrRest(f, s, left, p) \in Reads
  <2> DEFINE r == f[<<"and", Nil, p + 1>>]
             took == 1 + r.took
             rest == f[<<"orRest", Either(left, r.tree), p + took>>]
  <2>1. r.tree \in Tree /\ r.took \in Nat
    BY <1>1, <1>2, <1>3 DEF Kinds
  <2>2. took \in Nat /\ p + took \in Nat /\ Either(left, r.tree) \in Tree
    BY <1>1, <2>1, Built
  <2> HIDE DEF took, r
  <2>3. rest \in Reads
    BY <2>2, <1>2 DEF Kinds
  <2>4. Then(took, rest) \in Reads /\ Got(left, 0) \in Reads
    BY <1>1, <2>2, <2>3, ThenTyped, GotTyped
  <2> QED
    BY <2>4 DEF OrRest, took, r
<1>7. AndRest(f, s, left, p) \in Reads
  <2> DEFINE r == f[<<"not", Nil, p + 1>>]
             took == 1 + r.took
             rest == f[<<"andRest", Both(left, r.tree), p + took>>]
  <2>1. r.tree \in Tree /\ r.took \in Nat
    BY <1>1, <1>2, <1>3 DEF Kinds
  <2>2. took \in Nat /\ p + took \in Nat /\ Both(left, r.tree) \in Tree
    BY <1>1, <2>1, Built
  <2> HIDE DEF took, r
  <2>3. rest \in Reads
    BY <2>2, <1>2 DEF Kinds
  <2>4. Then(took, rest) \in Reads /\ Got(left, 0) \in Reads
    BY <1>1, <2>2, <2>3, ThenTyped, GotTyped
  <2> QED
    BY <2>4 DEF AndRest, took, r
<1>8. ParseNot(f, s, p) \in Reads
  <2> DEFINE child == f[<<"not", Nil, p + 1>>]
  <2>1. child.tree \in Tree /\ child.took \in Nat /\ f[<<"primary", Nil, p>>] \in Reads
    BY <1>1, <1>2, <1>3 DEF Kinds
  <2>2. Got(Negation(child.tree), 1 + child.took) \in Reads
    BY <2>1, Built, GotTyped
  <2> QED
    BY <2>1, <2>2 DEF ParseNot
<1>9. ParsePrimary(f, s, p) \in Reads
  <2> DEFINE inner == f[<<"or", Nil, p + 1>>]
             b == p + 1 + inner.took
             e == After(s, b, Close)
  <2>1. inner.tree \in Tree /\ inner.took \in Nat
    BY <1>1, <1>2, <1>3 DEF Kinds
  <2>2. b \in Nat /\ p < b
    BY <1>1, <2>1
  <2>3. e \in Nat /\ b <= e
    BY <2>2, AfterIs
  <2>4. Got(inner.tree, e - p) \in Reads
    <3> HIDE DEF b, e
    <3>1. e - p \in Nat
      BY <1>1, <2>2, <2>3
    <3> QED
      BY <2>1, <3>1, GotTyped
  <2>5. Got(Nil, 0) \in Reads
    BY <1>3, GotTyped
  <2>6. ASSUME s[p] \in Words PROVE Got(Ident(s[p]), 1) \in Reads
    BY <2>6, Built, GotTyped
  <2>7. ASSUME p <= Len(s), s[p] \in DOMAIN Counts PROVE ParseOneOf(s, p) \in Reads
    BY <1>1, <2>7, OneOfTyped
  <2>8. ASSUME Word(s, p + 1, "of") PROVE ParseAllOf(s, p) \in Reads
    BY <1>1, <2>8, AllOfTyped
  <2>9. CASE p > Len(s)
    BY <2>5, <2>9 DEF ParsePrimary
  <2>10. CASE p <= Len(s)
    <3> HIDE DEF inner, b, e
    <3>0. ~(p > Len(s))
      BY <1>1, <2>10, LeftOfIs
    <3>1. ParsePrimary(f, s, p) =
            CASE s[p] \in DOMAIN Counts -> ParseOneOf(s, p)
              [] s[p] = "all" /\ Word(s, p + 1, "of") -> ParseAllOf(s, p)
              [] s[p] = Open -> Got(inner.tree, e - p)
              [] OTHER -> IF s[p] \in Words THEN Got(Ident(s[p]), 1) ELSE Got(Nil, 0)
      BY <3>0, Zenon DEF ParsePrimary, inner, e, b
    <3> QED
      BY <3>1, <2>4, <2>5, <2>6, <2>7, <2>8, <2>10
  <2> QED
    BY <1>1, <2>9, <2>10, LeftOfIs
<1> QED
  BY <1>1, <1>4, <1>5, <1>6, <1>7, <1>8, <1>9 DEF ReadCall, p, left
(* A method's reading depends on those of the calls it makes. *)
LEMMA ReadCallAgrees ==
  ASSUME NEW s \in Text, NEW f \in [Call -> Reads], NEW g, NEW c \in Call,
         \A d \in Call : CallRank(s)[d] < CallRank(s)[c] => f[d] = g[d]
  PROVE  ReadCall(c, f, s) = ReadCall(c, g, s)
<1> DEFINE p == c[3]
           u == c[2]
           below(k, t, q) == CallRank(s)[<<k, t, q>>] < CallRank(s)[<<c[1], u, p>>]
<1>1. c = <<c[1], u, p>> /\ u \in Tree /\ p \in Nat /\ p <= p /\ c[1] \in Kinds
  BY Calls DEF Kinds
<1>2. Nil \in Tree
  BY Built
<1>3. ASSUME NEW k \in Kinds, NEW t \in Tree, NEW q \in Nat, below(k, t, q)
      PROVE  f[<<k, t, q>>] = g[<<k, t, q>>]
  BY <1>1, <1>3, CallsMade
<1>4. ASSUME NEW k \in Kinds, NEW t \in Tree, NEW q \in Nat
      PROVE  f[<<k, t, q>>].tree \in Tree /\ f[<<k, t, q>>].took \in Nat
  BY CallsMade, ThenTyped
<1>5. ASSUME NEW k \in Kinds, NEW t \in Tree, NEW q \in Nat, p < q, p <= Len(s)
      PROVE  f[<<k, t, q>>] = g[<<k, t, q>>]
  <2>1. below(k, t, q)
    BY <1>1, <1>5, CallsMade
  <2> HIDE DEF below
  <2> QED
    BY <1>3, <2>1
<1> HIDE DEF p, u
<1>6. CASE c[1] = "or"
  <2> DEFINE l == f[<<"and", Nil, p>>]
             q == p + l.took
  <2>1. f[<<"and", Nil, p>>] = g[<<"and", Nil, p>>]
    BY <1>1, <1>2, <1>3, <1>6, CallsMade DEF Kinds
  <2>2. l.tree \in Tree /\ l.took \in Nat
    BY <1>1, <1>2, <1>4 DEF Kinds
  <2>3. q \in Nat /\ p <= q
    BY <1>1, <2>2
  <2> HIDE DEF q
  <2>4. f[<<"orRest", l.tree, q>>] = g[<<"orRest", l.tree, q>>]
    BY <1>1, <1>3, <1>6, <2>2, <2>3, CallsMade, ZenonT(30) DEF Kinds
  <2>5. ParseOr(f, p) = ParseOr(g, p)
    BY <2>1, <2>4 DEF ParseOr, q
  <2> QED
    BY <1>6, <2>5 DEF ReadCall, p
<1>7. CASE c[1] = "and"
  <2> DEFINE l == f[<<"not", Nil, p>>]
             q == p + l.took
  <2>1. f[<<"not", Nil, p>>] = g[<<"not", Nil, p>>]
    BY <1>1, <1>2, <1>3, <1>7, CallsMade DEF Kinds
  <2>2. l.tree \in Tree /\ l.took \in Nat
    BY <1>1, <1>2, <1>4 DEF Kinds
  <2>3. q \in Nat /\ p <= q
    BY <1>1, <2>2
  <2> HIDE DEF q
  <2>4. f[<<"andRest", l.tree, q>>] = g[<<"andRest", l.tree, q>>]
    BY <1>1, <1>3, <1>7, <2>2, <2>3, CallsMade, ZenonT(30) DEF Kinds
  <2>5. ParseAnd(f, p) = ParseAnd(g, p)
    BY <2>1, <2>4 DEF ParseAnd, q
  <2> QED
    BY <1>7, <2>5 DEF ReadCall, p
<1>8. CASE c[1] = "orRest"
  <2> DEFINE r == f[<<"and", Nil, p + 1>>]
             q == p + (1 + r.took)
             v == Either(u, r.tree)
  <2>1. r.tree \in Tree /\ r.took \in Nat
    BY <1>1, <1>2, <1>4 DEF Kinds
  <2>2. q \in Nat /\ p < q /\ p < p + 1 /\ v \in Tree
    BY <1>1, <2>1, Built
  <2> HIDE DEF q, v
  <2>3. Word(s, p, "or") => /\ f[<<"and", Nil, p + 1>>] = g[<<"and", Nil, p + 1>>]
                            /\ f[<<"orRest", v, q>>] = g[<<"orRest", v, q>>]
    BY <1>1, <1>2, <1>5, <2>1, <2>2, WordIn DEF Kinds
  <2>4. OrRest(f, s, u, p) = OrRest(g, s, u, p)
    BY <2>3 DEF OrRest, q, v
  <2> QED
    BY <1>8, <2>4 DEF ReadCall, p, u
<1>9. CASE c[1] = "andRest"
  <2> DEFINE r == f[<<"not", Nil, p + 1>>]
             q == p + (1 + r.took)
             v == Both(u, r.tree)
  <2>1. r.tree \in Tree /\ r.took \in Nat
    BY <1>1, <1>2, <1>4 DEF Kinds
  <2>2. q \in Nat /\ p < q /\ p < p + 1 /\ v \in Tree
    BY <1>1, <2>1, Built
  <2> HIDE DEF q, v
  <2>3. Word(s, p, "and") => /\ f[<<"not", Nil, p + 1>>] = g[<<"not", Nil, p + 1>>]
                             /\ f[<<"andRest", v, q>>] = g[<<"andRest", v, q>>]
    BY <1>1, <1>2, <1>5, <2>1, <2>2, WordIn DEF Kinds
  <2>4. AndRest(f, s, u, p) = AndRest(g, s, u, p)
    BY <2>3 DEF AndRest, q, v
  <2> QED
    BY <1>9, <2>4 DEF ReadCall, p, u
<1>10. CASE c[1] = "not"
  <2>1. f[<<"primary", Nil, p>>] = g[<<"primary", Nil, p>>]
    BY <1>1, <1>2, <1>3, <1>10, CallsMade DEF Kinds
  <2>2. Word(s, p, "not") => f[<<"not", Nil, p + 1>>] = g[<<"not", Nil, p + 1>>]
    BY <1>1, <1>2, <1>5, WordIn DEF Kinds
  <2>3. ParseNot(f, s, p) = ParseNot(g, s, p)
    BY <2>1, <2>2 DEF ParseNot
  <2> QED
    BY <1>10, <2>3 DEF ReadCall, p
<1>11. CASE c[1] = "primary"
  <2>1. CASE p > Len(s)
    BY <1>11, <2>1 DEF ReadCall, ParsePrimary, p
  <2>2. CASE ~(p > Len(s))
    <3>1. p <= Len(s)
      BY <1>1, <2>2, LeftOfIs
    <3>2. f[<<"or", Nil, p + 1>>] = g[<<"or", Nil, p + 1>>]
      BY <1>1, <1>2, <1>5, <3>1 DEF Kinds
    <3>3. ParsePrimary(f, s, p) = ParsePrimary(g, s, p)
      BY <3>2 DEF ParsePrimary
    <3> QED
      BY <1>11, <3>3 DEF ReadCall, p
  <2> QED
    BY <2>1, <2>2
<1> QED
  BY <1>1, <1>6, <1>7, <1>8, <1>9, <1>10, <1>11 DEF Kinds

LEMMA ReadingIs ==
  ASSUME NEW s \in Text
  PROVE  \A c \in Call : /\ Reading(s)[c] \in Reads
                         /\ Reading(s)[c] = ReadCall(c, Reading(s), s)
<1> DEFINE G == [x \in Call \X [Call -> Reads] |-> ReadCall(x[1], x[2], s)]
           rank == CallRank(s)
<1>1. rank \in [Call -> Nat]
  BY CallRanks
<1>2. Defining(Call, Reads, rank, G)
  <2>1. G \in [Call \X [Call -> Reads] -> Reads]
    BY ReadCallTyped
  <2>2. \A c \in Call : \A f, g \in [Call -> Reads] :
          (\A d \in Call : rank[d] < rank[c] => f[d] = g[d]) => G[<<c, f>>] = G[<<c, g>>]
    <3>1. ASSUME NEW c \in Call, NEW f \in [Call -> Reads], NEW g \in [Call -> Reads],
                 \A d \in Call : rank[d] < rank[c] => f[d] = g[d]
          PROVE  ReadCall(c, f, s) = ReadCall(c, g, s)
      BY <3>1, ReadCallAgrees
    <3> HIDE DEF rank
    <3> QED
      BY <3>1
  <2>3. Reads # {}
    BY GotTyped, Built
  <2> HIDE DEF G, rank
  <2> QED
    BY <1>1, <2>1, <2>2, <2>3 DEF Defining
<1>3. PICK h \in [Call -> Reads] : \A c \in Call : h[c] = G[<<c, h>>]
  <2> HIDE DEF G, rank
  <2> QED
    BY <1>2, RankedRecursion
<1>4. \A c \in Call : h[c] = ReadCall(c, h, s)
  BY <1>3
<1> DEFINE P(g) == g = [c \in Call |-> ReadCall(c, g, s)]
           m == CHOOSE g : P(g)
<1>5. P(h)
  BY <1>4
<1>6. Reading(s) = m
  BY Zenon DEF Reading
<1> HIDE DEF P
<1>7. P(m)
  BY <1>5, Zenon
<1> HIDE DEF m
<1>8. m = [c \in Call |-> ReadCall(c, m, s)]
  BY <1>7 DEF P
<1>9. \A c \in Call : m[c] = ReadCall(c, m, s)
  BY <1>8
<1>10. \A c \in Call : m[c] = h[c]
  <2> DEFINE S == {c \in Call : m[c] # h[c]}
  <2> HIDE DEF rank
  <2> SUFFICES ASSUME S # {} PROVE FALSE
    OBVIOUS
  <2>1. PICK c \in S : \A d \in S : rank[c] <= rank[d]
    <3>1. S \subseteq Call
      OBVIOUS
    <3> HIDE DEF S
    <3> QED
      BY <3>1, <1>1, LeastRank
  <2>2. c \in Call /\ m[c] # h[c] /\ \A d \in Call : rank[d] < rank[c] => h[d] = m[d]
    BY <2>1, <1>1
  <2>3. ReadCall(c, h, s) = ReadCall(c, m, s)
    BY <2>2, ReadCallAgrees DEF rank
  <2> QED
    BY <2>2, <2>3, <1>4, <1>9
<1> QED
  BY <1>6, <1>9, <1>10
(* What a call reads, by method. *)
LEMMA Readings ==
  ASSUME NEW s \in Text, NEW t \in Tree, NEW p \in Nat
  PROVE  LET R == Reading(s)
         IN  /\ R[<<"or", t, p>>] = ParseOr(R, p)
             /\ R[<<"orRest", t, p>>] = OrRest(R, s, t, p)
             /\ R[<<"and", t, p>>] = ParseAnd(R, p)
             /\ R[<<"andRest", t, p>>] = AndRest(R, s, t, p)
             /\ R[<<"not", t, p>>] = ParseNot(R, s, p)
             /\ R[<<"primary", t, p>>] = ParsePrimary(R, s, p)
<1> DEFINE R == Reading(s)
<1>1. \A k \in Kinds : R[<<k, t, p>>] = ReadCall(<<k, t, p>>, R, s)
  BY CallsMade, ReadingIs
<1> HIDE DEF R
<1>2. /\ ReadCall(<<"or", t, p>>, R, s) = ParseOr(R, p)
      /\ ReadCall(<<"orRest", t, p>>, R, s) = OrRest(R, s, t, p)
      /\ ReadCall(<<"and", t, p>>, R, s) = ParseAnd(R, p)
      /\ ReadCall(<<"andRest", t, p>>, R, s) = AndRest(R, s, t, p)
      /\ ReadCall(<<"not", t, p>>, R, s) = ParseNot(R, s, p)
      /\ ReadCall(<<"primary", t, p>>, R, s) = ParsePrimary(R, s, p)
  BY DEF ReadCall
<1> QED
  BY <1>1, <1>2 DEF Kinds, R

LEMMA ReadingTyped ==
  ASSUME NEW s \in Text, NEW k \in Kinds, NEW t \in Tree, NEW p \in Nat
  PROVE  LET read == Reading(s)[<<k, t, p>>]
         IN  read \in Reads /\ read.tree \in Tree /\ read.took \in Nat
<1>1. Reading(s)[<<k, t, p>>] \in Reads
  BY CallsMade, ReadingIs
<1> QED
  BY <1>1, ThenTyped

(* No call reads past the end of the text. *)
LEMMA ReadingEnd ==
  ASSUME NEW s \in Text, NEW k \in Kinds, NEW t \in Tree, NEW p \in Nat, p <= Len(s) + 1
  PROVE  p + Reading(s)[<<k, t, p>>].took <= Len(s) + 1
<1> DEFINE n == Len(s)
           R == Reading(s)
           rank == CallRank(s)
           S == {c \in Call : c[3] <= n + 1 /\ ~(c[3] + R[c].took <= n + 1)}
<1>1. n \in Nat /\ Nil \in Tree
  BY LeftOfIs, Built
<1>2. ASSUME NEW c \in S, \A d \in S : rank[c] <= rank[d] PROVE FALSE
  <2> DEFINE q == c[3]
             u == c[2]
  <2>1. /\ c = <<c[1], u, q>> /\ u \in Tree /\ q \in Nat /\ c[1] \in Kinds /\ c \in Call
    BY Calls DEF Kinds
  <2>2. q <= n + 1 /\ ~(q + R[<<c[1], u, q>>].took <= n + 1)
    BY <2>1
  <2>3. rank \in [Call -> Nat]
    BY CallRanks
  <2>4. \A d \in Call : rank[d] < rank[c] /\ d[3] <= n + 1 => d[3] + R[d].took <= n + 1
    <3> HIDE DEF rank, n, R
    <3>1. \A d \in Call : rank[d] < rank[c] => ~(rank[c] <= rank[d])
      BY <2>1, <2>3
    <3> QED
      BY <1>2, <3>1
  <2>5. ASSUME NEW j \in Kinds, NEW v \in Tree, NEW x \in Nat,
               x <= n + 1, rank[<<j, v, x>>] < rank[<<c[1], u, q>>]
        PROVE  x + R[<<j, v, x>>].took <= n + 1
    <3> DEFINE d == <<j, v, x>>
    <3>1. d \in Call /\ d[3] = x
      BY CallsMade
    <3> HIDE DEF d, rank, n, R, q, u
    <3>2. x + R[d].took <= n + 1
      BY <2>1, <2>4, <2>5, <3>1 DEF d
    <3> QED
      BY <3>2 DEF d
  <2>6. ASSUME NEW j \in Kinds, NEW v \in Tree, NEW x \in Nat, q < x, q <= n, x <= n + 1
        PROVE  x + R[<<j, v, x>>].took <= n + 1
    <3>1. rank[<<j, v, x>>] < rank[<<c[1], u, q>>]
      BY <2>1, <2>6, CallsMade
    <3> HIDE DEF rank, n, R, q, u
    <3> QED
      BY <2>5, <2>6, <3>1
  <2>7. \A j \in Kinds, v \in Tree, x \in Nat : R[<<j, v, x>>] \in Reads
                    /\ R[<<j, v, x>>].tree \in Tree /\ R[<<j, v, x>>].took \in Nat
    BY ReadingTyped
  <2>8. /\ R[<<"or", u, q>>] = ParseOr(R, q)
        /\ R[<<"orRest", u, q>>] = OrRest(R, s, u, q)
        /\ R[<<"and", u, q>>] = ParseAnd(R, q)
        /\ R[<<"andRest", u, q>>] = AndRest(R, s, u, q)
        /\ R[<<"not", u, q>>] = ParseNot(R, s, q)
        /\ R[<<"primary", u, q>>] = ParsePrimary(R, s, q)
    BY <2>1, Readings
  <2>9. \A w : Word(s, q, w) => q <= n /\ q + 1 <= n /\ q < q + 1 /\ q + 1 <= n + 1
    <3>1. \A w : Word(s, q, w) => q <= n /\ q + 1 <= n
      BY <2>1, WordIn
    <3> HIDE DEF n, q
    <3> QED
      BY <1>1, <2>1, <3>1
  <2>10. CASE c[1] \in {"or", "and"}
    <3> DEFINE j == IF c[1] = "or" THEN "and" ELSE "not"
               k2 == IF c[1] = "or" THEN "orRest" ELSE "andRest"
               a == R[<<j, Nil, q>>].took
               v == R[<<j, Nil, q>>].tree
               b == R[<<k2, v, q + a>>].took
    <3>1. a \in Nat /\ v \in Tree
      BY <1>1, <2>1, <2>7 DEF Kinds
    <3>2. q + a \in Nat /\ q <= q + a
      BY <2>1, <3>1
    <3>3. b \in Nat /\ R[<<k2, v, q + a>>] \in Reads
      BY <2>7, <3>1, <3>2 DEF Kinds
    <3>4. R[<<c[1], u, q>>] = Then(a, R[<<k2, v, q + a>>])
      BY <2>8, <2>10 DEF ParseOr, ParseAnd
    <3>5. R[<<c[1], u, q>>].took = a + b
      BY <3>3, <3>4, <3>1, ThenTyped
    <3> HIDE DEF a, b, v, n, q, R, u
    <3>6. q + a <= n + 1
      <4>0. q <= q
        BY <2>1
      <4>1. rank[<<j, Nil, q>>] < rank[<<c[1], u, q>>]
        BY <1>1, <2>1, <2>10, <4>0, CallsMade
      <4> HIDE DEF rank
      <4> QED
        BY <1>1, <2>1, <2>2, <2>5, <4>1 DEF Kinds, a
    <3>7. (q + a) + b <= n + 1
      <4>1. rank[<<k2, v, q + a>>] < rank[<<c[1], u, q>>]
        BY <2>1, <2>10, <3>1, <3>2, CallsMade
      <4> HIDE DEF rank
      <4> QED
        BY <2>5, <3>1, <3>2, <3>6, <4>1 DEF Kinds, b
    <3>8. q + (a + b) <= n + 1
      BY <1>1, <2>1, <3>1, <3>3, <3>7
    <3> QED
      BY <2>2, <3>5, <3>8
  <2>11. CASE c[1] \in {"orRest", "andRest"}
    <3> DEFINE j == IF c[1] = "orRest" THEN "and" ELSE "not"
               w == IF c[1] = "orRest" THEN "or" ELSE "and"
               a == R[<<j, Nil, q + 1>>].took
               x == R[<<j, Nil, q + 1>>].tree
               v == IF c[1] = "orRest" THEN Either(u, x) ELSE Both(u, x)
               b == R[<<c[1], v, q + (1 + a)>>].took
    <3>1. a \in Nat /\ x \in Tree
      BY <1>1, <2>1, <2>7 DEF Kinds
    <3>2. q + (1 + a) \in Nat /\ q < q + (1 + a) /\ 1 + a \in Nat
      BY <2>1, <3>1, SMTT(30)
    <3>3. v \in Tree
      BY <2>1, <3>1, Built
    <3>4. b \in Nat /\ R[<<c[1], v, q + (1 + a)>>] \in Reads
      BY <2>1, <2>7, <3>2, <3>3
    <3>5. CASE Word(s, q, w)
      <4>1. R[<<c[1], u, q>>] = Then(1 + a, R[<<c[1], v, q + (1 + a)>>])
        BY <2>8, <2>11, <3>5 DEF OrRest, AndRest
      <4>2. R[<<c[1], u, q>>].took = (1 + a) + b
        BY <3>2, <3>4, <4>1, ThenTyped
      <4>3. q <= n /\ q < q + 1 /\ q + 1 <= n + 1
        BY <2>9, <3>5
      <4> HIDE DEF a, b, v, n, q, R, u, rank, x
      <4>4. (q + 1) + a <= n + 1
        BY <1>1, <2>1, <2>6, <4>3 DEF Kinds, a
      <4>5. q + (1 + a) <= n + 1
        BY <1>1, <2>1, <3>1, <4>4
      <4>6. (q + (1 + a)) + b <= n + 1
        BY <2>1, <2>6, <3>2, <3>3, <4>3, <4>5 DEF b
      <4>7. q + ((1 + a) + b) <= n + 1
        BY <1>1, <2>1, <3>1, <3>4, <4>6
      <4> QED
        BY <2>2, <4>2, <4>7
    <3>6. CASE ~Word(s, q, w)
      <4>1. R[<<c[1], u, q>>] = Got(u, 0)
        BY <2>8, <2>11, <3>6 DEF OrRest, AndRest
      <4>2. R[<<c[1], u, q>>].took = 0
        BY <2>1, <4>1, GotTyped
      <4> HIDE DEF n, q, R, u
      <4> QED
        BY <1>1, <2>1, <2>2, <4>2
    <3> QED
      BY <3>5, <3>6
  <2>12. CASE c[1] = "not"
    <3>1. CASE Word(s, q, "not")
      <4> DEFINE a == R[<<"not", Nil, q + 1>>].took
                 x == R[<<"not", Nil, q + 1>>].tree
      <4>1. a \in Nat /\ x \in Tree
        BY <1>1, <2>1, <2>7 DEF Kinds
      <4>2. R[<<"not", u, q>>] = Got(Negation(x), 1 + a)
        BY <2>8, <3>1 DEF ParseNot
      <4>3. R[<<"not", u, q>>].took = 1 + a
        BY <4>1, <4>2, Built, GotTyped
      <4>4. q <= n /\ q < q + 1 /\ q + 1 <= n + 1
        BY <2>9, <3>1
      <4> HIDE DEF a, x, n, q, R, u, rank
      <4>5. (q + 1) + a <= n + 1
        BY <1>1, <2>1, <2>6, <4>4 DEF Kinds, a
      <4>6. q + (1 + a) <= n + 1
        BY <1>1, <2>1, <4>1, <4>5
      <4> QED
        BY <2>2, <2>12, <4>3, <4>6
    <3>2. CASE ~Word(s, q, "not")
      <4>1. R[<<"not", u, q>>] = R[<<"primary", Nil, q>>]
        BY <2>8, <3>2 DEF ParseNot
      <4>2. rank[<<"primary", Nil, q>>] < rank[<<"not", u, q>>]
        <5>1. q <= q
          BY <2>1
        <5> QED
          BY <1>1, <2>1, <5>1, CallsMade
      <4> HIDE DEF n, q, R, u, rank
      <4>3. q + R[<<"primary", Nil, q>>].took <= n + 1
        BY <1>1, <2>1, <2>2, <2>5, <2>12, <4>2 DEF Kinds
      <4> QED
        BY <2>2, <2>12, <4>1, <4>3
    <3> QED
      BY <3>1, <3>2
  <2>13. CASE c[1] = "primary"
    <3> DEFINE a == R[<<"or", Nil, q + 1>>].took
               x == R[<<"or", Nil, q + 1>>].tree
               b == q + 1 + a
               e == After(s, b, Close)
    <3>1. a \in Nat /\ x \in Tree
      BY <1>1, <2>1, <2>7 DEF Kinds
    <3>2. b \in Nat /\ q < b
      BY <2>1, <3>1
    <3>3. e \in Nat /\ b <= e /\ (b <= n + 1 => e <= n + 1)
      BY <3>2, AfterIs, Zenon
    <3>4. q + R[<<"primary", u, q>>].took <= n + 1
      <4>1. CASE q > n
        <5>1. R[<<"primary", u, q>>] = Got(Nil, 0)
          BY <2>8, <4>1 DEF ParsePrimary
        <5>2. R[<<"primary", u, q>>].took = 0
          BY <1>1, <5>1, GotTyped
        <5> HIDE DEF n, q, R, u
        <5> QED
          BY <2>1, <2>2, <5>2
      <4>2. CASE ~(q > n)
        <5>1. q <= n
          <6> HIDE DEF q, n
          <6> QED
            BY <1>1, <2>1, <4>2
        <5>2. b <= n + 1 /\ 0 <= e - q /\ e - q \in Nat /\ q + (e - q) <= n + 1
          <6>1. q + 1 \in Nat /\ q < q + 1 /\ q + 1 <= n + 1
            <7> HIDE DEF q, n
            <7> QED
              BY <1>1, <2>1, <5>1
          <6> HIDE DEF n, q, R, u, rank, e
          <6>2. (q + 1) + a <= n + 1
            BY <1>1, <2>6, <5>1, <6>1 DEF Kinds
          <6>3. b <= n + 1
            BY <6>2
          <6> HIDE DEF b
          <6> QED
            BY <1>1, <2>1, <3>2, <3>3, <6>3
        <5>3. CASE s[q] \in DOMAIN Counts
          <6>1. R[<<"primary", u, q>>] = ParseOneOf(s, q)
            BY <2>8, <4>2, <5>3, DialectAssumption DEF ParsePrimary, Reserved, Marks
          <6> QED
            BY <2>1, <5>1, <5>3, <6>1, OneOfTyped
        <5>4. CASE s[q] = "all" /\ Word(s, q + 1, "of")
          <6>1. R[<<"primary", u, q>>] = ParseAllOf(s, q)
            BY <2>8, <4>2, <5>4, DialectAssumption, Apart DEF ParsePrimary, Reserved
          <6> QED
            BY <2>1, <5>4, <6>1, AllOfTyped
        <5>5. CASE s[q] = Open
          <6>1. R[<<"primary", u, q>>] = Got(x, e - q)
            BY <2>8, <4>2, <5>5, DialectAssumption DEF ParsePrimary, Reserved, Marks
          <6>2. R[<<"primary", u, q>>].took = e - q
            BY <3>1, <5>2, <6>1, GotTyped
          <6> QED
            BY <5>2, <6>2
        <5>6. CASE /\ s[q] \notin DOMAIN Counts /\ s[q] # Open
                   /\ ~(s[q] = "all" /\ Word(s, q + 1, "of"))
          <6>1. \/ s[q] \in Words /\ R[<<"primary", u, q>>] = Got(Ident(s[q]), 1)
                \/ R[<<"primary", u, q>>] = Got(Nil, 0)
            BY <2>8, <4>2, <5>6 DEF ParsePrimary
          <6>2. R[<<"primary", u, q>>].took \in {0, 1}
            BY <1>1, <6>1, Built, GotTyped
          <6> HIDE DEF n, q, R, u
          <6> QED
            BY <1>1, <2>1, <5>1, <6>2
        <5> QED
          BY <5>3, <5>4, <5>5, <5>6
      <4> QED
        BY <4>1, <4>2
    <3> QED
      BY <2>2, <2>13, <3>4
  <2> QED
    BY <2>1, <2>10, <2>11, <2>12, <2>13 DEF Kinds
<1>3. S = {}
  <2>1. S \subseteq Call /\ rank \in [Call -> Nat]
    BY CallRanks
  <2> HIDE DEF S, rank
  <2> QED
    BY <1>2, <2>1, LeastRank
<1>4. <<k, t, p>> \in Call /\ <<k, t, p>>[3] = p
  BY CallsMade
<1> QED
  BY <1>3, <1>4
-----------------------------------------------------------------------------
(* A sentence is one of the forms of the dialect, and so is its text. *)
LEMMA NodeIs ==
  ASSUME NEW n \in Node
  PROVE  /\ n.op = "ident" => n = [op |-> "ident", name |-> n.name]
         /\ n.op = "not" => n = [op |-> "not"]
         /\ n.op = "and" => n = [op |-> "and", right |-> n.right]
         /\ n.op = "or" => n = [op |-> "or", right |-> n.right]
         /\ n.op = "some" => n = [op |-> "some", count |-> n.count, names |-> n.names]
         /\ n.op = "every" => n = [op |-> "every", names |-> n.names]
BY DEF Node

LEMMA Split ==
  ASSUME NEW t \in Tree, t # Nil
  PROVE  /\ t = Child(t) \o <<Root(t)>>
         /\ Len(t) = 1 => t = <<Root(t)>>
         /\ Root(t).op \in {"and", "or"} /\ Left(t) # Nil =>
              t = Left(t) \o Right(t) \o <<Root(t)>>
<1> DEFINE n == Len(t)
           k == Len(Left(t))
<1>1. t \in Seq(Node) /\ n \in Nat \ {0} /\ Root(t) = t[n]
  BY Subtrees DEF Tree, Root
<1>2. t = Child(t) \o <<Root(t)>>
  <2>1. SubSeq(t, 1, n) = SubSeq(t, 1, n - 1) \o <<t[n]>>
    <3>1. 1 \in 1 .. n /\ n \in 1 .. n
      BY <1>1
    <3> QED
      BY <1>1, <3>1, SubSeqRecursiveSecond
  <2>2. SubSeq(t, 1, n) = t
    BY <1>1, SubSeqFull
  <2> QED
    BY <1>1, <2>1, <2>2 DEF Child
<1>3. ASSUME n = 1 PROVE t = <<Root(t)>>
  <2>1. t \in [1 .. 1 -> Node]
    BY <1>1, <1>3, LenProperties
  <2>2. t[1] = Root(t)
    BY <1>1, <1>3
  <2> QED
    BY <2>1, <2>2
<1>4. ASSUME Root(t).op \in {"and", "or"}, Left(t) # Nil
      PROVE  t = Left(t) \o Right(t) \o <<Root(t)>>
  <2>1. k \in Nat /\ k < n /\ k = n - 1 - Root(t).right
    BY <1>4, Subtrees DEF Tree
  <2>2. Left(t) = SubSeq(t, 1, k) /\ Right(t) = SubSeq(t, k + 1, n - 1)
    BY <2>1 DEF Left, Right
  <2>3. SubSeq(t, 1, k) \o SubSeq(t, k + 1, n - 1) = SubSeq(t, 1, n - 1)
    <3> HIDE DEF n, k
    <3>1. 1 \in 1 .. n + 1 /\ k \in 1 - 1 .. n /\ n - 1 \in k .. n
      BY <1>1, <2>1
    <3> QED
      BY <1>1, <3>1, ConcatAdjacentSubSeq DEF n
  <2> QED
    BY <1>2, <2>2, <2>3 DEF Child
<1> QED
  BY <1>2, <1>3, <1>4

LEMMA Sentences ==
  ASSUME NEW t \in Tree, Sentence(t)
  PROVE  /\ t # Nil
         /\ \/ Root(t).op = "ident" /\ t = Ident(Root(t).name) /\ Root(t).name \in Names
            \/ /\ Root(t).op = "and" /\ t = Both(Left(t), Right(t))
               /\ Sentence(Left(t)) /\ Sentence(Right(t))
            \/ /\ Root(t).op = "or" /\ t = Either(Left(t), Right(t))
               /\ Sentence(Left(t)) /\ Sentence(Right(t))
            \/ Root(t).op = "not" /\ t = Negation(Child(t)) /\ Sentence(Child(t))
            \/ /\ Root(t).op = "some" /\ t = Some(Root(t).count, Root(t).names)
               /\ Root(t).count \in DOMAIN Counts /\ Root(t).names \in Target
               /\ InTarget(Root(t).names) /\ Separate(Root(t).names)
            \/ /\ Root(t).op = "every" /\ t = Every(Root(t).names)
               /\ Root(t).names \in Target /\ InTarget(Root(t).names)
<1>1. PICK h \in [Tree -> BOOLEAN] :
        /\ \A u \in Tree : h[u] = SentenceAt(u, h)
        /\ \A u : Sentence(u) = h[u]
  BY SentenceIs
<1>2. SentenceAt(t, h) /\ \A u \in Tree : h[u] => u # Nil
  BY <1>1 DEF SentenceAt
<1>3. t # Nil
  BY <1>2 DEF SentenceAt
<1>4. Root(t) \in Node
  BY <1>3, Subtrees
<1>5. CASE Root(t).op = "ident"
  <2>1. Len(t) = 1 /\ Root(t).name \in Names
    BY <1>2, <1>5 DEF SentenceAt
  <2> QED
    BY <1>3, <1>4, <1>5, <2>1, Split, NodeIs DEF Ident
<1>6. CASE Root(t).op \in {"and", "or"}
  <2>1. h[Left(t)] /\ h[Right(t)]
    BY <1>2, <1>6 DEF SentenceAt
  <2>2. Left(t) \in Tree /\ Right(t) \in Tree
    BY <1>3, <1>6, Subtrees
  <2>3. Left(t) # Nil
    BY <1>2, <2>1, <2>2
  <2>4. t = Left(t) \o Right(t) \o <<Root(t)>> /\ Len(Right(t)) = Root(t).right
    BY <1>3, <1>6, <2>3, Split, Subtrees
  <2>5. Root(t).op = "and" => t = Both(Left(t), Right(t))
    BY <1>4, <2>4, NodeIs DEF Both
  <2>6. Root(t).op = "or" => t = Either(Left(t), Right(t))
    BY <1>4, <2>4, NodeIs DEF Either
  <2> QED
    BY <1>1, <1>3, <1>6, <2>1, <2>5, <2>6
<1>7. CASE Root(t).op = "not"
  <2>1. h[Child(t)]
    BY <1>2, <1>7 DEF SentenceAt
  <2>2. t = Negation(Child(t))
    BY <1>3, <1>4, <1>7, Split, NodeIs DEF Negation
  <2> QED
    BY <1>1, <1>3, <1>7, <2>1, <2>2
<1>8. CASE Root(t).op = "some"
  <2>1. Len(t) = 1 /\ InTarget(Root(t).names) /\ Separate(Root(t).names)
    BY <1>2, <1>8 DEF SentenceAt
  <2>2. t = Some(Root(t).count, Root(t).names)
    BY <1>3, <1>4, <1>8, <2>1, Split, NodeIs DEF Some
  <2> QED
    BY <1>3, <1>4, <1>8, <2>1, <2>2, NodeKinds
<1>9. CASE Root(t).op = "every"
  <2>1. Len(t) = 1 /\ InTarget(Root(t).names)
    BY <1>2, <1>9 DEF SentenceAt
  <2>2. t = Every(Root(t).names)
    BY <1>3, <1>4, <1>9, <2>1, Split, NodeIs DEF Every
  <2> QED
    BY <1>3, <1>4, <1>9, <2>1, <2>2, NodeKinds
<1> QED
  BY <1>4, <1>5, <1>6, <1>7, <1>8, <1>9, NodeKinds

(* A subtree as it is written in a place that asks for some strength. *)
Placed(u, strength) ==
  IF Strength(u) < strength THEN <<Open>> \o Written(u) \o <<Close>> ELSE Written(u)

LEMMA PlacedTyped ==
  ASSUME NEW u \in Tree, NEW n
  PROVE  Written(u) \in Text /\ Placed(u, n) \in Text
<1>1. Written(u) \in Text
  BY WrittenIs
<1>2. <<Open>> \o Written(u) \o <<Close>> \in Text
  BY <1>1, Texts, Tokens DEF Marks
<1> QED
  BY <1>1, <1>2 DEF Placed

LEMMA Texting ==
  ASSUME NEW t \in Tree, t # Nil
  PROVE  /\ Root(t).op = "ident" => Written(t) = <<Root(t).name>>
         /\ Root(t).op = "and" =>
              Written(t) = Placed(Left(t), 2) \o <<"and">> \o Placed(Right(t), 3)
         /\ Root(t).op = "or" =>
              Written(t) = Placed(Left(t), 1) \o <<"or">> \o Placed(Right(t), 2)
         /\ Root(t).op = "not" => Written(t) = <<"not">> \o Placed(Child(t), 3)
         /\ Root(t).op = "some" =>
              Written(t) = <<Root(t).count, "of">> \o Operand("some", Root(t).names)
         /\ Root(t).op = "every" =>
              Written(t) = <<"all", "of">> \o Operand("every", Root(t).names)
<1>1. PICK h \in [Tree -> Text] :
        /\ \A u \in Tree : h[u] = WrittenAt(u, h)
        /\ \A u : Written(u) = h[u]
  BY WrittenIs
<1>2. \A u, n : Within(u, h, n) = Placed(u, n)
  BY <1>1 DEF Within, Placed
<1>3. Written(t) = WrittenAt(t, h)
  BY <1>1
<1> QED
  BY <1>2, <1>3 DEF WrittenAt
-----------------------------------------------------------------------------
(* The text w stands in s at p. *)
Here(w, s, p) ==
  /\ p \in Nat /\ p + Len(w) <= Len(s) + 1
  /\ \A i \in 1 .. Len(w) : s[p + i - 1] = w[i]

(* Position e is the end of the text, or holds what may follow a sentence. *)
Stops(s, e) == e > Len(s) \/ s[e] \in {"and", "or", Close}

LEMMA HereConcat ==
  ASSUME NEW u \in Text, NEW v \in Text, NEW s \in Text, NEW p, Here(u \o v, s, p)
  PROVE  /\ Here(u, s, p) /\ Here(v, s, p + Len(u))
         /\ Len(u \o v) = Len(u) + Len(v) /\ Len(u) \in Nat /\ Len(v) \in Nat
<1> DEFINE a == Len(u)
           b == Len(v)
           n == Len(s)
           w == u \o v
<1>1. a \in Nat /\ b \in Nat /\ n \in Nat
  BY DEF Text
<1>2. /\ Len(w) = a + b
      /\ \A i \in 1 .. a + b : w[i] = IF i <= a THEN u[i] ELSE v[i - a]
  BY ConcatProperties DEF Text
<1>3. p \in Nat /\ p + (a + b) <= n + 1 /\ \A i \in 1 .. a + b : s[p + i - 1] = w[i]
  BY <1>2 DEF Here
<1> HIDE DEF a, b, n, w
<1>4. p + a <= n + 1 /\ p + a \in Nat /\ (p + a) + b <= n + 1
  BY <1>1, <1>3
<1>5. \A i \in 1 .. a : s[p + i - 1] = u[i]
  BY <1>1, <1>2, <1>3
<1>6. ASSUME NEW i \in 1 .. b PROVE s[(p + a) + i - 1] = v[i]
  <2> DEFINE j == a + i
  <2>1. j \in 1 .. a + b /\ ~(j <= a) /\ j - a = i /\ j = a + i
    BY <1>1
  <2> HIDE DEF j
  <2>2. w[a + i] = v[i]
    BY <1>2, <2>1
  <2>3. p + (a + i) - 1 = (p + a) + i - 1
    BY <1>1, <1>3
  <2>4. s[p + (a + i) - 1] = w[a + i]
    <3>1. s[p + j - 1] = w[j]
      BY <1>3, <2>1
    <3> QED
      BY <2>1, <3>1
  <2> QED
    BY <2>2, <2>3, <2>4
<1> QED
  BY <1>1, <1>2, <1>3, <1>4, <1>5, <1>6 DEF Here, a, b, n, w

LEMMA HereOne ==
  ASSUME NEW x, NEW s \in Text, NEW p, Here(<<x>>, s, p)
  PROVE  p \in Nat /\ p <= Len(s) /\ s[p] = x /\ Len(<<x>>) = 1
<1>1. p \in Nat /\ p + 1 <= Len(s) + 1 /\ s[p + 1 - 1] = x
  BY DEF Here
<1>2. Len(s) \in Nat
  BY DEF Text
<1> QED
  BY <1>1, <1>2

(* What stands between two marks or after a word. *)
LEMMA HerePair ==
  ASSUME NEW x, NEW v \in Text, <<x>> \in Text, NEW s \in Text, NEW p, Here(<<x>> \o v, s, p)
  PROVE  /\ p \in Nat /\ p <= Len(s) /\ s[p] = x
         /\ Here(v, s, p + 1) /\ Len(<<x>> \o v) = 1 + Len(v) /\ Len(v) \in Nat
<1>1. Len(<<x>>) = 1
  OBVIOUS
<1> QED
  BY <1>1, HereConcat, HereOne

LEMMA HereInfix ==
  ASSUME NEW x, <<x>> \in Text, NEW u \in Text, NEW v \in Text, NEW s \in Text,
         NEW p, Here(u \o <<x>> \o v, s, p)
  PROVE  LET m == p + Len(u)
         IN  /\ Here(u, s, p) /\ m \in Nat /\ m <= Len(s) /\ s[m] = x /\ Here(v, s, m + 1)
             /\ Len(u \o <<x>> \o v) = Len(u) + 1 + Len(v)
             /\ Len(u) \in Nat /\ Len(v) \in Nat
<1>1. u \o <<x>> \in Text /\ Len(<<x>>) = 1
  BY Texts
<1>2. /\ Here(u \o <<x>>, s, p) /\ Here(v, s, p + Len(u \o <<x>>))
      /\ Len(u \o <<x>> \o v) = Len(u \o <<x>>) + Len(v) /\ Len(v) \in Nat
  BY <1>1, HereConcat
<1>3. /\ Here(u, s, p) /\ Here(<<x>>, s, p + Len(u)) /\ Len(u) \in Nat
      /\ Len(u \o <<x>>) = Len(u) + 1
  BY <1>1, <1>2, HereConcat
<1>4. p + Len(u \o <<x>>) = (p + Len(u)) + 1
  BY <1>3 DEF Here
<1> QED
  BY <1>2, <1>3, <1>4, HereOne
-----------------------------------------------------------------------------
(* How the readings of a tree's text at p, which ends before e, follow from
   each other. *)
LEMMA NotThenAnd ==
  ASSUME NEW s \in Text, NEW p \in Nat, NEW k \in Nat, NEW t \in Tree,
         Reading(s)[<<"not", Nil, p>>] = Got(t, k)
  PROVE  Reading(s)[<<"and", Nil, p>>] = Then(k, Reading(s)[<<"andRest", t, p + k>>])
<1>1. Reading(s)[<<"and", Nil, p>>] = ParseAnd(Reading(s), p)
  BY Readings, Built
<1>2. Got(t, k).tree = t /\ Got(t, k).took = k
  BY GotTyped
<1> QED
  BY <1>1, <1>2 DEF ParseAnd

LEMMA ThenNothing ==
  ASSUME NEW t \in Tree, NEW k \in Nat
  PROVE  Then(k, Got(t, 0)) = Got(t, k)
BY DEF Then, Got

LEMMA ThenThen ==
  ASSUME NEW j \in Nat, NEW k \in Nat, NEW r \in Reads
  PROVE  Then(j, Then(k, r)) = Then(j + k, r)
BY DEF Then, Got, Reads

LEMMA AndEnds ==
  ASSUME NEW s \in Text, NEW p \in Nat, NEW k \in Nat, NEW t \in Tree,
         Reading(s)[<<"and", Nil, p>>] = Then(k, Reading(s)[<<"andRest", t, p + k>>]),
         ~Word(s, p + k, "and")
  PROVE  Reading(s)[<<"and", Nil, p>>] = Got(t, k)
<1>1. Reading(s)[<<"andRest", t, p + k>>] = AndRest(Reading(s), s, t, p + k)
  <2>1. p + k \in Nat
    OBVIOUS
  <2> QED
    BY <2>1, Readings
<1>2. AndRest(Reading(s), s, t, p + k) = Got(t, 0)
  BY DEF AndRest
<1> QED
  BY <1>1, <1>2, ThenNothing

LEMMA AndThenOr ==
  ASSUME NEW s \in Text, NEW p \in Nat, NEW k \in Nat, NEW t \in Tree,
         Reading(s)[<<"and", Nil, p>>] = Got(t, k)
  PROVE  Reading(s)[<<"or", Nil, p>>] = Then(k, Reading(s)[<<"orRest", t, p + k>>])
<1>1. Reading(s)[<<"or", Nil, p>>] = ParseOr(Reading(s), p)
  BY Readings, Built
<1>2. Got(t, k).tree = t /\ Got(t, k).took = k
  BY GotTyped
<1> QED
  BY <1>1, <1>2 DEF ParseOr

LEMMA OrEnds ==
  ASSUME NEW s \in Text, NEW p \in Nat, NEW k \in Nat, NEW t \in Tree,
         Reading(s)[<<"or", Nil, p>>] = Then(k, Reading(s)[<<"orRest", t, p + k>>]),
         ~Word(s, p + k, "or")
  PROVE  Reading(s)[<<"or", Nil, p>>] = Got(t, k)
<1>1. Reading(s)[<<"orRest", t, p + k>>] = OrRest(Reading(s), s, t, p + k)
  <2>1. p + k \in Nat
    OBVIOUS
  <2> QED
    BY <2>1, Readings
<1>2. OrRest(Reading(s), s, t, p + k) = Got(t, 0)
  BY DEF OrRest
<1> QED
  BY <1>1, <1>2, ThenNothing

(* A tree is read as it is written, at whatever place its strength allows. *)
ReadAt(s, t, p, k) ==
  LET R == Reading(s)
  IN  /\ Strength(t) >= 3 => R[<<"not", Nil, p>>] = Got(t, k)
      /\ Strength(t) >= 2 => R[<<"and", Nil, p>>] = Then(k, R[<<"andRest", t, p + k>>])
      /\ ~Word(s, p + k, "and") =>
           R[<<"or", Nil, p>>] = Then(k, R[<<"orRest", t, p + k>>])

Faithful(t) ==
  \A s \in Text, p \in Nat :
    LET k == Len(Written(t))
    IN  Here(Written(t), s, p) /\ Stops(s, p + k) => ReadAt(s, t, p, k)

LEMMA Strengths ==
  ASSUME NEW t
  PROVE  /\ Strength(t) \in 1 .. 4
         /\ Root(t).op = "or" => Strength(t) = 1
         /\ Root(t).op = "and" => Strength(t) = 2
         /\ Root(t).op = "not" => Strength(t) = 3
         /\ Root(t).op \notin {"or", "and", "not"} => Strength(t) = 4
BY DEF Strength

(* What is read by parseNot is read so by the methods above it. *)
LEMMA ReadByNot ==
  ASSUME NEW s \in Text, NEW p \in Nat, NEW k \in Nat, NEW t \in Tree,
         Reading(s)[<<"not", Nil, p>>] = Got(t, k)
  PROVE  ReadAt(s, t, p, k)
<1>1. Reading(s)[<<"and", Nil, p>>] = Then(k, Reading(s)[<<"andRest", t, p + k>>])
  BY NotThenAnd
<1>2. ~Word(s, p + k, "and") => Reading(s)[<<"or", Nil, p>>]
                                  = Then(k, Reading(s)[<<"orRest", t, p + k>>])
  BY <1>1, AndEnds, AndThenOr
<1> QED
  BY <1>1, <1>2 DEF ReadAt

LEMMA ReadByAnd ==
  ASSUME NEW s \in Text, NEW p \in Nat, NEW k \in Nat, NEW t \in Tree, Strength(t) = 2,
         Reading(s)[<<"and", Nil, p>>] = Then(k, Reading(s)[<<"andRest", t, p + k>>])
  PROVE  ReadAt(s, t, p, k)
<1>1. ~Word(s, p + k, "and") => Reading(s)[<<"or", Nil, p>>]
                                  = Then(k, Reading(s)[<<"orRest", t, p + k>>])
  BY AndEnds, AndThenOr
<1> QED
  BY <1>1 DEF ReadAt

(* An aggregate or a name is primary. *)
LEMMA ReadByPrimary ==
  ASSUME NEW s \in Text, NEW p \in Nat, NEW r, s[p] # "not",
         Reading(s)[<<"primary", Nil, p>>] = r
  PROVE  Reading(s)[<<"not", Nil, p>>] = r
BY Readings, Built DEF ParseNot, Word

(* A tree in parentheses is read whatever follows. *)
LEMMA Parenthesized ==
  ASSUME NEW t \in Tree, Faithful(t), NEW s \in Text, NEW p,
         Here(<<Open>> \o Written(t) \o <<Close>>, s, p)
  PROVE  /\ p \in Nat /\ Len(Written(t)) \in Nat
         /\ Len(<<Open>> \o Written(t) \o <<Close>>) = Len(Written(t)) + 2
         /\ Reading(s)[<<"not", Nil, p>>] = Got(t, Len(Written(t)) + 2)
<1> DEFINE w == Written(t)
           k == Len(w)
           R == Reading(s)
           n == Len(s)
<1>1. w \in Text /\ <<Open>> \in Text /\ <<Close>> \in Text /\ n \in Nat /\ <<Open>> \o w \in Text
  <2>1. w \in Text /\ <<Open>> \in Text /\ <<Close>> \in Text
    BY WrittenIs, Texts, Tokens DEF Marks
  <2>2. n \in Nat
    BY DEF Text
  <2> QED
    BY <2>1, <2>2, Texts
<1>2. /\ Here(<<Open>> \o w, s, p) /\ Here(<<Close>>, s, p + Len(<<Open>> \o w))
      /\ Len(<<Open>> \o w \o <<Close>>) = Len(<<Open>> \o w) + 1
  <2>1. Len(<<Close>>) = 1
    OBVIOUS
  <2> QED
    BY <1>1, <2>1, HereConcat
<1>3. /\ p \in Nat /\ p <= n /\ s[p] = Open /\ Here(w, s, p + 1)
      /\ Len(<<Open>> \o w) = 1 + k /\ k \in Nat
  BY <1>1, <1>2, HerePair
<1>4. p + 1 + k <= n /\ s[p + 1 + k] = Close /\ p + 1 + k \in Nat
  <2>1. p + Len(<<Open>> \o w) = p + 1 + k
    BY <1>3
  <2>2. p + 1 + k <= n /\ s[p + 1 + k] = Close /\ p + 1 + k \in Nat
    BY <1>2, <2>1, HereOne
  <2> QED
    BY <2>2
<1>5. R[<<"or", Nil, p + 1>>] = Got(t, k)
  <2>1. Stops(s, p + 1 + k) /\ ~Word(s, p + 1 + k, "and") /\ ~Word(s, p + 1 + k, "or")
    <3> DEFINE x == p + 1 + k
    <3>1. s[x] = Close
      BY <1>4
    <3> HIDE DEF x
    <3>2. Stops(s, x) /\ ~Word(s, x, "and") /\ ~Word(s, x, "or")
      BY <3>1, Apart DEF Stops, Word
    <3> QED
      BY <3>2 DEF x
  <2>2. R[<<"or", Nil, p + 1>>] = Then(k, R[<<"orRest", t, p + 1 + k>>])
    <3>1. p + 1 \in Nat /\ Here(w, s, p + 1) /\ Stops(s, p + 1 + k)
      BY <1>3, <2>1
    <3>2. ReadAt(s, t, p + 1, k)
      BY <3>1 DEF Faithful
    <3> QED
      BY <2>1, <3>2 DEF ReadAt
  <2> QED
    BY <1>3, <2>1, <2>2, OrEnds
<1>6. R[<<"primary", Nil, p>>] = Got(t, k + 2)
  <2>1. R[<<"primary", Nil, p>>] = ParsePrimary(R, s, p)
    BY <1>3, Readings, Built
  <2>2. R[<<"or", Nil, p + 1>>].tree = t /\ R[<<"or", Nil, p + 1>>].took = k
    BY <1>3, <1>5, GotTyped
  <2>3. ~(p > Len(s)) /\ s[p] \notin DOMAIN Counts /\ s[p] # "all"
    <3>1. ~(p > Len(s))
      BY <1>1, <1>3
    <3>2. s[p] \in Marks /\ s[p] # "all"
      BY <1>3, Apart
    <3> QED
      BY <3>1, <3>2, DialectAssumption
  <2> DEFINE e == After(s, p + 1 + k, Close)
  <2>4. ParsePrimary(R, s, p) = Got(t, e - p)
    BY <1>3, <2>2, <2>3 DEF ParsePrimary
  <2>5. e = p + 1 + k + 1
    BY <1>4 DEF After, At
  <2> HIDE DEF e
  <2>6. e - p = k + 2
    <3> HIDE DEF k
    <3> QED
      BY <1>3, <2>5
  <2> QED
    BY <2>1, <2>4, <2>6
<1>7. R[<<"not", Nil, p>>] = Got(t, k + 2)
  BY <1>3, <1>6, Apart, ReadByPrimary
<1>8. Len(<<Open>> \o w \o <<Close>>) = k + 2
  <2> HIDE DEF k
  <2> QED
    BY <1>2, <1>3
<1> QED
  BY <1>3, <1>7, <1>8
-----------------------------------------------------------------------------
(* Operands are read as they are listed. *)
LEMMA AggIdentRead ==
  ASSUME NEW s \in Text, NEW p \in Nat, p <= Len(s), s[p] \in Words \cup Globs
  PROVE  readAggIdent(s, p) = [names |-> <<s[p]>>, at |-> p + 1]
BY DEF readAggIdent

LEMMA Targets ==
  ASSUME NEW target \in Target
  PROVE  /\ Len(target) \in Nat /\ target \in Seq(Words \cup Globs)
         /\ DOMAIN target = 1 .. Len(target)
         /\ \A k \in 1 .. Len(target) : target[k] \in Words \cup Globs
         /\ Len(target) = 1 => target = <<target[1]>>
         /\ target = Them <=> Len(target) = 0
<1>1. /\ target \in Seq(Words \cup Globs) /\ Len(target) \in Nat
      /\ target \in [1 .. Len(target) -> Words \cup Globs] /\ DOMAIN target = 1 .. Len(target)
  BY LenProperties DEF Target
<1>2. Len(target) = 1 => target = <<target[1]>>
  <2> SUFFICES ASSUME Len(target) = 1 PROVE target = <<target[1]>>
    OBVIOUS
  <2>1. target \in [1 .. 1 -> Words \cup Globs]
    BY <1>1
  <2> QED
    BY <2>1
<1>3. target = Them <=> Len(target) = 0
  BY <1>1, EmptySeq DEF Them
<1> QED
  BY <1>1, <1>2, <1>3

LEMMA OperandsMore ==
  ASSUME NEW s \in Text, NEW p \in Nat, At(s, readAggIdent(s, p).at, Comma)
  PROVE  Operands(s, p) =
           [names |-> readAggIdent(s, p).names \o Operands(s, readAggIdent(s, p).at + 1).names,
            at |-> Operands(s, readAggIdent(s, p).at + 1).at]
BY OperandsIs

LEMMA OperandsLast ==
  ASSUME NEW s \in Text, NEW p \in Nat, NEW names, NEW at,
         readAggIdent(s, p) = [names |-> names, at |-> at], ~At(s, at, Comma)
  PROVE  Operands(s, p) = [names |-> names, at |-> at]
<1>1. readAggIdent(s, p).names = names /\ readAggIdent(s, p).at = at
  OBVIOUS
<1> QED
  BY <1>1, OperandsIs

LEMMA ListRead ==
  ASSUME NEW target \in Target, target # Them, NEW s \in Text, NEW p \in Nat,
         Here(Listed(target), s, p), ~At(s, p + Len(Listed(target)), Comma)
  PROVE  Operands(s, p) = [names |-> target, at |-> p + Len(Listed(target))]
<1> DEFINE n == Len(target)
           e == p + Len(Listed(target))
           len == Len(s)
           from(k) == p + 2 * k - 2
           good(k) == Operands(s, from(k)) = [names |-> SubSeq(target, k, n), at |-> e]
<1>1. /\ n \in Nat \ {0} /\ e = p + (2 * n - 1) /\ len \in Nat /\ e \in Nat
  <2>1. n \in Nat \ {0} /\ Len(Listed(target)) = 2 * n - 1
    BY ListedIs
  <2>2. len \in Nat
    BY DEF Text
  <2> HIDE DEF n
  <2> QED
    BY <2>1, <2>2
<1>2. /\ p + (2 * n - 1) <= len + 1
      /\ \A i \in 1 .. 2 * n - 1 : s[p + i - 1] = Listed(target)[i]
  <2>1. Len(Listed(target)) = 2 * n - 1
    BY ListedIs
  <2> QED
    BY <2>1 DEF Here
<1>3. /\ \A k \in 1 .. n : Listed(target)[2 * k - 1] = target[k]
      /\ \A k \in 1 .. n - 1 : Listed(target)[2 * k] = Comma
      /\ \A k \in 1 .. n : target[k] \in Words \cup Globs
      /\ target \in Seq(Words \cup Globs)
  BY ListedIs, Targets
<1>4. ~At(s, e, Comma)
  OBVIOUS
<1> HIDE DEF n, e, len
<1>5. ASSUME NEW k \in 1 .. n
      PROVE  /\ from(k) \in Nat /\ from(k) <= len /\ s[from(k)] = target[k]
             /\ from(k) + 1 = p + 2 * k - 1
             /\ k < n => /\ from(k) + 1 <= len /\ s[from(k) + 1] = Comma
                         /\ from(k + 1) = from(k) + 1 + 1
             /\ k = n => from(k) + 1 = e
  <2> DEFINE i == 2 * k - 1
             j == 2 * k
  <2>1. i \in 1 .. 2 * n - 1 /\ p + i - 1 = from(k)
    BY <1>1
  <2>2. s[from(k)] = target[k]
    <3> HIDE DEF i
    <3>1. s[p + i - 1] = Listed(target)[i]
      BY <1>2, <2>1
    <3> QED
      BY <1>3, <2>1, <3>1 DEF i
  <2>3. from(k) \in Nat /\ from(k) <= len /\ from(k) + 1 = p + 2 * k - 1
    BY <1>1, <1>2
  <2>4. ASSUME k < n
        PROVE  /\ from(k) + 1 <= len /\ s[from(k) + 1] = Comma
               /\ from(k + 1) = from(k) + 1 + 1
    <3>1. j \in 1 .. 2 * n - 1 /\ p + j - 1 = from(k) + 1 /\ k \in 1 .. n - 1
      BY <1>1, <2>4
    <3>2. s[from(k) + 1] = Comma
      <4> HIDE DEF j
      <4>1. s[p + j - 1] = Listed(target)[j]
        BY <1>2, <3>1
      <4> QED
        BY <1>3, <3>1, <4>1 DEF j
    <3>3. from(k) + 1 <= len /\ from(k + 1) = from(k) + 1 + 1
      BY <1>1, <1>2, <2>4
    <3> QED
      BY <3>2, <3>3
  <2>5. k = n => from(k) + 1 = e
    BY <1>1
  <2> QED
    BY <2>2, <2>3, <2>4, <2>5
<1>6. \A k \in 1 .. n : good(k)
  <2> DEFINE S == {k \in 1 .. n : ~good(k)}
             rank == [k \in 1 .. n |-> n - k]
  <2> SUFFICES ASSUME S # {} PROVE FALSE
    OBVIOUS
  <2>1. rank \in [1 .. n -> Nat] /\ \A k \in 1 .. n : rank[k] = n - k
    BY <1>1
  <2>2. PICK k \in S : \A m \in S : rank[k] <= rank[m]
    <3>1. S \subseteq 1 .. n
      OBVIOUS
    <3> HIDE DEF S, rank
    <3> QED
      BY <2>1, <3>1, LeastRank
  <2> HIDE DEF rank
  <2>3. k \in 1 .. n /\ ~good(k)
    BY <2>2
  <2>4. readAggIdent(s, from(k)) = [names |-> <<target[k]>>, at |-> from(k) + 1]
    <3>1. from(k) \in Nat /\ from(k) <= Len(s) /\ s[from(k)] = target[k]
      BY <1>5, <2>3 DEF len
    <3> HIDE DEF from
    <3> QED
      BY <1>3, <2>3, <3>1, AggIdentRead
  <2>5. CASE k < n
    <3>1. k + 1 \in 1 .. n /\ rank[k + 1] < rank[k] /\ rank[k + 1] \in Nat /\ rank[k] \in Nat
      <4>1. k + 1 \in 1 .. n
        BY <1>1, <2>3, <2>5
      <4>2. rank[k + 1] = n - (k + 1) /\ rank[k] = n - k
        BY <2>1, <2>3, <4>1
      <4> QED
        BY <1>1, <2>3, <4>1, <4>2, SMTT(30)
    <3>2. k + 1 \notin S
      BY <2>2, <3>1
    <3>3. good(k + 1)
      BY <3>1, <3>2
    <3>4. At(s, from(k) + 1, Comma) /\ from(k) \in Nat /\ from(k + 1) = from(k) + 1 + 1
      <4>1. /\ from(k) + 1 <= len /\ s[from(k) + 1] = Comma /\ from(k) \in Nat
            /\ from(k + 1) = from(k) + 1 + 1
        BY <1>5, <2>3, <2>5
      <4> HIDE DEF from
      <4> QED
        BY <4>1 DEF At, len
    <3> HIDE DEF from
    <3>5. Operands(s, from(k)) =
            [names |-> <<target[k]>> \o Operands(s, from(k) + 1 + 1).names,
             at |-> Operands(s, from(k) + 1 + 1).at]
      <4> DEFINE a == from(k)
                 b == a + 1
      <4>1. a \in Nat /\ At(s, b, Comma)
        BY <3>4
      <4>2. readAggIdent(s, a) = [names |-> <<target[k]>>, at |-> b]
        BY <2>4
      <4> HIDE DEF a, b
      <4>3. readAggIdent(s, a).at = b /\ readAggIdent(s, a).names = <<target[k]>>
        BY <4>2
      <4>4. Operands(s, a) = [names |-> <<target[k]>> \o Operands(s, b + 1).names,
                              at |-> Operands(s, b + 1).at]
        BY <4>1, <4>3, OperandsMore
      <4> QED
        BY <4>4 DEF a, b
    <3>6. Operands(s, from(k) + 1 + 1) = [names |-> SubSeq(target, k + 1, n), at |-> e]
      BY <3>3, <3>4
    <3>7. <<target[k]>> \o SubSeq(target, k + 1, n) = SubSeq(target, k, n)
      <4>1. k \in 1 .. Len(target) /\ n \in k .. Len(target)
        BY <1>1, <2>3 DEF n
      <4> QED
        BY <1>3, <4>1, SubSeqRecursiveFirst
    <3>8. /\ Operands(s, from(k) + 1 + 1).names = SubSeq(target, k + 1, n)
          /\ Operands(s, from(k) + 1 + 1).at = e
      BY <3>6
    <3>9. Operands(s, from(k)) = [names |-> SubSeq(target, k, n), at |-> e]
      BY <3>5, <3>7, <3>8
    <3> QED
      BY <2>3, <3>9
  <2>6. CASE k = n
    <3>1. from(k) \in Nat /\ from(k) + 1 = e
      BY <1>5, <2>3, <2>6
    <3> HIDE DEF from
    <3>2. Operands(s, from(k)) = [names |-> <<target[k]>>, at |-> e]
      BY <1>4, <2>4, <3>1, OperandsLast
    <3>3. <<target[k]>> = SubSeq(target, k, n)
      <4>1. k \in 1 .. Len(target) /\ n \in k .. Len(target) /\ n < k + 1
            /\ k + 1 \in Int /\ n \in Int
        BY <1>1, <2>3, <2>6 DEF n
      <4>2. SubSeq(target, k, n) = <<target[k]>> \o SubSeq(target, k + 1, n)
        BY <1>3, <4>1, SubSeqRecursiveFirst
      <4>3. SubSeq(target, k + 1, n) = << >>
        BY <4>1, SubSeqEmpty
      <4>4. <<target[k]>> \in Seq(Words \cup Globs)
        BY <1>3, <2>3, TargetOps DEF Target
      <4> QED
        BY <4>2, <4>3, <4>4, ConcatEmptySeq
    <3> QED
      BY <2>3, <3>2, <3>3
  <2> QED
    BY <1>1, <2>3, <2>5, <2>6
<1>7. good(1) /\ from(1) = p /\ SubSeq(target, 1, n) = target
  <2>1. SubSeq(target, 1, n) = target
    BY <1>3, SubSeqFull DEF n
  <2>2. 1 \in 1 .. n /\ from(1) = p
    BY <1>1
  <2> HIDE DEF good, from
  <2> QED
    BY <1>6, <2>1, <2>2
<1> HIDE DEF from
<1> QED
  BY <1>7 DEF e
-----------------------------------------------------------------------------
(* Names, counts and "all of" are read as they are written. *)
LEMMA PrimaryFaithful ==
  ASSUME NEW t \in Tree,
         \A s \in Text, p \in Nat :
           Here(Written(t), s, p) /\ Stops(s, p + Len(Written(t))) =>
             /\ s[p] # "not"
             /\ Reading(s)[<<"primary", Nil, p>>] = Got(t, Len(Written(t)))
  PROVE  Faithful(t)
<1> SUFFICES ASSUME NEW s \in Text, NEW p \in Nat,
                    Here(Written(t), s, p), Stops(s, p + Len(Written(t)))
             PROVE  ReadAt(s, t, p, Len(Written(t)))
  BY DEF Faithful
<1>1. Len(Written(t)) \in Nat
  BY WrittenIs DEF Text
<1>2. Reading(s)[<<"not", Nil, p>>] = Got(t, Len(Written(t)))
  BY ReadByPrimary
<1> QED
  BY <1>1, <1>2, ReadByNot

LEMMA IdentFaithful ==
  ASSUME NEW t \in Tree, Sentence(t), Root(t).op = "ident"
  PROVE  Faithful(t)
<1> DEFINE name == Root(t).name
<1>1. t = Ident(name) /\ name \in Names /\ Written(t) = <<name>>
  BY Sentences, Texting
<1>2. ASSUME NEW s \in Text, NEW p \in Nat, Here(Written(t), s, p)
      PROVE  /\ s[p] # "not"
             /\ Reading(s)[<<"primary", Nil, p>>] = Got(t, Len(Written(t)))
  <2>1. p <= Len(s) /\ s[p] = name /\ Len(Written(t)) = 1
    BY <1>1, <1>2, HereOne
  <2>2. /\ name \notin DOMAIN Counts /\ name \notin Reserved /\ name \notin Marks
        /\ name \in Words
    BY <1>1, DialectAssumption DEF Words
  <2>3. name # "all" /\ name # "not" /\ name # Open
    BY <2>2, Apart DEF Reserved
  <2>4. ~(p > Len(s))
    BY <2>1 DEF Text
  <2>5. Reading(s)[<<"primary", Nil, p>>] = ParsePrimary(Reading(s), s, p)
    BY Readings, Built
  <2> HIDE DEF name
  <2>6. ParsePrimary(Reading(s), s, p) = Got(Ident(name), 1)
    BY <2>1, <2>2, <2>3, <2>4 DEF ParsePrimary
  <2> QED
    BY <1>1, <2>1, <2>3, <2>5, <2>6
<1> QED
  BY <1>2, PrimaryFaithful

(* An operand is a name, or what stands for a list of them. *)
LEMMA InTargets ==
  ASSUME NEW target \in Target, InTarget(target), target # Them
  PROVE  /\ Len(target) \in Nat /\ Len(target) >= 1
         /\ target[1] \in Words \cup Globs /\ target[1] # "them" /\ target[1] # Open
         /\ Listed(target)[1] = target[1]
         /\ Len(target) = 1 => target = <<target[1]>> /\ Listed(target) = target
         /\ Listed(target) \in Text /\ Len(Listed(target)) \in Nat /\ Len(Listed(target)) >= 1
<1> DEFINE n == Len(target)
           m == Len(Listed(target))
<1>1. n \in Nat \ {0} /\ m = 2 * n - 1 /\ Listed(target) \in Text
  BY ListedIs DEF Text
<1>2. 1 \in 1 .. n /\ n >= 1 /\ m \in Nat /\ m >= 1 /\ 2 * 1 - 1 = 1
  <2> HIDE DEF n, m
  <2> QED
    BY <1>1
<1>3. Listed(target)[1] = target[1]
  BY <1>2, ListedIs
<1>4. target[1] \in Names \cup Globs /\ target[1] \in Words \cup Globs
  BY <1>2, Targets DEF InTarget
<1>5. target[1] # "them" /\ target[1] # Open
  BY <1>4, DialectAssumption, Apart DEF Reserved
<1>6. ASSUME n = 1 PROVE target = <<target[1]>> /\ Listed(target) = target
  <2>1. target = <<target[1]>>
    BY <1>6, Targets
  <2>2. m = 1
    BY <1>1, <1>6
  <2>3. target \in Text
    BY Tokens, SeqMonotonic DEF Target, Text
  <2>4. \A i \in 1 .. m : Listed(target)[i] = target[i]
    BY <1>3, <2>2
  <2>5. Listed(target) = target
    BY <1>1, <1>6, <2>2, <2>3, <2>4, SeqEqual DEF Text
  <2> QED
    BY <2>1, <2>5
<1> QED
  BY <1>1, <1>2, <1>3, <1>4, <1>5, <1>6

(* "of" with a word before it, and an operand after it. *)
LEMMA HereOf ==
  ASSUME NEW x, <<x, "of">> \in Text, NEW o \in Text, Len(o) >= 1, NEW s \in Text, NEW p \in Nat,
         Here(<<x, "of">> \o o, s, p)
  PROVE  /\ Len(<<x, "of">> \o o) = 2 + Len(o) /\ Len(o) \in Nat /\ Len(s) \in Nat
         /\ Here(o, s, p + 2) /\ s[p] = x /\ p + 2 <= Len(s) /\ Word(s, p + 1, "of")
<1>1. Len(<<x, "of">>) = 2
  OBVIOUS
<1>2. /\ Here(<<x, "of">>, s, p) /\ Here(o, s, p + 2)
      /\ Len(<<x, "of">> \o o) = 2 + Len(o) /\ Len(o) \in Nat
  BY <1>1, HereConcat
<1>3. Len(s) \in Nat
  BY DEF Text
<1>4. s[p] = x /\ s[p + 1] = "of"
  <2>1. \A i \in 1 .. 2 : s[p + i - 1] = <<x, "of">>[i]
    BY <1>1, <1>2 DEF Here
  <2>2. s[p + 1 - 1] = x /\ s[p + 2 - 1] = "of" /\ p + 1 - 1 = p /\ p + 2 - 1 = p + 1
    BY <2>1
  <2> QED
    BY <2>2
<1>5. p + 2 <= Len(s) /\ p + 1 < Len(s)
  <2>1. p + 2 + Len(o) <= Len(s) + 1
    BY <1>2 DEF Here
  <2> DEFINE a == Len(o)
             n == Len(s)
  <2>2. a \in Nat /\ n \in Nat /\ a >= 1 /\ p + 2 + a <= n + 1
    BY <1>2, <1>3, <2>1
  <2> HIDE DEF a, n
  <2>3. p + 2 <= n /\ p + 1 < n
    BY <2>2
  <2> QED
    BY <2>3 DEF n
<1> QED
  BY <1>2, <1>3, <1>4, <1>5 DEF Word

LEMMA EveryFaithful ==
  ASSUME NEW t \in Tree, Sentence(t), Root(t).op = "every"
  PROVE  Faithful(t)
<1> DEFINE target == Root(t).names
           o == Operand("every", target)
<1>1. /\ t = Every(target) /\ target \in Target /\ InTarget(target)
      /\ Written(t) = <<"all", "of">> \o o
  BY Sentences, Texting
<1> HIDE DEF target
<1>2. target # Them => o = Listed(target)
  <2> SUFFICES ASSUME target # Them PROVE o = Listed(target)
    OBVIOUS
  <2>1. CASE Len(target) = 1
    BY <1>1, <2>1, OperandIs, InTargets
  <2>2. CASE Len(target) > 1
    BY <1>1, <2>2, OperandIs
  <2> QED
    BY <1>1, <2>1, <2>2, OperandIs
<1>3. /\ target = Them => o = <<"them">>
      /\ o \in Text /\ Len(o) >= 1 /\ <<"all", "of">> \in Text
  <2>1. target = Them => o = <<"them">> /\ Len(<<"them">>) = 1
    BY <1>1, OperandIs
  <2>2. o \in Text /\ <<"all", "of">> \in Text
    BY <1>1, OperandTyped, Texts, Tokens DEF Reserved
  <2>3. Len(o) >= 1
    BY <1>1, <1>2, <2>1, InTargets
  <2> QED
    BY <2>1, <2>2, <2>3
<1> HIDE DEF o
<1>4. ASSUME NEW s \in Text, NEW p \in Nat, Here(Written(t), s, p),
             Stops(s, p + Len(Written(t)))
      PROVE  /\ s[p] # "not"
             /\ Reading(s)[<<"primary", Nil, p>>] = Got(t, Len(Written(t)))
  <2>1. /\ Len(Written(t)) = 2 + Len(o) /\ Len(o) \in Nat /\ Len(s) \in Nat
        /\ Here(o, s, p + 2) /\ s[p] = "all" /\ p + 2 <= Len(s) /\ Word(s, p + 1, "of")
    BY <1>1, <1>3, <1>4, HereOf
  <2>2. Reading(s)[<<"primary", Nil, p>>] = ParseAllOf(s, p)
    <3>1. Reading(s)[<<"primary", Nil, p>>] = ParsePrimary(Reading(s), s, p)
      BY Readings, Built
    <3>2. "all" \notin DOMAIN Counts /\ "all" # Open
      BY DialectAssumption, Apart DEF Reserved
    <3>3. ~(p > Len(s))
      BY <2>1
    <3> QED
      BY <2>1, <3>1, <3>2, <3>3 DEF ParsePrimary
  <2>3. CASE target = Them
    <3>1. At(s, p + 2, "them") /\ Len(o) = 1
      <4>1. o = <<"them">>
        BY <1>3, <2>3
      <4>2. p + 2 <= Len(s) /\ s[p + 2] = "them" /\ Len(o) = 1
        BY <2>1, <4>1, HereOne
      <4> QED
        BY <4>2 DEF At
    <3>2. ParseAllOf(s, p) = Got(Every(Them), 3)
      BY <3>1 DEF ParseAllOf
    <3>3. Len(Written(t)) = 3
      BY <2>1, <3>1
    <3> QED
      BY <1>1, <2>1, <2>2, <2>3, <3>2, <3>3
  <2>4. CASE target # Them
    <3> DEFINE l == Len(o)
               b == p + 2 + l
    <3>1. o = Listed(target) /\ s[p + 2] # "them"
      <4>1. s[p + 2 + 1 - 1] = o[1]
        <5>1. 1 \in 1 .. Len(o)
          BY <1>3, <2>1
        <5> QED
          BY <2>1, <5>1 DEF Here
      <4>2. p + 2 + 1 - 1 = p + 2
        OBVIOUS
      <4> QED
        BY <1>1, <1>2, <2>4, <4>1, <4>2, InTargets
    <3>2. ~At(s, p + 2, "them")
      BY <3>1 DEF At
    <3>3. p + Len(Written(t)) = b /\ b - p = 2 + l
      BY <2>1
    <3>4. ~At(s, b, Comma)
      <4>1. Stops(s, b)
        BY <1>4, <3>3
      <4>2. b \in Nat /\ Len(s) \in Nat
        BY <2>1
      <4> HIDE DEF b
      <4> QED
        BY <4>1, <4>2, Apart DEF Stops, At
    <3>5. Operands(s, p + 2) = [names |-> target, at |-> b]
      <4>1. p + 2 \in Nat
        OBVIOUS
      <4> QED
        BY <1>1, <2>1, <2>4, <3>1, <3>4, <4>1, ListRead
    <3>6. Operands(s, p + 2).names = target /\ Operands(s, p + 2).at = b
      BY <3>5
    <3> HIDE DEF b
    <3>7. ParseAllOf(s, p) = Got(Every(target), b - p)
      BY <3>2, <3>6 DEF ParseAllOf
    <3> QED
      BY <1>1, <2>1, <2>2, <3>3, <3>7
  <2> QED
    BY <2>3, <2>4
<1> QED
  BY <1>4, PrimaryFaithful

LEMMA OneOfList ==
  ASSUME NEW s \in Text, NEW p \in Nat, Word(s, p + 1, "of"),
         ~At(s, p + 2, "them"), At(s, p + 2, Open), NEW e \in Nat,
         After(s, Operands(s, p + 2 + 1).at, Close) = e
  PROVE  ParseOneOf(s, p) = Got(Some(s[p], Operands(s, p + 2 + 1).names), e - p)
BY DEF ParseOneOf

LEMMA SomeFaithful ==
  ASSUME NEW t \in Tree, Sentence(t), Root(t).op = "some"
  PROVE  Faithful(t)
<1> DEFINE target == Root(t).names
           count == Root(t).count
           o == Operand("some", target)
<1>1. /\ t = Some(count, target) /\ target \in Target /\ InTarget(target)
      /\ count \in DOMAIN Counts /\ Written(t) = <<count, "of">> \o o
  BY Sentences, Texting
<1> HIDE DEF target, count
<1>2. /\ target = Them => o = <<"them">>
      /\ Len(target) = 1 => o = <<target[1]>> /\ target = <<target[1]>>
      /\ Len(target) > 1 => o = <<Open>> \o Listed(target) \o <<Close>>
      /\ target = Them \/ Len(target) = 1 \/ Len(target) > 1
  BY <1>1, OperandIs, Targets
<1>3. o \in Text /\ <<count, "of">> \in Text /\ <<Open>> \in Text /\ <<Close>> \in Text
  BY <1>1, OperandTyped, Texts, Tokens, Apart DEF Reserved
<1> HIDE DEF o
<1>4. Len(o) >= 1
  <2>1. CASE target = Them
    BY <1>2, <2>1
  <2>2. CASE Len(target) = 1
    BY <1>2, <2>2
  <2>3. CASE Len(target) > 1
    <3>1. Listed(target) \in Text /\ Len(Listed(target)) \in Nat
      BY <1>1, <2>3, InTargets, Targets
    <3>2. Len(<<Open>>) = 1 /\ Len(<<Close>>) = 1
      OBVIOUS
    <3>3. /\ <<Open>> \o Listed(target) \in Text
          /\ Len(<<Open>> \o Listed(target)) = 1 + Len(Listed(target))
          /\ Len((<<Open>> \o Listed(target)) \o <<Close>>)
               = Len(<<Open>> \o Listed(target)) + 1
      BY <1>3, <3>1, <3>2, ConcatProperties DEF Text
    <3> QED
      BY <1>2, <2>3, <3>1, <3>3
  <2> QED
    BY <1>2, <2>1, <2>2, <2>3
<1>5. ASSUME NEW s \in Text, NEW p \in Nat, Here(Written(t), s, p)
      PROVE  /\ s[p] # "not"
             /\ Reading(s)[<<"primary", Nil, p>>] = Got(t, Len(Written(t)))
  <2> DEFINE q == p + 2
  <2>1. /\ Len(Written(t)) = 2 + Len(o) /\ Len(o) \in Nat /\ Len(s) \in Nat
        /\ Here(o, s, q) /\ s[p] = count /\ q <= Len(s) /\ Word(s, p + 1, "of")
    BY <1>1, <1>3, <1>4, <1>5, HereOf
  <2>2. Reading(s)[<<"primary", Nil, p>>] = ParseOneOf(s, p) /\ count # "not"
    <3>1. Reading(s)[<<"primary", Nil, p>>] = ParsePrimary(Reading(s), s, p)
      BY Readings, Built
    <3>2. count # "all" /\ count # "not" /\ count # Open
      BY <1>1, DialectAssumption, Apart DEF Reserved
    <3>3. ~(p > Len(s))
      BY <2>1
    <3> QED
      BY <1>1, <2>1, <3>1, <3>2, <3>3 DEF ParsePrimary
  <2> DEFINE one == readAggIdent(s, q)
             list == Operands(s, q + 1)
  <2>3. ParseOneOf(s, p) =
          CASE At(s, q, "them") -> Got(Some(count, Them), q + 1 - p)
            [] At(s, q, Open) -> Got(Some(count, list.names), After(s, list.at, Close) - p)
            [] OTHER -> Got(Some(count, one.names), one.at - p)
    BY <2>1 DEF ParseOneOf
  <2> HIDE DEF one, list, q
  <2>4. q \in Nat /\ q = p + 2 /\ q + 1 - p = 3
    BY DEF q
  <2>5. CASE target = Them
    <3>1. At(s, q, "them") /\ ~At(s, q, Open) /\ Len(o) = 1
      <4>1. o = <<"them">>
        BY <1>2, <2>5
      <4>2. q <= Len(s) /\ s[q] = "them" /\ Len(o) = 1
        BY <2>1, <4>1, HereOne
      <4> QED
        BY <4>2, Apart DEF At
    <3>2. ParseOneOf(s, p) = Got(Some(count, Them), 3)
      BY <2>3, <2>4, <3>1
    <3>3. Len(Written(t)) = 3
      BY <2>1, <3>1
    <3> QED
      BY <1>1, <2>1, <2>2, <2>5, <3>2, <3>3
  <2>6. CASE Len(target) = 1
    <3>0. target # Them
      <4>1. target = Them <=> Len(target) = 0
        BY <1>1, Targets
      <4> QED
        BY <2>6, <4>1
    <3>1. q <= Len(s) /\ s[q] = target[1] /\ Len(o) = 1
      <4>1. o = <<target[1]>>
        BY <1>2, <2>6
      <4> QED
        BY <2>1, <4>1, HereOne
    <3>2. ~At(s, q, "them") /\ ~At(s, q, Open) /\ s[q] \in Words \cup Globs
      BY <1>1, <3>0, <3>1, InTargets DEF At
    <3>3. one.names = target /\ one.at = q + 1
      <4>1. one = [names |-> <<s[q]>>, at |-> q + 1]
        BY <2>4, <3>1, <3>2, AggIdentRead DEF one
      <4> QED
        BY <1>2, <2>6, <3>1, <4>1
    <3>4. ParseOneOf(s, p) = Got(Some(count, target), 3)
      BY <2>3, <2>4, <3>2, <3>3
    <3>5. Len(Written(t)) = 3
      BY <2>1, <3>1
    <3> QED
      BY <1>1, <2>1, <2>2, <3>4, <3>5
  <2>7. CASE Len(target) > 1
    <3> DEFINE l == Len(Listed(target))
               b == q + 1 + l
    <3>0. target # Them /\ Listed(target) \in Text /\ l \in Nat
      BY <1>1, <2>7, InTargets, Targets
    <3>1. Here(<<Open>> \o Listed(target) \o <<Close>>, s, q)
      BY <1>2, <2>1, <2>7
    <3>2. /\ Here(<<Open>> \o Listed(target), s, q)
          /\ b \in Nat /\ b <= Len(s) /\ s[b] = Close /\ Len(o) = l + 2
      <4>1. /\ <<Open>> \o Listed(target) \in Text /\ Len(<<Close>>) = 1 /\ Len(<<Open>>) = 1
        BY <1>3, <3>0, Texts
      <4>2. /\ Here(<<Open>> \o Listed(target), s, q)
            /\ Here(<<Close>>, s, q + Len(<<Open>> \o Listed(target)))
            /\ Len(<<Open>> \o Listed(target) \o <<Close>>)
                 = Len(<<Open>> \o Listed(target)) + 1
        BY <1>3, <3>1, <4>1, HereConcat
      <4>3. Len(<<Open>> \o Listed(target)) = 1 + l
        BY <1>3, <3>0, <4>1, <4>2, HereConcat
      <4>4. q + Len(<<Open>> \o Listed(target)) = b
        BY <2>4, <3>0, <4>3
      <4>5. Len(o) = l + 2
        BY <1>2, <2>7, <3>0, <4>2, <4>3
      <4> QED
        BY <4>2, <4>4, <4>5, HereOne
    <3>3. s[q] = Open /\ Here(Listed(target), s, q + 1)
      BY <1>3, <3>0, <3>2, HerePair
    <3>4. ~At(s, q, "them") /\ At(s, q, Open)
      BY <2>1, <3>3, Apart DEF At
    <3>5. list.names = target /\ list.at = b
      <4>1. ~At(s, b, Comma)
        BY <3>2, Apart DEF At
      <4>2. q + 1 \in Nat
        BY <2>4
      <4>3. list = [names |-> target, at |-> b]
        BY <1>1, <3>0, <3>3, <4>1, <4>2, ListRead DEF list
      <4> QED
        BY <4>3
    <3>6. After(s, b, Close) = b + 1
      BY <3>2 DEF After, At
    <3>7. b + 1 - p = l + 4 /\ Len(Written(t)) = l + 4
      BY <2>1, <2>4, <3>0, <3>2
    <3> HIDE DEF b, l
    <3>8. ParseOneOf(s, p) = Got(Some(count, target), b + 1 - p)
      <4>1. s[p] = count /\ p + 2 = q /\ p + 3 = q + 1
        BY <2>1, <2>4
      <4>2. b + 1 \in Nat
        BY <2>4, <3>0 DEF b, l
      <4>3. /\ Operands(s, p + 2 + 1).names = target /\ Operands(s, p + 2 + 1).at = b
            /\ ~At(s, p + 2, "them") /\ At(s, p + 2, Open)
        BY <2>4, <3>4, <3>5, Zenon DEF list
      <4> HIDE DEF list
      <4>4. ParseOneOf(s, p) = Got(Some(s[p], target), b + 1 - p)
        <5>1. ParseOneOf(s, p) = Got(Some(s[p], Operands(s, p + 2 + 1).names), b + 1 - p)
          BY <2>1, <3>2, <3>6, <4>2, <4>3, OneOfList
        <5> QED
          BY <4>3, <5>1
      <4> QED
        BY <4>1, <4>4
    <3> QED
      BY <1>1, <2>1, <2>2, <3>7, <3>8
  <2> QED
    BY <1>2, <2>5, <2>6, <2>7
<1> QED
  BY <1>5, PrimaryFaithful
-----------------------------------------------------------------------------
(* Operators: a subtree is read as its place asks for. *)
LEMMA PlacedLength ==
  ASSUME NEW u \in Tree, NEW n
  PROVE  /\ Len(Placed(u, n)) \in Nat /\ Len(Written(u)) \in Nat
         /\ Len(Written(u)) <= Len(Placed(u, n))
<1>1. Written(u) \in Text /\ Placed(u, n) \in Text
  BY PlacedTyped
<1>2. <<Open>> \in Text /\ <<Close>> \in Text /\ Len(<<Open>>) = 1 /\ Len(<<Close>>) = 1
  BY Texts, Tokens, Apart
<1>3. /\ <<Open>> \o Written(u) \in Text
      /\ Len(<<Open>> \o Written(u)) = 1 + Len(Written(u))
  BY <1>1, <1>2, ConcatProperties DEF Text
<1>4. Len((<<Open>> \o Written(u)) \o <<Close>>) = Len(<<Open>> \o Written(u)) + 1
  BY <1>2, <1>3, ConcatProperties DEF Text
<1>5. Len(Written(u)) \in Nat /\ Len(Placed(u, n)) \in Nat
  BY <1>1 DEF Text
<1> QED
  BY <1>3, <1>4, <1>5 DEF Placed

LEMMA PlacedInNot ==
  ASSUME NEW u \in Tree, Faithful(u), NEW s \in Text, NEW p,
         Here(Placed(u, 3), s, p), Stops(s, p + Len(Placed(u, 3)))
  PROVE  Reading(s)[<<"not", Nil, p>>] = Got(u, Len(Placed(u, 3)))
<1>1. CASE Strength(u) < 3
  <2>1. Placed(u, 3) = <<Open>> \o Written(u) \o <<Close>>
    BY <1>1 DEF Placed
  <2> QED
    BY <2>1, Parenthesized
<1>2. CASE ~(Strength(u) < 3)
  <2>1. Placed(u, 3) = Written(u) /\ Strength(u) >= 3
    BY <1>2, Strengths DEF Placed
  <2>2. p \in Nat
    BY DEF Here
  <2> QED
    BY <2>1, <2>2 DEF Faithful, ReadAt
<1> QED
  BY <1>1, <1>2

LEMMA PlacedInAnd ==
  ASSUME NEW u \in Tree, Faithful(u), NEW s \in Text, NEW p,
         Here(Placed(u, 2), s, p), Stops(s, p + Len(Placed(u, 2)))
  PROVE  Reading(s)[<<"and", Nil, p>>] =
           Then(Len(Placed(u, 2)), Reading(s)[<<"andRest", u, p + Len(Placed(u, 2))>>])
<1>0. p \in Nat /\ Len(Placed(u, 2)) \in Nat
  BY PlacedLength DEF Here
<1>1. CASE Strength(u) < 2
  <2>1. Placed(u, 2) = <<Open>> \o Written(u) \o <<Close>>
    BY <1>1 DEF Placed
  <2>2. Reading(s)[<<"not", Nil, p>>] = Got(u, Len(Placed(u, 2)))
    BY <2>1, Parenthesized
  <2> QED
    BY <1>0, <2>2, NotThenAnd
<1>2. CASE ~(Strength(u) < 2)
  <2>1. Placed(u, 2) = Written(u) /\ Strength(u) >= 2
    BY <1>2, Strengths DEF Placed
  <2> QED
    BY <1>0, <2>1 DEF Faithful, ReadAt
<1> QED
  BY <1>1, <1>2

LEMMA PlacedInOr ==
  ASSUME NEW u \in Tree, Faithful(u), NEW s \in Text, NEW p,
         Here(Placed(u, 1), s, p), Stops(s, p + Len(Placed(u, 1))),
         ~Word(s, p + Len(Placed(u, 1)), "and")
  PROVE  Reading(s)[<<"or", Nil, p>>] =
           Then(Len(Placed(u, 1)), Reading(s)[<<"orRest", u, p + Len(Placed(u, 1))>>])
<1>1. p \in Nat
  BY DEF Here
<1>2. Placed(u, 1) = Written(u)
  BY Strengths DEF Placed
<1> QED
  BY <1>1, <1>2 DEF Faithful, ReadAt

LEMMA InfixLength ==
  ASSUME NEW x, <<x>> \in Text, NEW u \in Text, NEW v \in Text
  PROVE  Len(u \o <<x>> \o v) >= 1 /\ Len(<<x>> \o v) >= 1
<1>1. Len(<<x>>) = 1
  OBVIOUS
<1>2. u \o <<x>> \in Text /\ Len(u \o <<x>>) = Len(u) + 1
  BY <1>1, ConcatProperties DEF Text
<1>3. Len((u \o <<x>>) \o v) = Len(u) + 1 + Len(v)
  BY <1>2, ConcatProperties DEF Text
<1>4. Len(<<x>> \o v) = 1 + Len(v)
  BY <1>1, ConcatProperties DEF Text
<1>5. Len(u) \in Nat /\ Len(v) \in Nat
  BY DEF Text
<1> QED
  BY <1>3, <1>4, <1>5

LEMMA SentenceWritten ==
  ASSUME NEW t \in Tree, Sentence(t)
  PROVE  Len(Written(t)) >= 1
<1>1. t # Nil
  BY Sentences
<1>2. \A u \in Tree : \A n : Placed(u, n) \in Text
  BY PlacedTyped
<1>3. Root(t).op \in {"and", "or"} => Left(t) \in Tree /\ Right(t) \in Tree
  BY <1>1, Subtrees
<1>4. <<"and">> \in Text /\ <<"or">> \in Text /\ <<"not">> \in Text
  BY Texts, Tokens DEF Reserved
<1>5. CASE Root(t).op = "ident"
  <2>1. Written(t) = <<Root(t).name>>
    BY <1>1, <1>5, Texting
  <2> QED
    BY <2>1
<1>6. CASE Root(t).op = "and"
  <2>1. Placed(Left(t), 2) \in Text /\ Placed(Right(t), 3) \in Text
    BY <1>2, <1>3, <1>6
  <2> QED
    BY <1>1, <1>4, <1>6, <2>1, Texting, InfixLength
<1>7. CASE Root(t).op = "or"
  <2>1. Placed(Left(t), 1) \in Text /\ Placed(Right(t), 2) \in Text
    BY <1>2, <1>3, <1>7
  <2> QED
    BY <1>1, <1>4, <1>7, <2>1, Texting, InfixLength
<1>8. CASE Root(t).op = "not"
  <2>1. Child(t) \in Tree
    BY <1>1, Subtrees
  <2>2. Placed(Child(t), 3) \in Text
    BY <1>2, <2>1
  <2> QED
    BY <1>1, <1>4, <1>8, <2>2, Texting, InfixLength
<1>9. ASSUME NEW x \in {"all"} \cup DOMAIN Counts, NEW o \in Text
      PROVE  Len(<<x, "of">> \o o) >= 1
  <2>1. <<x, "of">> \in Text /\ Len(<<x, "of">>) = 2
    BY Texts, Tokens DEF Reserved
  <2> QED
    BY <2>1, ConcatProperties DEF Text
<1>10. CASE Root(t).op = "some"
  BY <1>1, <1>9, <1>10, Sentences, Texting, OperandTyped
<1>11. CASE Root(t).op = "every"
  BY <1>1, <1>9, <1>11, Sentences, Texting, OperandTyped
<1> QED
  BY <1>5, <1>6, <1>7, <1>8, <1>10, <1>11, Sentences

(* The word at m, before something, is an operator. *)
LEMMA BeforeText ==
  ASSUME NEW s \in Text, NEW m \in Nat, NEW v \in Text, Len(v) >= 1, Here(v, s, m + 1),
         NEW w, s[m] = w
  PROVE  Word(s, m, w)
<1>1. Len(v) \in Nat /\ Len(s) \in Nat
  BY DEF Text
<1> QED
  BY <1>1 DEF Here, Word
LEMMA NotFaithful ==
  ASSUME NEW t \in Tree, Sentence(t), Root(t).op = "not", Faithful(Child(t))
  PROVE  Faithful(t)
<1> DEFINE u == Child(t)
<1>1. u \in Tree /\ t = Negation(u) /\ Written(t) = <<"not">> \o Placed(u, 3) /\ Sentence(u)
  BY Sentences, Subtrees, Texting
<1> SUFFICES ASSUME NEW s \in Text, NEW p \in Nat,
                    Here(Written(t), s, p), Stops(s, p + Len(Written(t)))
             PROVE  ReadAt(s, t, p, Len(Written(t)))
  BY DEF Faithful
<1> DEFINE j == Len(Placed(u, 3))
<1> HIDE DEF u
<1>2. Placed(u, 3) \in Text /\ <<"not">> \in Text
  BY <1>1, PlacedTyped, Texts, Tokens DEF Reserved
<1>3. /\ s[p] = "not" /\ Here(Placed(u, 3), s, p + 1)
      /\ Len(Written(t)) = 1 + j /\ j \in Nat
  BY <1>1, <1>2, HerePair
<1>4. j >= 1
  BY <1>1, SentenceWritten, PlacedLength
<1>5. Word(s, p, "not")
  BY <1>2, <1>3, <1>4, BeforeText
<1>6. Stops(s, p + 1 + j)
  <2>1. p + Len(Written(t)) = p + 1 + j
    BY <1>3
  <2> QED
    BY <2>1
<1>7. Reading(s)[<<"not", Nil, p + 1>>] = Got(u, j)
  BY <1>1, <1>3, <1>6, PlacedInNot DEF u
<1>8. Reading(s)[<<"not", Nil, p>>] = ParseNot(Reading(s), s, p)
  BY Readings, Built
<1> HIDE DEF j
<1>9. Reading(s)[<<"not", Nil, p>>] = Got(t, 1 + j)
  <2>1. Got(u, j).tree = u /\ Got(u, j).took = j
    BY DEF Got
  <2> QED
    BY <1>1, <1>5, <1>7, <1>8, <2>1 DEF ParseNot
<1> QED
  BY <1>3, <1>9, ReadByNot

LEMMA AndFaithful ==
  ASSUME NEW t \in Tree, Sentence(t), Root(t).op = "and",
         Faithful(Left(t)), Faithful(Right(t))
  PROVE  Faithful(t)
<1> DEFINE a == Left(t)
           b == Right(t)
<1>1. /\ a \in Tree /\ b \in Tree /\ t = Both(a, b) /\ Sentence(b)
      /\ Written(t) = Placed(a, 2) \o <<"and">> \o Placed(b, 3)
  BY Sentences, Subtrees, Texting
<1> SUFFICES ASSUME NEW s \in Text, NEW p \in Nat,
                    Here(Written(t), s, p), Stops(s, p + Len(Written(t)))
             PROVE  ReadAt(s, t, p, Len(Written(t)))
  BY DEF Faithful
<1> DEFINE i == Len(Placed(a, 2))
           j == Len(Placed(b, 3))
           m == p + i
<1> HIDE DEF a, b
<1>2. Placed(a, 2) \in Text /\ Placed(b, 3) \in Text /\ <<"and">> \in Text
  BY <1>1, PlacedTyped, Texts, Tokens DEF Reserved
<1>3. /\ Here(Placed(a, 2), s, p) /\ m \in Nat /\ m <= Len(s) /\ s[m] = "and"
      /\ Here(Placed(b, 3), s, m + 1)
      /\ Len(Written(t)) = i + 1 + j /\ i \in Nat /\ j \in Nat
  BY <1>1, <1>2, HereInfix
<1>4. j >= 1
  BY <1>1, SentenceWritten, PlacedLength
<1>5. Word(s, m, "and")
  BY <1>2, <1>3, <1>4, BeforeText
<1>6. Stops(s, m + 1 + j)
  <2>1. p + Len(Written(t)) = m + 1 + j
    BY <1>3
  <2> QED
    BY <2>1
<1>7. Reading(s)[<<"and", Nil, p>>] = Then(i, Reading(s)[<<"andRest", a, m>>])
  <2>1. Stops(s, m)
    BY <1>3 DEF Stops
  <2> QED
    BY <1>1, <1>3, <2>1, PlacedInAnd DEF a
<1>8. Reading(s)[<<"not", Nil, m + 1>>] = Got(b, j)
  BY <1>1, <1>3, <1>6, PlacedInNot DEF b
<1>9. Reading(s)[<<"andRest", a, m>>] = AndRest(Reading(s), s, a, m)
  BY <1>1, <1>3, Readings
<1> HIDE DEF i, j, m
<1>10. AndRest(Reading(s), s, a, m) =
         Then(1 + j, Reading(s)[<<"andRest", Both(a, b), m + (1 + j)>>])
  <2>1. Got(b, j).tree = b /\ Got(b, j).took = j
    BY DEF Got
  <2> QED
    BY <1>5, <1>8, <2>1 DEF AndRest
<1>11. i + (1 + j) = Len(Written(t)) /\ m + (1 + j) = p + Len(Written(t))
  BY <1>3 DEF m
<1>12. Reading(s)[<<"and", Nil, p>>] =
         Then(Len(Written(t)), Reading(s)[<<"andRest", t, p + Len(Written(t))>>])
  <2> DEFINE k == Len(Written(t))
             r == Reading(s)[<<"andRest", t, p + k>>]
  <2>1. k \in Nat /\ p + k \in Nat
    BY <1>3
  <2>2. r \in Reads
    BY <2>1, ReadingTyped DEF Kinds
  <2>3. Reading(s)[<<"andRest", a, m>>] = Then(1 + j, r)
    BY <1>1, <1>9, <1>10, <1>11
  <2> HIDE DEF r, k
  <2>4. Then(i, Then(1 + j, r)) = Then(i + (1 + j), r)
    <3>1. 1 + j \in Nat
      BY <1>3
    <3> QED
      BY <1>3, <2>2, <3>1, ThenThen
  <2> QED
    BY <1>7, <1>11, <2>3, <2>4 DEF r, k
<1>13. Len(Written(t)) \in Nat /\ Strength(t) = 2
  BY <1>3, Strengths
<1> QED
  BY <1>12, <1>13, ReadByAnd

LEMMA OrFaithful ==
  ASSUME NEW t \in Tree, Sentence(t), Root(t).op = "or",
         Faithful(Left(t)), Faithful(Right(t))
  PROVE  Faithful(t)
<1> DEFINE a == Left(t)
           b == Right(t)
<1>1. /\ a \in Tree /\ b \in Tree /\ t = Either(a, b) /\ Sentence(b)
      /\ Written(t) = Placed(a, 1) \o <<"or">> \o Placed(b, 2)
  BY Sentences, Subtrees, Texting
<1> SUFFICES ASSUME NEW s \in Text, NEW p \in Nat,
                    Here(Written(t), s, p), Stops(s, p + Len(Written(t))),
                    ~Word(s, p + Len(Written(t)), "and")
             PROVE  Reading(s)[<<"or", Nil, p>>] =
                      Then(Len(Written(t)), Reading(s)[<<"orRest", t, p + Len(Written(t))>>])
  BY Strengths DEF Faithful, ReadAt
<1> DEFINE i == Len(Placed(a, 1))
           j == Len(Placed(b, 2))
           m == p + i
<1> HIDE DEF a, b
<1>2. Placed(a, 1) \in Text /\ Placed(b, 2) \in Text /\ <<"or">> \in Text
  BY <1>1, PlacedTyped, Texts, Tokens DEF Reserved
<1>3. /\ Here(Placed(a, 1), s, p) /\ m \in Nat /\ m <= Len(s) /\ s[m] = "or"
      /\ Here(Placed(b, 2), s, m + 1)
      /\ Len(Written(t)) = i + 1 + j /\ i \in Nat /\ j \in Nat
  BY <1>1, <1>2, HereInfix
<1>4. j >= 1
  BY <1>1, SentenceWritten, PlacedLength
<1>5. Word(s, m, "or")
  BY <1>2, <1>3, <1>4, BeforeText
<1>6. Stops(s, m + 1 + j) /\ ~Word(s, m + 1 + j, "and")
  <2>1. p + Len(Written(t)) = m + 1 + j
    BY <1>3
  <2> QED
    BY <2>1
<1>7. Reading(s)[<<"or", Nil, p>>] = Then(i, Reading(s)[<<"orRest", a, m>>])
  <2>1. Stops(s, m) /\ ~Word(s, m, "and")
    BY <1>3 DEF Stops, Word
  <2> QED
    BY <1>1, <1>3, <2>1, PlacedInOr DEF a
<1>8. Reading(s)[<<"and", Nil, m + 1>>] = Got(b, j)
  <2>1. m + 1 \in Nat
    BY <1>3
  <2>2. Reading(s)[<<"and", Nil, m + 1>>] =
          Then(j, Reading(s)[<<"andRest", b, m + 1 + j>>])
    BY <1>1, <1>3, <1>6, PlacedInAnd DEF b
  <2> QED
    BY <1>1, <1>3, <1>6, <2>1, <2>2, AndEnds, SMTT(30)
<1>9. Reading(s)[<<"orRest", a, m>>] = OrRest(Reading(s), s, a, m)
  BY <1>1, <1>3, Readings
<1> HIDE DEF i, j, m
<1>10. OrRest(Reading(s), s, a, m) =
         Then(1 + j, Reading(s)[<<"orRest", Either(a, b), m + (1 + j)>>])
  <2>1. Got(b, j).tree = b /\ Got(b, j).took = j
    BY DEF Got
  <2> QED
    BY <1>5, <1>8, <2>1 DEF OrRest
<1>11. i + (1 + j) = Len(Written(t)) /\ m + (1 + j) = p + Len(Written(t))
  BY <1>3 DEF m
<1> DEFINE k == Len(Written(t))
           r == Reading(s)[<<"orRest", t, p + k>>]
<1>12. k \in Nat /\ p + k \in Nat
  BY <1>3
<1>13. r \in Reads
  BY <1>12, ReadingTyped DEF Kinds
<1>14. Reading(s)[<<"orRest", a, m>>] = Then(1 + j, r)
  BY <1>1, <1>9, <1>10, <1>11
<1> HIDE DEF r, k
<1>15. Then(i, Then(1 + j, r)) = Then(i + (1 + j), r)
  <2>1. 1 + j \in Nat
    BY <1>3
  <2> QED
    BY <1>3, <1>13, <2>1, ThenThen
<1> QED
  BY <1>7, <1>11, <1>14, <1>15 DEF r, k

(* Every sentence, however deep, is read as it is written. *)
LEMMA SentencesFaithful ==
  ASSUME NEW t \in Tree, Sentence(t)
  PROVE  Faithful(t)
<1> DEFINE S == {u \in Tree : Sentence(u) /\ ~Faithful(u)}
<1> SUFFICES S = {}
  OBVIOUS
<1> SUFFICES ASSUME S # {} PROVE FALSE
  OBVIOUS
<1>1. PICK u \in S : \A v \in S : Len(u) <= Len(v)
  <2> HIDE DEF S
  <2>1. S \subseteq Tree
    BY DEF S
  <2> QED
    BY <2>1, ShortestTree
<1>2. u \in Tree /\ Sentence(u) /\ ~Faithful(u) /\ u # Nil
  BY Sentences
<1>3. ASSUME NEW v \in Tree, Sentence(v), Len(v) < Len(u) PROVE Faithful(v)
  <2>1. Len(u) \in Nat /\ Len(v) \in Nat
    BY <1>2 DEF Tree
  <2>2. ~(Len(u) <= Len(v))
    BY <1>3, <2>1
  <2> QED
    BY <1>1, <1>3, <2>2
<1> HIDE DEF S
<1>4. CASE Root(u).op = "ident"
  BY <1>2, <1>4, IdentFaithful
<1>5. CASE Root(u).op = "some"
  BY <1>2, <1>5, SomeFaithful
<1>6. CASE Root(u).op = "every"
  BY <1>2, <1>6, EveryFaithful
<1>7. CASE Root(u).op = "not"
  <2>1. Child(u) \in Tree /\ Len(Child(u)) < Len(u) /\ Sentence(Child(u))
    BY <1>2, <1>7, Subtrees, Sentences
  <2> QED
    BY <1>2, <1>3, <1>7, <2>1, NotFaithful
<1>8. CASE Root(u).op = "and"
  <2>1. /\ Left(u) \in Tree /\ Len(Left(u)) < Len(u) /\ Sentence(Left(u))
        /\ Right(u) \in Tree /\ Len(Right(u)) < Len(u) /\ Sentence(Right(u))
    BY <1>2, <1>8, Subtrees, Sentences
  <2> QED
    BY <1>2, <1>3, <1>8, <2>1, AndFaithful
<1>9. CASE Root(u).op = "or"
  <2>1. /\ Left(u) \in Tree /\ Len(Left(u)) < Len(u) /\ Sentence(Left(u))
        /\ Right(u) \in Tree /\ Len(Right(u)) < Len(u) /\ Sentence(Right(u))
    BY <1>2, <1>9, Subtrees, Sentences
  <2> QED
    BY <1>2, <1>3, <1>9, <2>1, OrFaithful
<1> QED
  BY <1>2, <1>4, <1>5, <1>6, <1>7, <1>8, <1>9, Sentences

(* parseCondition (rule.go) reads the text of any sentence of the dialect,
   of whatever depth, as the tree it was written from, and to its end: the
   precedence of the operators, parentheses, lists and globs included. *)
THEOREM RoundTrip ==
  ASSUME NEW t \in Tree, Sentence(t)
  PROVE  parseCondition(Written(t)) = Got(t, Len(Written(t)))
<1> DEFINE s == Written(t)
           k == Len(s)
<1>1. s \in Text /\ k \in Nat
  BY WrittenIs DEF Text
<1>2. Here(s, s, 1) /\ Stops(s, 1 + k) /\ ~Word(s, 1 + k, "and") /\ ~Word(s, 1 + k, "or")
  BY <1>1 DEF Here, Stops, Word
<1>3. ReadAt(s, t, 1, k)
  BY <1>1, <1>2, SentencesFaithful DEF Faithful
<1>4. Reading(s)[<<"or", Nil, 1>>] = Then(k, Reading(s)[<<"orRest", t, 1 + k>>])
  BY <1>2, <1>3 DEF ReadAt
<1>5. Reading(s)[<<"or", Nil, 1>>] = Got(t, k)
  BY <1>1, <1>2, <1>4, OrEnds
<1> QED
  BY <1>5 DEF parseCondition
-----------------------------------------------------------------------------
(* The matcher. What the names of an aggregate stand for. *)
Ranged(name, defined) == IF name \in Globs THEN Covers[name] \cap defined ELSE {name}

LEMMA Expanded ==
  ASSUME NEW names, NEW det
  PROVE  LET E == expandIdentNames(names, det)
         IN  /\ \A x \in E : x = <<x[1], x[2]>>
             /\ names = Them =>
                  \A k, n : <<k, n>> \in E <=> k = 0 /\ n \in DOMAIN det \ Filters
             /\ names # Them =>
                  \A k, n : <<k, n>> \in E <=>
                              k \in DOMAIN names /\ n \in Ranged(names[k], DOMAIN det)
<1> DEFINE E == expandIdentNames(names, det)
<1>1. CASE names = Them
  <2>1. E = {0} \X (DOMAIN det \ Filters)
    BY <1>1 DEF expandIdentNames, Them
  <2> HIDE DEF E
  <2>2. /\ \A x \in E : x = <<x[1], x[2]>>
        /\ \A k, n : <<k, n>> \in E <=> k = 0 /\ n \in DOMAIN det \ Filters
    BY <2>1
  <2> QED
    BY <1>1, <2>2 DEF E
<1>2. CASE names # Them
  <2>1. E = UNION {{k} \X Ranged(names[k], DOMAIN det) : k \in DOMAIN names}
    BY <1>2 DEF expandIdentNames, Them, Ranged
  <2> HIDE DEF E
  <2>2. \A x \in E : x = <<x[1], x[2]>>
    BY <2>1
  <2>3. \A k, n : <<k, n>> \in E <=> k \in DOMAIN names /\ n \in Ranged(names[k], DOMAIN det)
    BY <2>1
  <2> QED
    BY <1>2, <2>2, <2>3 DEF E
<1> QED
  BY <1>1, <1>2

LEMMA MeantIs ==
  ASSUME NEW names, NEW det
  PROVE  Meant(names, DOMAIN det) = {x[2] : x \in expandIdentNames(names, det)}
<1> DEFINE E == expandIdentNames(names, det)
           M == Meant(names, DOMAIN det)
<1>1. \A x \in E : x = <<x[1], x[2]>>
  BY Expanded
<1>2. CASE names = Them
  <2>1. \A k, n : <<k, n>> \in E <=> k = 0 /\ n \in DOMAIN det \ Filters
    BY <1>2, Expanded
  <2>2. M = DOMAIN det \ Filters
    BY <1>2 DEF Meant
  <2> HIDE DEF E, M
  <2>3. ASSUME NEW n \in M PROVE n \in {x[2] : x \in E}
    <3>1. <<0, n>> \in E /\ <<0, n>>[2] = n
      BY <2>1, <2>2
    <3> QED
      BY <3>1
  <2>4. ASSUME NEW x \in E PROVE x[2] \in M
    BY <1>1, <2>1, <2>2
  <2> QED
    BY <2>3, <2>4 DEF M, E
<1>3. CASE names # Them
  <2>1. \A k, n : <<k, n>> \in E <=> k \in DOMAIN names /\ n \in Ranged(names[k], DOMAIN det)
    BY <1>3, Expanded
  <2>2. M = UNION {Ranged(names[k], DOMAIN det) : k \in DOMAIN names}
    BY <1>3 DEF Meant, Ranged
  <2> HIDE DEF E, M
  <2>3. ASSUME NEW n \in M PROVE n \in {x[2] : x \in E}
    <3>1. PICK k \in DOMAIN names : n \in Ranged(names[k], DOMAIN det)
      BY <2>2
    <3>2. <<k, n>> \in E /\ <<k, n>>[2] = n
      BY <2>1, <3>1
    <3> QED
      BY <3>2
  <2>4. ASSUME NEW x \in E PROVE x[2] \in M
    <3>1. x[1] \in DOMAIN names /\ x[2] \in Ranged(names[x[1]], DOMAIN det)
      BY <1>1, <2>1
    <3> QED
      BY <2>2, <3>1
  <2> QED
    BY <2>3, <2>4 DEF M, E
<1> QED
  BY <1>2, <1>3

(* What the identifiers of the parsed rule say of the event. *)
Agrees(det, ev, hit) ==
  /\ IsFiniteSet(DOMAIN det) /\ hit \subseteq DOMAIN det
  /\ \A n : evalIdent(n, det, ev) <=> n \in hit

LEMMA AllOfMeans ==
  ASSUME NEW e, NEW det, NEW ev, NEW hit, Agrees(det, ev, hit)
  PROVE  evalAllOf(e, det, ev) <=>
           LET meant == Meant(e.names, DOMAIN det) IN meant # {} /\ meant \subseteq hit
<1> DEFINE E == expandIdentNames(e.names, det)
           M == Meant(e.names, DOMAIN det)
<1>1. M = {x[2] : x \in E}
  BY MeantIs
<1>2. evalAllOf(e, det, ev) <=> E # {} /\ \A x \in E : x[2] \in hit
  BY DEF evalAllOf, Agrees
<1> HIDE DEF E, M
<1>3. E # {} <=> M # {}
  BY <1>1
<1>4. (\A x \in E : x[2] \in hit) <=> M \subseteq hit
  BY <1>1
<1> QED
  BY <1>2, <1>3, <1>4 DEF M

(* A name that is meant once is counted once. *)
LEMMA CountedOnce ==
  ASSUME NEW names, Separate(names), NEW det, NEW ev, NEW hit, Agrees(det, ev, hit)
  PROVE  Cardinality({x \in expandIdentNames(names, det) : evalIdent(x[2], det, ev)})
           = Cardinality(Meant(names, DOMAIN det) \cap hit)
<1> DEFINE E == expandIdentNames(names, det)
           A == {x \in E : evalIdent(x[2], det, ev)}
           B == Meant(names, DOMAIN det) \cap hit
           f == [x \in A |-> x[2]]
<1>1. \A x \in A : x \in E /\ x[2] \in hit /\ x = <<x[1], x[2]>>
  BY Expanded DEF Agrees
<1>2. B = {x[2] : x \in A}
  <2>1. \A x : x \in A <=> x \in E /\ x[2] \in hit
    BY DEF Agrees
  <2>2. Meant(names, DOMAIN det) = {x[2] : x \in E}
    BY MeantIs
  <2> HIDE DEF E, A
  <2> QED
    BY <2>1, <2>2
<1>3. ASSUME NEW x \in A, NEW y \in A, x[2] = y[2] PROVE x = y
  <2>1. x[1] = y[1]
    <3>1. CASE names = Them
      <4>1. \A k, n : <<k, n>> \in E => k = 0
        BY <3>1, Expanded
      <4> HIDE DEF E, A
      <4> QED
        BY <1>1, <4>1
    <3>2. CASE names # Them
      <4>1. \A k, n : <<k, n>> \in E =>
              k \in DOMAIN names /\ n \in Ranged(names[k], DOMAIN det)
        BY <3>2, Expanded
      <4>2. \A k : Ranged(names[k], DOMAIN det) \subseteq Denoted(names[k])
        BY DEF Ranged, Denoted
      <4> HIDE DEF E, A
      <4>3. /\ x[1] \in DOMAIN names /\ x[2] \in Denoted(names[x[1]])
            /\ y[1] \in DOMAIN names /\ y[2] \in Denoted(names[y[1]])
        BY <1>1, <4>1, <4>2
      <4> QED
        BY <1>3, <4>3 DEF Separate
    <3> QED
      BY <3>1, <3>2
  <2> HIDE DEF A
  <2> QED
    BY <1>1, <1>3, <2>1
<1>4. B \subseteq DOMAIN det
  BY DEF Agrees
<1>5. IsFiniteSet(B)
  BY <1>4, FS_Subset DEF Agrees
<1> HIDE DEF A, B
<1>6. f \in Bijection(A, B)
  <2>1. f \in [A -> B]
    BY <1>2
  <2>2. \A x, y \in A : f[x] = f[y] => x = y
    BY <1>3
  <2>3. \A n \in B : \E x \in A : f[x] = n
    BY <1>2
  <2> QED
    BY <2>1, <2>2, <2>3, Fun_IsBij
<1>7. ExistsBijection(B, A)
  BY <1>6, Fun_ExistsBijSymmetric DEF ExistsBijection
<1>8. Cardinality(A) = Cardinality(B)
  BY <1>5, <1>7, FS_Bijection
<1> QED
  BY <1>8 DEF A, B

LEMMA OneOfMeans ==
  ASSUME NEW e, Separate(e.names), NEW det, NEW ev, NEW hit, Agrees(det, ev, hit)
  PROVE  evalOneOf(e, det, ev) <=>
           Cardinality(Meant(e.names, DOMAIN det) \cap hit) >= Counts[e.count]
BY CountedOnce DEF evalOneOf
(* A tree of the dialect holds exactly when it means to. *)
LEMMA EvalMeans ==
  ASSUME NEW det, NEW ev, NEW hit, Agrees(det, ev, hit), NEW tree \in Tree, Sentence(tree)
  PROVE  evalExpr(tree, det, ev) <=> Means(tree, DOMAIN det, hit)
<1>1. PICK f \in [Tree -> BOOLEAN] :
        /\ \A t \in Tree : f[t] = evalAt(t, f, det, ev)
        /\ \A t : evalExpr(t, det, ev) = f[t]
  BY EvalIs
<1>2. PICK g \in [Tree -> BOOLEAN] :
        /\ \A t \in Tree : g[t] = MeansAt(t, g, DOMAIN det, hit)
        /\ \A t : Means(t, DOMAIN det, hit) = g[t]
  BY MeansIs
<1> DEFINE S == {t \in Tree : Sentence(t) /\ f[t] # g[t]}
<1> SUFFICES S = {}
  <2>1. f[tree] = g[tree]
    OBVIOUS
  <2> QED
    BY <1>1, <1>2, <2>1
<1> SUFFICES ASSUME S # {} PROVE FALSE
  OBVIOUS
<1>3. PICK t \in S : \A v \in S : Len(t) <= Len(v)
  <2> HIDE DEF S
  <2>1. S \subseteq Tree
    BY DEF S
  <2> QED
    BY <2>1, ShortestTree
<1>4. t \in Tree /\ Sentence(t) /\ t # Nil /\ f[t] # g[t]
  BY Sentences
<1>5. ASSUME NEW v \in Tree, Sentence(v), Len(v) < Len(t) PROVE f[v] = g[v]
  <2>1. Len(t) \in Nat /\ Len(v) \in Nat
    BY <1>4 DEF Tree
  <2>2. ~(Len(t) <= Len(v))
    BY <1>5, <2>1
  <2> QED
    BY <1>3, <1>5, <2>2
<1> HIDE DEF S
<1>6. f[t] = evalAt(t, f, det, ev) /\ g[t] = MeansAt(t, g, DOMAIN det, hit)
  BY <1>1, <1>2, <1>4
<1> DEFINE root == Root(t)
<1>7. f[t] \in BOOLEAN /\ g[t] \in BOOLEAN
  BY <1>4
<1>8. CASE root.op = "ident"
  <2>1. f[t] <=> evalIdent(root.name, det, ev)
    BY <1>4, <1>6, <1>8 DEF evalAt
  <2>2. g[t] <=> root.name \in hit
    BY <1>4, <1>6, <1>8 DEF MeansAt
  <2> QED
    BY <1>4, <1>7, <2>1, <2>2 DEF Agrees
<1>9. CASE root.op = "some"
  <2>1. f[t] <=> evalOneOf(root, det, ev)
    BY <1>4, <1>6, <1>9 DEF evalAt
  <2>2. g[t] <=> Cardinality(Meant(root.names, DOMAIN det) \cap hit) >= Counts[root.count]
    BY <1>4, <1>6, <1>9 DEF MeansAt
  <2>3. Separate(root.names)
    BY <1>4, <1>9, Sentences
  <2> QED
    BY <1>4, <1>7, <2>1, <2>2, <2>3, OneOfMeans
<1>10. CASE root.op = "every"
  <2>1. f[t] <=> evalAllOf(root, det, ev)
    BY <1>4, <1>6, <1>10 DEF evalAt
  <2>2. g[t] <=> LET meant == Meant(root.names, DOMAIN det) IN meant # {} /\ meant \subseteq hit
    BY <1>4, <1>6, <1>10 DEF MeansAt
  <2> QED
    BY <1>4, <1>7, <2>1, <2>2, AllOfMeans
<1>11. CASE root.op = "not"
  <2>1. f[t] <=> ~f[Child(t)]
    BY <1>4, <1>6, <1>11 DEF evalAt
  <2>2. g[t] <=> ~g[Child(t)]
    BY <1>4, <1>6, <1>11 DEF MeansAt
  <2>3. f[Child(t)] = g[Child(t)]
    BY <1>4, <1>5, <1>11, Sentences, Subtrees
  <2> QED
    BY <1>4, <1>7, <2>1, <2>2, <2>3
<1>12. CASE root.op \in {"and", "or"}
  <2>1. f[Left(t)] = g[Left(t)] /\ f[Right(t)] = g[Right(t)]
    <3>1. /\ Left(t) \in Tree /\ Len(Left(t)) < Len(t) /\ Sentence(Left(t))
          /\ Right(t) \in Tree /\ Len(Right(t)) < Len(t) /\ Sentence(Right(t))
      BY <1>4, <1>12, Sentences, Subtrees
    <3> QED
      BY <1>5, <3>1
  <2>2. CASE root.op = "and"
    <3>1. f[t] <=> f[Left(t)] /\ f[Right(t)]
      BY <1>4, <1>6, <2>2 DEF evalAt
    <3>2. g[t] <=> g[Left(t)] /\ g[Right(t)]
      BY <1>4, <1>6, <2>2 DEF MeansAt
    <3> QED
      BY <1>4, <1>7, <2>1, <3>1, <3>2
  <2>3. CASE root.op = "or"
    <3>1. f[t] <=> f[Left(t)] \/ f[Right(t)]
      BY <1>4, <1>6, <2>3 DEF evalAt
    <3>2. g[t] <=> g[Left(t)] \/ g[Right(t)]
      BY <1>4, <1>6, <2>3 DEF MeansAt
    <3> QED
      BY <1>4, <1>7, <2>1, <3>1, <3>2
  <2> QED
    BY <1>12, <2>2, <2>3
<1> QED
  BY <1>4, <1>8, <1>9, <1>10, <1>11, <1>12, Sentences
-----------------------------------------------------------------------------
(* Selections: a field condition is compared as its modifiers ask. *)
LEMMA ComparedAsAsked ==
  ASSUME NEW mods, mods \subseteq supportedModifiers, \A m, w \in mods \ {"all"} : m = w
  PROVE  Asked(mods) = {Comparison(mods)}
<1>1. CASE mods \subseteq {"all"}
  <2>1. Asked(mods) = {"equals"}
    BY <1>1 DEF Asked
  <2>2. Comparison(mods) = "equals"
    BY <1>1 DEF Comparison
  <2> QED
    BY <2>1, <2>2
<1>2. CASE ~(mods \subseteq {"all"})
  <2>1. PICK m \in mods : m # "all"
    BY <1>2
  <2>2. Asked(mods) = mods \ {"all"} /\ mods \ {"all"} = {m}
    BY <1>2, <2>1 DEF Asked
  <2>3. m \in supportedModifiers
    BY <2>1
  <2>4. CASE m = "re"
    BY <2>1, <2>2, <2>4 DEF Comparison
  <2>5. CASE m \in {"lt", "lte", "gt", "gte"}
    <3> DEFINE number == mods \cap {"lt", "lte", "gt", "gte"}
    <3>1. number = {m} /\ "re" \notin mods
      BY <2>1, <2>2, <2>5
    <3>2. (CHOOSE w \in number : TRUE) = m
      <4> HIDE DEF number
      <4> QED
        BY <3>1
    <3>3. Comparison(mods) = m
      BY <3>1, <3>2 DEF Comparison
    <3> QED
      BY <2>2, <3>3
  <2>6. CASE m \in {"contains", "startswith", "endswith"}
    <3>1. /\ mods \cap {"lt", "lte", "gt", "gte"} = {} /\ "re" \notin mods
          /\ \A w \in {"contains", "startswith", "endswith"} : w \in mods <=> w = m
      BY <2>1, <2>2, <2>6
    <3>2. Comparison(mods) = m
      BY <2>6, <3>1 DEF Comparison
    <3> QED
      BY <2>2, <3>2
  <2> QED
    BY <2>1, <2>3, <2>4, <2>5, <2>6 DEF supportedModifiers
<1> QED
  BY <1>1, <1>2

LEMMA KeyMatches ==
  ASSUME NEW key, NEW ev, key.mods \subseteq supportedModifiers, KeyKept(key),
         KeyAssumption(key)
  PROVE  matchEntry(Entry(key), key.field, ev) <=> KeyHolds(key, ev)
<1> DEFINE e == Entry(key)
           how == Comparison(key.mods)
           value == ev[key.field]
           met == {v \in key.values : <<how, v>> \in value}
<1>1. e.values = key.values /\ e.mods = key.mods /\ (e.null <=> key.null /\ ~key.list)
  <2>1. key.list => key.values \ {Blank} = key.values
    BY DEF KeyKept
  <2>2. e.values = IF key.list THEN key.values \ {Blank} ELSE key.values
    BY DEF Entry
  <2>3. e.mods = key.mods /\ (e.null <=> key.null /\ ~key.list)
    BY DEF Entry
  <2> QED
    BY <2>1, <2>2, <2>3
<1>2. met = {v \in key.values : \E m \in Asked(key.mods) : <<m, v>> \in value}
  <2>1. Asked(key.mods) = {how}
    BY ComparedAsAsked DEF KeyKept
  <2> HIDE DEF how
  <2> QED
    BY <2>1
<1>3. KeyHolds(key, ev) <=>
        \/ key.null /\ (key.field \in DOMAIN ev => Empty(value))
        \/ key.field \in DOMAIN ev /\ met # {} /\ ("all" \in key.mods => met = key.values)
  BY <1>2 DEF KeyHolds
<1>4. CASE key.null
  <2>1. ~key.list /\ key.values = {}
    BY <1>4 DEF KeyKept, KeyAssumption
  <2>2. met = {}
    BY <2>1
  <2>3. KeyHolds(key, ev) <=> (key.field \in DOMAIN ev => Empty(value))
    BY <1>3, <1>4, <2>2
  <2>4. e.null
    BY <1>1, <1>4, <2>1
  <2> QED
    BY <2>3, <2>4 DEF matchEntry
<1>5. CASE ~key.null
  <2>1. KeyHolds(key, ev) <=> /\ key.field \in DOMAIN ev /\ met # {}
                              /\ "all" \in key.mods => met = key.values
    BY <1>3, <1>5
  <2>2. matchEntry(e, key.field, ev) <=> key.field \in DOMAIN ev /\ matchField(value, e)
    BY <1>1, <1>5 DEF matchEntry
  <2>3. matchField(value, e) <=>
          /\ key.values # {}
          /\ IF "all" \in key.mods THEN \A c \in key.values : <<how, c>> \in value
                                   ELSE \E c \in key.values : <<how, c>> \in value
    BY <1>1 DEF matchField
  <2> HIDE DEF e, how, value
  <2>4. matchField(value, e) <=> met # {} /\ ("all" \in key.mods => met = key.values)
    BY <2>3
  <2> QED
    BY <2>1, <2>2, <2>4 DEF e
<1> QED
  BY <1>4, <1>5
(* The field maps of a rule, as Parse leaves them. *)
FieldMapsOf(r, det) ==
  /\ DOMAIN det = DOMAIN r.selections
  /\ \A n \in DOMAIN r.selections : det[n] \in FieldMaps(r.selections[n])

Unsupported(det) ==
  \E n \in DOMAIN det : \E f \in DOMAIN det[n] : ~(det[n][f].mods \subseteq supportedModifiers)

LEMMA KeywordsMatch ==
  ASSUME NEW sel, sel.kind = "list", sel.words # {}, sel.scalars = {}, sel.maps = {},
         NEW map \in FieldMaps(sel), NEW ev
  PROVE  /\ keywordField \in DOMAIN map
         /\ matchKeywords(map[keywordField].values, ev) <=> Holds(sel, ev)
<1>1. map = [f \in {keywordField} |-> [values |-> sel.words, mods |-> {}, null |-> FALSE]]
  BY DEF FieldMaps
<1>2. keywordField \in DOMAIN map /\ map[keywordField].values = sel.words
  BY <1>1
<1>3. matchKeywords(sel.words, ev) <=> \E w \in sel.words : Appears(w, ev)
  BY DEF matchKeywords, Appears
<1>4. Holds(sel, ev) <=> \/ \E w \in sel.words \cup sel.scalars : Appears(w, ev)
                        \/ \E keys \in sel.maps : \A key \in keys : KeyHolds(key, ev)
  BY DEF Holds
<1>5. Holds(sel, ev) <=> \E w \in sel.words : Appears(w, ev)
  BY <1>4
<1> QED
  BY <1>2, <1>3, <1>5

LEMMA KeysMatch ==
  ASSUME NEW sel, sel.kind = "map", NEW map \in FieldMaps(sel), NEW ev,
         \A key \in sel.keys : KeyAssumption(key) /\ KeyKept(key),
         \A a, b \in sel.keys : a.field = b.field => a = b,
         \A f \in DOMAIN map : map[f].mods \subseteq supportedModifiers
  PROVE  /\ keywordField \notin DOMAIN map
         /\ (\A f \in DOMAIN map : matchEntry(map[f], f, ev)) <=> Holds(sel, ev)
<1> DEFINE fields == {key.field : key \in sel.keys}
<1>1. PICK w \in [fields -> sel.keys] :
        (\A f \in fields : w[f].field = f) /\ map = [f \in fields |-> Entry(w[f])]
  BY DEF FieldMaps
<1>2. \A key \in sel.keys : key.field \in fields /\ w[key.field] = key
  BY <1>1
<1>3. DOMAIN map = fields /\ \A f \in fields : map[f] = Entry(w[f])
  BY <1>1
<1>4. keywordField \notin fields
  BY DEF KeyAssumption
<1>5. ASSUME NEW key \in sel.keys
      PROVE  matchEntry(map[key.field], key.field, ev) <=> KeyHolds(key, ev)
  <2>1. map[key.field] = Entry(key)
    BY <1>2, <1>3
  <2>2. Entry(key).mods = key.mods
    BY DEF Entry
  <2>3. key.mods \subseteq supportedModifiers
    BY <1>2, <1>3, <2>1, <2>2
  <2> QED
    BY <2>1, <2>3, KeyMatches
<1>6. \A f \in fields : \E key \in sel.keys : key.field = f
  OBVIOUS
<1> HIDE DEF fields
<1>7. (\A f \in fields : matchEntry(map[f], f, ev)) <=> \A key \in sel.keys : KeyHolds(key, ev)
  BY <1>2, <1>5, <1>6
<1>8. Holds(sel, ev) <=> \A key \in sel.keys : KeyHolds(key, ev)
  BY DEF Holds
<1> QED
  BY <1>3, <1>4, <1>7, <1>8

(* The identifiers of a rule that the parser keeps whole hold of an event
   exactly when its selections do. *)
LEMMA SelectionsMatch ==
  ASSUME NEW r \in Rules, KeptWhole(r), NEW det, FieldMapsOf(r, det), ~Unsupported(det), NEW ev
  PROVE  Agrees(det, ev, Hit(r.selections, ev))
<1> DEFINE sels == r.selections
<1>1. DOMAIN det = DOMAIN sels /\ IsFiniteSet(DOMAIN sels)
  BY RulesAssumption DEF FieldMapsOf
<1>2. ASSUME NEW n \in DOMAIN sels
      PROVE  evalIdent(n, det, ev) <=> Holds(sels[n], ev)
  <2>1. det[n] \in FieldMaps(sels[n]) /\ n \in DOMAIN det
    BY <1>1, <1>2 DEF FieldMapsOf
  <2>2. \A f \in DOMAIN det[n] : det[n][f].mods \subseteq supportedModifiers
    BY <2>1 DEF Unsupported
  <2>3. evalIdent(n, det, ev) <=>
          IF keywordField \in DOMAIN det[n]
          THEN matchKeywords(det[n][keywordField].values, ev)
          ELSE \A f \in DOMAIN det[n] : matchEntry(det[n][f], f, ev)
    BY <2>1 DEF evalIdent
  <2>4. CASE sels[n].kind = "list"
    <3>1. sels[n].words # {} /\ sels[n].scalars = {} /\ sels[n].maps = {}
      BY <1>2, <2>4 DEF KeptWhole
    <3> QED
      BY <2>1, <2>3, <2>4, <3>1, KeywordsMatch
  <2>5. CASE sels[n].kind = "map"
    <3>1. \A key \in sels[n].keys : KeyAssumption(key)
      BY <1>2, <2>5, RulesAssumption
    <3>2. /\ \A a, b \in sels[n].keys : a.field = b.field => a = b
          /\ \A a \in sels[n].keys : KeyKept(a)
      BY <1>2, <2>5 DEF KeptWhole
    <3> QED
      BY <2>1, <2>2, <2>3, <2>5, <3>1, <3>2, KeysMatch
  <2> QED
    BY <1>2, <2>4, <2>5 DEF KeptWhole
<1>3. \A n : n \notin DOMAIN det => ~evalIdent(n, det, ev)
  BY DEF evalIdent
<1> QED
  BY <1>1, <1>2, <1>3 DEF Agrees, Hit
-----------------------------------------------------------------------------
(* The machine. What a rule is once it is parsed, and what Match leaves. *)
Parsed ==
  LET read == parseCondition(rule.words)
  IN  /\ FieldMapsOf(rule, detections)
      /\ unsupported = Unsupported(detections)
      /\ condition = read.tree /\ pos = 1 + read.took

Matched ==
  /\ ~unsupported /\ event \in Events
  /\ matched = (condition # Nil /\ evalExpr(condition, detections, event))

IInv ==
  /\ rule \in Rules /\ pc \in {"parse", "refused", "match", "done"}
  /\ pc \in {"parse", "refused"} =>
       detections = <<>> /\ unsupported = FALSE /\ condition = Nil /\ pos = 1
  /\ pc \in {"match", "done"} => ~Malformed(rule) /\ Parsed
  /\ pc # "done" => event = NoEvent /\ matched = FALSE
  /\ pc = "done" => Matched

LEMMA IInvInit == Init => IInv
BY DEF Init, IInv

LEMMA IInvRefuse ==
  ASSUME IInv, Refuse
  PROVE  IInv'
BY DEF IInv, Refuse, parsed

LEMMA IInvParse ==
  ASSUME IInv, Parse
  PROVE  IInv'
<1>1. PICK det \in [DOMAIN rule.selections ->
                      UNION {FieldMaps(s) : s \in {rule.selections[n] :
                                              n \in DOMAIN rule.selections}}] :
        /\ \A n \in DOMAIN det : det[n] \in FieldMaps(rule.selections[n])
        /\ detections' = det
        /\ unsupported' = \E n \in DOMAIN det : \E f \in DOMAIN det[n] :
                            ~(det[n][f].mods \subseteq supportedModifiers)
  BY DEF Parse
<1>2. FieldMapsOf(rule', detections') /\ unsupported' = Unsupported(detections')
  <2>1. DOMAIN det = DOMAIN rule.selections /\ rule' = rule
    BY <1>1 DEF Parse
  <2> QED
    BY <1>1, <2>1 DEF FieldMapsOf, Unsupported
<1>3. /\ condition' = parseCondition(rule'.words).tree
      /\ pos' = 1 + parseCondition(rule'.words).took
  BY DEF Parse
<1>4. Parsed'
  BY <1>2, <1>3 DEF Parsed
<1>5. ~Malformed(rule)'
  <2>1. ~Malformed(rule) /\ rule' = rule
    BY DEF Parse
  <2> QED
    BY <2>1
<1> QED
  BY <1>4, <1>5 DEF IInv, Parse

LEMMA IInvMatch ==
  ASSUME IInv, NEW ev \in Events, Match(ev)
  PROVE  IInv'
<1>1. Parsed'
  <2>1. Parsed /\ UNCHANGED <<rule, detections, unsupported, condition, pos>>
    BY DEF IInv, Match, parsed
  <2> QED
    BY <2>1 DEF Parsed
<1>2. Matched'
  BY DEF Match, Matched, parsed
<1>3. ~Malformed(rule)'
  <2>1. ~Malformed(rule) /\ rule' = rule
    BY DEF IInv, Match, parsed
  <2> QED
    BY <2>1
<1> QED
  BY <1>1, <1>2, <1>3 DEF IInv, Match, parsed

LEMMA Inductive == Spec => []IInv
<1>1. ASSUME IInv, [Next]_vars PROVE IInv'
  <2>0. CASE Refuse
    BY <1>1, <2>0, IInvRefuse
  <2>1. CASE Parse
    BY <1>1, <2>1, IInvParse
  <2>2. CASE \E ev \in Events : Match(ev)
    BY <1>1, <2>2, IInvMatch
  <2>3. CASE UNCHANGED vars
    <3>1. /\ rule' = rule /\ pc' = pc /\ detections' = detections
          /\ unsupported' = unsupported /\ condition' = condition /\ pos' = pos
          /\ event' = event /\ matched' = matched
      BY <2>3 DEF vars
    <3>2. Parsed' = Parsed /\ Matched' = Matched /\ Malformed(rule)' = Malformed(rule)
      BY <3>1 DEF Parsed, Matched
    <3> QED
      BY <1>1, <3>1, <3>2 DEF IInv
  <2> QED
    BY <1>1, <2>0, <2>1, <2>2, <2>3 DEF Next
<1> QED
  BY <1>1, IInvInit, PTL DEF Spec
(* Whatever words it is given, the parser stops, returns a tree, and is not
   past their end. *)
LEMMA ParseTyped ==
  ASSUME NEW s \in Text
  PROVE  LET read == parseCondition(s)
         IN  read.tree \in Tree /\ 1 + read.took \in 1 .. Len(s) + 1
<1>1. Nil \in Tree /\ "or" \in Kinds
  BY Built DEF Kinds
<1>2. Len(s) \in Nat
  BY DEF Text
<1>3. 1 + Reading(s)[<<"or", Nil, 1>>].took <= Len(s) + 1
  BY <1>1, <1>2, ReadingEnd
<1>4. Reading(s)[<<"or", Nil, 1>>].tree \in Tree /\ Reading(s)[<<"or", Nil, 1>>].took \in Nat
  BY <1>1, ReadingTyped
<1> QED
  BY <1>2, <1>3, <1>4 DEF parseCondition

(* rule.go, matcher.go: for whatever rules, conditions that are no sentence
   among them, each variable keeps its type, and the parser, which slices the
   condition at its position, returns a tree and is never past the end. *)
THEOREM TypeCorrect == Spec => []TypeOK
<1>1. ASSUME IInv PROVE TypeOK
  <2>1. rule.words \in Text
    BY <1>1, RulesAssumption DEF IInv
  <2>2. pc \in {"parse", "refused"} \/ Parsed
    BY <1>1 DEF IInv
  <2>3. /\ condition \in Tree /\ pos \in 1 .. Len(rule.words) + 1
        /\ DOMAIN detections \subseteq DOMAIN rule.selections
    <3>1. CASE pc \in {"parse", "refused"}
      <4>1. Len(rule.words) \in Nat
        BY <2>1 DEF Text
      <4> QED
        BY <1>1, <3>1, <4>1, Built DEF IInv
    <3>2. CASE Parsed
      BY <2>1, <3>2, ParseTyped DEF Parsed, FieldMapsOf
    <3> QED
      BY <2>2, <3>1, <3>2
  <2>4. unsupported \in BOOLEAN
    <3>1. CASE pc \in {"parse", "refused"}
      BY <1>1, <3>1 DEF IInv
    <3>2. CASE Parsed
      BY <3>2 DEF Parsed, Unsupported
    <3> QED
      BY <2>2, <3>1, <3>2
  <2>5. matched \in BOOLEAN /\ event \in Events \cup {NoEvent}
    <3>1. CASE pc = "done"
      BY <1>1, <3>1 DEF IInv, Matched
    <3>2. CASE pc # "done"
      BY <1>1, <3>2 DEF IInv
    <3> QED
      BY <3>1, <3>2
  <2> QED
    BY <1>1, <2>3, <2>4, <2>5 DEF TypeOK, IInv
<1> QED
  BY <1>1, Inductive, PTL

(* rule.go, parseCondition drops what follows the tree it has read: for any
   identifiers, globs and numerals, it reads a condition of the dialect of
   whatever depth to its end. *)
THEOREM ReadWhole == Spec => []NothingLeftOver
<1>1. ASSUME IInv PROVE NothingLeftOver
  <2> SUFFICES ASSUME pc \in {"match", "done"}, InDialect PROVE pos = Len(rule.words) + 1
    BY DEF NothingLeftOver
  <2>1. /\ rule.meant \in Tree /\ Sentence(rule.meant)
        /\ rule.words = Written(rule.meant) /\ rule.words \in Text
    BY <1>1, RulesAssumption DEF IInv, InDialect
  <2>2. parseCondition(rule.words) = Got(rule.meant, Len(rule.words))
    BY <2>1, RoundTrip
  <2>3. pos = 1 + parseCondition(rule.words).took
    BY <1>1 DEF IInv, Parsed
  <2>4. Len(rule.words) \in Nat
    BY <2>1 DEF Text
  <2> QED
    BY <2>2, <2>3, <2>4 DEF Got
<1> QED
  BY <1>1, Inductive, PTL

(* rule.go, matcher.go: whatever the condition, the selections and the event, a
   rule that parses, whose selections are keys of different fields or lists of
   strings, and none of whose values is lost, matches exactly when its author
   means it to, if it is evaluated at all. *)
THEOREM AsMeant == Spec => [](KeptWhole(rule) => MatchesAsMeant)
<1>1. ASSUME IInv PROVE KeptWhole(rule) => MatchesAsMeant
  <2> SUFFICES ASSUME KeptWhole(rule), pc = "done", InDialect
               PROVE  matched <=> Means(rule.meant, DOMAIN rule.selections,
                                        Hit(rule.selections, event))
    BY DEF MatchesAsMeant
  <2> DEFINE hit == Hit(rule.selections, event)
  <2>1. /\ rule \in Rules /\ rule.meant \in Tree /\ Sentence(rule.meant)
        /\ rule.words = Written(rule.meant)
    BY <1>1, RulesAssumption DEF IInv, InDialect
  <2>2. Parsed /\ Matched
    BY <1>1 DEF IInv
  <2>3. condition = rule.meant
    BY <2>1, <2>2, RoundTrip DEF Parsed, Got
  <2>4. FieldMapsOf(rule, detections) /\ ~Unsupported(detections)
    BY <2>2 DEF Parsed, Matched
  <2>5. Agrees(detections, event, hit)
    BY <2>1, <2>4, SelectionsMatch
  <2>6. evalExpr(condition, detections, event) <=> Means(condition, DOMAIN detections, hit)
    BY <2>1, <2>3, <2>5, EvalMeans
  <2>7. condition # Nil
    BY <2>1, <2>3, Sentences
  <2>8. DOMAIN detections = DOMAIN rule.selections
    BY <2>4 DEF FieldMapsOf
  <2>9. matched <=> evalExpr(condition, detections, event)
    BY <2>2, <2>7 DEF Matched
  <2> QED
    BY <2>3, <2>6, <2>8, <2>9
<1> QED
  BY <1>1, Inductive, PTL

(* So when every rule that parses is kept whole, as those of the run "matching"
   are, the matcher says what they mean. *)
THEOREM AllAsMeant ==
  ASSUME \A r \in Rules : Malformed(r) \/ KeptWhole(r)
  PROVE  Spec => []MatchesAsMeant
<1>1. ASSUME IInv, KeptWhole(rule) => MatchesAsMeant PROVE MatchesAsMeant
  BY <1>1 DEF IInv, MatchesAsMeant
<1>2. Spec => [](KeptWhole(rule) => MatchesAsMeant)
  BY AsMeant
<1> QED
  BY <1>1, <1>2, Inductive, PTL
=============================================================================
