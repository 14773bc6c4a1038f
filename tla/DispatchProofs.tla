--------------------------- MODULE DispatchProofs ---------------------------
(***************************************************************************)
(* What reaches the target and what a verdict rests on, for every tree of  *)
(* atomic tests, file of overrides, plan and rule map.                     *)
(***************************************************************************)
EXTENDS Dispatch, TLAPS

----------------------------------------------------------------------------
(* Interpolation, value by value. *)

(* A pass adds nothing but the values. *)
LEMMA ReplacedWords ==
  ASSUME NEW x, NEW v, NEW S, x \subseteq S, \A i \in DOMAIN v : v[i] \subseteq S
  PROVE  Replaced(x, v) \subseteq S
  BY DEF Replaced

LEMMA InterpolateWords ==
  ASSUME NEW x, NEW v, NEW S, x \subseteq S, \A i \in DOMAIN v : v[i] \subseteq S
  PROVE  Interpolate(x, v) \subseteq S
  <1> DEFINE y1 == Replaced(x, v)
             y2 == Replaced(y1, v)
             y3 == Replaced(y2, v)
             y4 == Replaced(y3, v)
  <1>1. y1 \subseteq S
    BY ReplacedWords
  <1> HIDE DEF y1
  <1>2. y2 \subseteq S
    BY <1>1, ReplacedWords
  <1> HIDE DEF y2
  <1>3. y3 \subseteq S
    BY <1>2, ReplacedWords
  <1> HIDE DEF y3
  <1>4. y4 \subseteq S
    BY <1>3, ReplacedWords
  <1> HIDE DEF y4
  <1>5. Replaced(y4, v) \subseteq S
    BY <1>4, ReplacedWords
  <1>6. Interpolate(x, v) = Replaced(y4, v)
    BY DEF Interpolate, y1, y2, y3, y4
  <1> QED BY <1>5, <1>6

(* A pass leaves an input of S in the text just when it has one that refers
   to S. *)
LEMMA OnePass ==
  ASSUME NEW x, NEW v, NEW S, S \subseteq DOMAIN v
  PROVE  Replaced(x, v) \cap S # {} <=> x \cap Referring(v, S) # {}
  BY DEF Replaced, Referring

LEMMA ReferringKnown ==
  ASSUME NEW v, NEW S
  PROVE  Referring(v, S) \subseteq DOMAIN v
  BY DEF Referring

(* Five passes leave a known placeholder just when there is a tangled one. *)
LEMMA FivePasses ==
  ASSUME NEW x, NEW v
  PROVE  Interpolate(x, v) \cap DOMAIN v # {} <=> x \cap Tangled(v) # {}
  <1> DEFINE y1 == Replaced(x, v)
             y2 == Replaced(y1, v)
             y3 == Replaced(y2, v)
             y4 == Replaced(y3, v)
             s0 == DOMAIN v
             s1 == Referring(v, s0)
             s2 == Referring(v, s1)
             s3 == Referring(v, s2)
             s4 == Referring(v, s3)
  <1>1. Interpolate(x, v) = Replaced(y4, v) /\ Tangled(v) = Referring(v, s4)
    BY DEF Interpolate, Tangled
  <1>2. /\ s0 \subseteq DOMAIN v /\ s1 \subseteq DOMAIN v /\ s2 \subseteq DOMAIN v
        /\ s3 \subseteq DOMAIN v /\ s4 \subseteq DOMAIN v
    BY ReferringKnown
  <1>3. /\ y1 = Replaced(x, v) /\ y2 = Replaced(y1, v) /\ y3 = Replaced(y2, v)
        /\ y4 = Replaced(y3, v)
        /\ s1 = Referring(v, s0) /\ s2 = Referring(v, s1) /\ s3 = Referring(v, s2)
        /\ s4 = Referring(v, s3)
    OBVIOUS
  <1>4. s0 = DOMAIN v
    OBVIOUS
  <1> HIDE DEF y1, y2, y3, y4, s0, s1, s2, s3, s4
  <1>5. Replaced(y4, v) \cap s0 # {} <=> y4 \cap s1 # {}
    BY <1>2, <1>3, OnePass
  <1>6. y4 \cap s1 # {} <=> y3 \cap s2 # {}
    BY <1>2, <1>3, OnePass
  <1>7. y3 \cap s2 # {} <=> y2 \cap s3 # {}
    BY <1>2, <1>3, OnePass
  <1>8. y2 \cap s3 # {} <=> y1 \cap s4 # {}
    BY <1>2, <1>3, OnePass
  <1>9. y1 \cap s4 # {} <=> x \cap Referring(v, s4) # {}
    BY <1>2, <1>3, OnePass
  <1> QED BY <1>1, <1>4, <1>5, <1>6, <1>7, <1>8, <1>9

(* What is not known stays. *)
LEMMA UnknownStays ==
  ASSUME NEW x, NEW v, NEW i \in x, i \notin DOMAIN v
  PROVE  i \in Interpolate(x, v)
  BY DEF Interpolate, Replaced

LEMMA InterpolateType ==
  ASSUME NEW x \in Text, NEW v, IsValues(v)
  PROVE  Interpolate(x, v) \in Text
  <1>1. x \subseteq Words \cup Inputs /\ \A i \in DOMAIN v : v[i] \subseteq Words \cup Inputs
    BY DEF Text, IsValues
  <1> QED BY <1>1, InterpolateWords DEF Text

----------------------------------------------------------------------------
(* What Resolve returns. *)

LEMMA PinnedValues ==
  ASSUME NEW v, IsValues(v), NEW p, IsValues(p)
  PROVE  IsValues(Pinned(v, p))
  BY DEF IsValues, Pinned

LEMMA NoPinsValues == IsValues(NoPins)
  BY DEF IsValues, NoPins

(* Without pins the defaults are the values. *)
LEMMA NotPinned ==
  ASSUME NEW u, IsUpstream(u)
  PROVE  \A x : Interpolate(x, Pinned(u.inputs, NoPins)) = Interpolate(x, u.inputs)
  <1> DEFINE v == u.inputs
             w == Pinned(v, NoPins)
  <1>1. DOMAIN w = DOMAIN v /\ \A i \in DOMAIN v : w[i] = v[i]
    BY DEF Pinned, NoPins
  <1> HIDE DEF v, w
  <1>2. \A x : Replaced(x, w) = Replaced(x, v)
    BY <1>1 DEF Replaced
  <1> QED BY <1>2 DEF Interpolate, v, w

(* The inputs of a task are what the constants say. *)
InputsOK ==
  /\ tree \in Trees
  /\ overrides \in OverrideFiles
  /\ AtomicId \in Id \cup {Malformed}
  /\ kind \in Platforms

LEMMA UpstreamType ==
  ASSUME InputsOK, Resolvable(tree, overrides, AtomicId),
         ~Replaces(overrides, AtomicId)
  PROVE  /\ AtomicId \in Id
         /\ UpstreamOf(AtomicId) = tree[AtomicId.tech][AtomicId.index]
         /\ IsUpstream(UpstreamOf(AtomicId))
  <1>1. AtomicId \in Id
    BY DEF InputsOK, Resolvable, Parses
  <1>2. AtomicId.index <= Len(tree[AtomicId.tech]) /\ AtomicId.index >= 1
        /\ AtomicId.index \in Nat /\ AtomicId.tech \in Techniques
    BY <1>1 DEF Resolvable, Parses, Id
  <1>3. UpstreamOf(AtomicId) = tree[AtomicId.tech][AtomicId.index]
    BY <1>2 DEF UpstreamOf
  <1> DEFINE s == tree[AtomicId.tech]
  <1>4. s \in Seq({s[n] : n \in DOMAIN s}) /\ \A n \in DOMAIN s : IsUpstream(s[n])
    BY <1>2, DispatchAssumption DEF InputsOK
  <1> HIDE DEF s
  <1>5. AtomicId.index \in DOMAIN s
    BY <1>2, <1>4 DEF s
  <1> QED BY <1>1, <1>3, <1>4, <1>5 DEF s

LEMMA PinsType ==
  ASSUME InputsOK
  PROVE  IsValues(PinsOf(overrides, AtomicId))
  BY DispatchAssumption, NoPinsValues DEF InputsOK, PinsOf, IsOverride

LEMMA ResolveType ==
  ASSUME InputsOK, Resolvable(tree, overrides, AtomicId)
  PROVE  Resolve(tree, overrides, AtomicId) \in Test
  <1>1. CASE Replaces(overrides, AtomicId)
    <2>1. IsOverride(overrides[AtomicId])
      BY <1>1, DispatchAssumption DEF InputsOK, Replaces
    <2>2. Substitute(overrides[AtomicId]) \in Test
      BY <2>1, AtomicsAssumption DEF Substitute, Test, IsOverride
    <2> QED BY <1>1, <2>2 DEF Resolve
  <1>2. CASE ~Replaces(overrides, AtomicId)
    <2> DEFINE u == UpstreamOf(AtomicId)
               p == PinsOf(overrides, AtomicId)
               v == Pinned(u.inputs, p)
    <2>1. IsUpstream(u) /\ Resolve(tree, overrides, AtomicId) = Instantiate(u, p)
      BY <1>2, UpstreamType DEF Resolve
    <2>2. IsValues(v)
      BY <2>1, PinsType, PinnedValues DEF IsUpstream
    <2>3. u.prereqs \in Seq(Text) /\ u.command \in Text /\ u.cleanup \in Text
          /\ u.platforms \subseteq Platforms
      BY <2>1 DEF IsUpstream
    <2> HIDE DEF u, p
    <2>4. Instantiate(u, p) =
            [platforms |-> u.platforms,
             prereqs   |-> [k \in DOMAIN u.prereqs |-> Interpolate(u.prereqs[k], v)],
             command   |-> Interpolate(u.command, v),
             cleanup   |-> Interpolate(u.cleanup, v),
             reason    |-> DOMAIN p # {}]
      BY DEF Instantiate
    <2> HIDE DEF v
    <2>5. Interpolate(u.command, v) \in Text /\ Interpolate(u.cleanup, v) \in Text
          /\ \A k \in DOMAIN u.prereqs : Interpolate(u.prereqs[k], v) \in Text
      BY <2>2, <2>3, InterpolateType
    <2>6. [k \in DOMAIN u.prereqs |-> Interpolate(u.prereqs[k], v)] \in Seq(Text)
      <3>1. DOMAIN u.prereqs = 1 .. Len(u.prereqs) /\ Len(u.prereqs) \in Nat
        BY <2>3
      <3>2. [k \in DOMAIN u.prereqs |-> Interpolate(u.prereqs[k], v)]
              \in [1 .. Len(u.prereqs) -> Text]
        BY <2>5, <3>1
      <3> QED BY <3>1, <3>2
    <2> QED BY <2>1, <2>3, <2>4, <2>5, <2>6 DEF Test
  <1> QED BY <1>1, <1>2

----------------------------------------------------------------------------
(* The inductive invariant. *)

Of(what) == {k \in DOMAIN sent : sent[k].what = what}

(* Before it is resolved a task has sent nothing; then its test is the one its
   ID stands for, under overrides that were accepted. *)
TestIsResolved ==
  /\ pc \in {"load", "resolve", "refused"} => test = NoTest
  /\ test = NoTest => sent = <<>>
  /\ test # NoTest \/ pc \in {"probe", "cleanup", "grade"} =>
       /\ Resolvable(tree, overrides, AtomicId)
       /\ test = Resolve(tree, overrides, AtomicId)
  /\ pc \notin {"load", "refused"} => Acceptable(overrides)

(* What was sent are texts of the test. *)
SentIsOfTest ==
  \A k \in DOMAIN sent :
    \/ sent[k].what = "prereq" /\ \E n \in DOMAIN test.prereqs :
                                    sent[k].text = test.prereqs[n]
    \/ sent[k].what = "command" /\ sent[k].text = test.command
    \/ sent[k].what = "cleanup" /\ sent[k].text = test.cleanup

InOrder ==
  /\ \A j, k \in Of("command") : j = k
  /\ \A j \in Of("prereq"), k \in DOMAIN sent : k > j => sent[j].ended = "zero"
  /\ \A k \in Of("cleanup") : \E j \in Of("command") : j < k

(* The prerequisite n was found met before step k. *)
Met(n, k) ==
  test.prereqs[n] # {} =>
    \E j \in Of("prereq") : /\ j < k /\ sent[j].ended = "zero"
                            /\ sent[j].text = test.prereqs[n]

AllMet == \A j \in Of("prereq") : sent[j].ended = "zero"

(* While prerequisites are probed, those before the next are met, and nothing
   else was sent. *)
ProbesAreMet ==
  pc = "probe" =>
    /\ kind \in test.platforms
    /\ \A k \in DOMAIN sent : sent[k].what = "prereq"
    /\ AllMet
    /\ \A n \in DOMAIN test.prereqs : n < probe => Met(n, Len(sent) + 1)

HasRun ==
  /\ kind \in test.platforms
  /\ \E k \in Of("command") :
       /\ sent[k].text = test.command /\ sent[k].ended # "err"
       /\ \A n \in DOMAIN test.prereqs : Met(n, k)

GradedHasRun ==
  /\ pc \in {"cleanup", "grade"} => HasRun /\ AllMet
  /\ verdict \in Graded => HasRun
  /\ verdict = "SKIPPED_PREREQ" =>
       Of("command") = {} /\ \E j \in Of("prereq") : sent[j].ended # "zero"

IInv == /\ InputsOK
        /\ TypeOK
        /\ TestIsResolved
        /\ SentIsOfTest
        /\ InOrder
        /\ ProbesAreMet
        /\ GradedHasRun

LEMMA AtomicIdType ==
  ASSUME task \in [tech : Techniques, atomic : Named],
         entry \in [atomic : Named, rules : BOOLEAN]
  PROVE  AtomicId \in Id \cup {Malformed}
  <1>1. task.tech \in Techniques /\ task.atomic \in Named /\ entry.atomic \in Named
    OBVIOUS
  <1>2. [tech |-> task.tech, index |-> 1, plain |-> TRUE] \in Id
    BY <1>1 DEF Id
  <1>3. Named \ {NoId} \subseteq Id \cup {Malformed}
    BY DispatchAssumption
  <1>4. CASE task.atomic # NoId
    BY <1>1, <1>3, <1>4 DEF AtomicId
  <1>5. CASE task.atomic = NoId /\ entry.atomic # NoId
    BY <1>1, <1>3, <1>5 DEF AtomicId
  <1>6. CASE task.atomic = NoId /\ entry.atomic = NoId
    BY <1>2, <1>6 DEF AtomicId
  <1> QED BY <1>4, <1>5, <1>6

LEMMA InitIInv == Init => IInv
  <1> SUFFICES ASSUME Init PROVE IInv
    OBVIOUS
  <1>1. /\ pc = "load" /\ test = NoTest /\ probe = 1 /\ sent = <<>> /\ verdict = "none"
        /\ tree \in Trees /\ overrides \in OverrideFiles /\ kind \in Platforms
        /\ AtomicId \in Id \cup {Malformed}
    BY AtomicIdType DEF Init
  <1>2. NoTest.prereqs = <<>> /\ Len(NoTest.prereqs) = 0
    BY DEF NoTest
  <1>3. NoTest \in Test
    <2>1. <<>> \in Seq(Text) /\ {} \in Text
      BY DEF Text
    <2> QED BY <2>1 DEF NoTest, Test
  <1>4. TypeOK
    BY <1>1, <1>2, <1>3 DEF TypeOK, Graded
  <1>5. DOMAIN sent = {} /\ Of("command") = {} /\ Of("prereq") = {} /\ Of("cleanup") = {}
    BY <1>1 DEF Of
  <1>6. InputsOK
    BY <1>1 DEF InputsOK
  <1>7. TestIsResolved
    BY <1>1 DEF TestIsResolved
  <1>8. SentIsOfTest /\ InOrder /\ ProbesAreMet /\ GradedHasRun
    BY <1>1, <1>5 DEF SentIsOfTest, InOrder, ProbesAreMet, GradedHasRun, Graded
  <1> QED BY <1>4, <1>6, <1>7, <1>8 DEF IInv

(* The inputs of the task do not change. *)
LEMMA InputsKept ==
  ASSUME UNCHANGED inputs
  PROVE  /\ InputsOK' <=> InputsOK
         /\ AtomicId' = AtomicId
         /\ Resolvable(tree, overrides, AtomicId)' <=>
              Resolvable(tree, overrides, AtomicId)
         /\ Resolve(tree, overrides, AtomicId)' = Resolve(tree, overrides, AtomicId)
         /\ Acceptable(overrides)' <=> Acceptable(overrides)
         /\ UNCHANGED <<tree, overrides, kind>>
  <1>1. UNCHANGED <<tree, overrides, task, entry, kind>>
    BY DEF inputs
  <1>2. AtomicId' = AtomicId
    BY <1>1 DEF AtomicId
  <1>3. InputsOK' <=> InputsOK
    BY <1>1, <1>2 DEF InputsOK
  <1> QED BY <1>1, <1>2, <1>3

(* While nothing was sent there is nothing to be out of order. *)
LEMMA NothingSent ==
  ASSUME sent = <<>>
  PROVE  SentIsOfTest /\ InOrder /\ AllMet /\ \A what : Of(what) = {}
  <1>1. DOMAIN sent = {} /\ \A what : Of(what) = {}
    BY DEF Of
  <1> QED BY <1>1 DEF SentIsOfTest, InOrder, AllMet

LEMMA StepLoad ==
  ASSUME IInv, LoadRefuses \/ Load
  PROVE  IInv'
  <1>1. /\ UNCHANGED <<inputs, test, probe, sent, verdict>>
        /\ pc = "load" /\ pc' \in {"refused", "resolve"}
        /\ pc' = "resolve" => Acceptable(overrides)
    BY DEF LoadRefuses, Load
  <1>2. test = NoTest /\ sent = <<>> /\ verdict = "none"
    BY <1>1 DEF IInv, TestIsResolved, TypeOK
  <1>3. SentIsOfTest' /\ InOrder' /\ \A what : Of(what)' = {}
    BY <1>1, <1>2, NothingSent DEF SentIsOfTest, InOrder, Of
  <1>4. TypeOK'
    BY <1>1, <1>2 DEF IInv, TypeOK, Graded
  <1>5. InputsOK' /\ TestIsResolved'
    BY <1>1, <1>2, InputsKept DEF IInv, TestIsResolved
  <1>6. ProbesAreMet' /\ GradedHasRun'
    BY <1>1, <1>2 DEF ProbesAreMet, GradedHasRun, Graded
  <1> QED BY <1>3, <1>4, <1>5, <1>6 DEF IInv

LEMMA StepUnresolvable ==
  ASSUME IInv, Unresolvable
  PROVE  IInv'
  <1>1. /\ UNCHANGED <<inputs, test, probe, sent>>
        /\ pc = "resolve" /\ pc' = "done" /\ verdict' = "ERROR"
    BY DEF Unresolvable, End
  <1>2. test = NoTest /\ sent = <<>>
    BY <1>1 DEF IInv, TestIsResolved
  <1>3. SentIsOfTest' /\ InOrder'
    BY <1>1, <1>2, NothingSent DEF SentIsOfTest, InOrder, Of
  <1>4. TypeOK'
    BY <1>1 DEF IInv, TypeOK, Graded
  <1>5. InputsOK' /\ TestIsResolved'
    BY <1>1, <1>2, InputsKept DEF IInv, TestIsResolved
  <1>6. ProbesAreMet' /\ GradedHasRun'
    BY <1>1 DEF ProbesAreMet, GradedHasRun, Graded
  <1> QED BY <1>3, <1>4, <1>5, <1>6 DEF IInv

LEMMA StepResolve ==
  ASSUME IInv, WrongPlatform \/ ResolveTest
  PROVE  IInv'
  <1>1. /\ UNCHANGED <<inputs, probe, sent>>
        /\ pc = "resolve"
        /\ Resolvable(tree, overrides, AtomicId)
        /\ test' = Resolve(tree, overrides, AtomicId)
        /\ \/ pc' = "done" /\ verdict' = "ERROR"
           \/ pc' = "probe" /\ verdict' = verdict /\ kind \in test'.platforms
    BY DEF WrongPlatform, ResolveTest, End
  <1>2. test = NoTest /\ sent = <<>> /\ verdict = "none" /\ probe = 1
    <2>1. test = NoTest /\ sent = <<>> /\ verdict = "none"
      BY <1>1 DEF IInv, TestIsResolved, TypeOK
    <2>2. Len(NoTest.prereqs) = 0
      BY DEF NoTest
    <2> QED BY <2>1, <2>2 DEF IInv, TypeOK
  <1>3. test' \in Test /\ Len(test'.prereqs) \in Nat
    <2>1. test' \in Test
      BY <1>1, ResolveType DEF IInv
    <2> QED BY <2>1 DEF Test
  <1>4. sent' = <<>>
    BY <1>1, <1>2
  <1>5. SentIsOfTest' /\ InOrder' /\ AllMet' /\ DOMAIN sent' = {}
    <2>1. DOMAIN sent' = {} /\ \A what : Of(what)' = {}
      BY <1>4 DEF Of
    <2> QED BY <2>1 DEF SentIsOfTest, InOrder, AllMet
  <1>6. TypeOK'
    BY <1>1, <1>2, <1>3 DEF IInv, TypeOK, Graded
  <1>7. InputsOK' /\ TestIsResolved'
    BY <1>1, <1>4, InputsKept DEF IInv, TestIsResolved
  <1>8. ProbesAreMet'
    <2> SUFFICES ASSUME pc' = "probe" PROVE ProbesAreMet'
      BY DEF ProbesAreMet
    <2>1. kind' \in test'.platforms
      BY <1>1, InputsKept
    <2>2. \A n \in DOMAIN test'.prereqs : ~(n < probe')
      BY <1>1, <1>2, <1>3 DEF Test
    <2> QED BY <1>5, <2>1, <2>2 DEF ProbesAreMet
  <1>9. GradedHasRun'
    BY <1>1, <1>2 DEF GradedHasRun, Graded
  <1> QED BY <1>5, <1>6, <1>7, <1>8, <1>9 DEF IInv

(* From here on the test is resolved and stays as it is. *)
LEMMA TestKept ==
  ASSUME IInv, UNCHANGED <<inputs, test>>,
         pc \in {"probe", "cleanup", "grade"},
         pc' \notin {"load", "resolve", "refused"}
  PROVE  /\ InputsOK'
         /\ test # NoTest => TestIsResolved'
         /\ test = NoTest /\ sent' = <<>> => TestIsResolved'
         /\ kind' = kind
  BY InputsKept DEF IInv, TestIsResolved

(* A blank prerequisite counts as met. *)
LEMMA StepPassOver ==
  ASSUME IInv, PassOver
  PROVE  IInv'
  <1>1. /\ UNCHANGED <<inputs, pc, test, sent, verdict>>
        /\ pc = "probe" /\ probe' = probe + 1 /\ probe <= Len(test.prereqs)
        /\ test.prereqs[probe] = {}
    BY DEF PassOver, Probing
  <1>2. InputsOK' /\ TestIsResolved'
    BY <1>1, InputsKept DEF IInv, TestIsResolved
  <1>3. SentIsOfTest' /\ InOrder' /\ AllMet' = AllMet
    BY <1>1 DEF IInv, SentIsOfTest, InOrder, Of, AllMet
  <1>4. TypeOK'
    <2>1. test \in Test /\ probe \in 1 .. Len(test.prereqs) + 1
      BY DEF IInv, TypeOK
    <2>2. Len(test.prereqs) \in Nat
      BY <2>1 DEF Test
    <2>3. probe' \in 1 .. Len(test'.prereqs) + 1
      BY <1>1, <2>1, <2>2
    <2> QED BY <1>1, <2>3 DEF IInv, TypeOK
  <1>5. \A n, k : Met(n, k)' <=> Met(n, k)
    BY <1>1 DEF Met, Of
  <1>6. ProbesAreMet'
    <2>1. kind' = kind
      BY <1>1, InputsKept
    <2>2. Met(probe, Len(sent) + 1)
      BY <1>1 DEF Met
    <2>3. \A n \in DOMAIN test.prereqs : n < probe' => n < probe \/ n = probe
      <3>1. test.prereqs \in Seq(Text) /\ probe \in Nat
        BY DEF IInv, TypeOK, Test
      <3> QED BY <1>1, <3>1
    <2> QED BY <1>1, <1>3, <1>5, <2>1, <2>2, <2>3 DEF IInv, ProbesAreMet
  <1>7. GradedHasRun'
    BY <1>1 DEF IInv, TypeOK, GradedHasRun, Graded
  <1> QED BY <1>2, <1>3, <1>4, <1>6, <1>7 DEF IInv

(* One more thing is sent. *)
LEMMA SendOne ==
  ASSUME IInv, NEW w \in {"prereq", "command", "cleanup"}, NEW x \in Text,
         NEW o \in Outcomes, Send(w, x, o)
  PROVE  /\ sent' \in Seq(Sent)
         /\ Len(sent) \in Nat /\ DOMAIN sent = 1 .. Len(sent)
         /\ DOMAIN sent' = 1 .. Len(sent) + 1
         /\ \A k \in DOMAIN sent : sent'[k] = sent[k]
         /\ sent'[Len(sent) + 1] = [what |-> w, text |-> x, ended |-> o]
         /\ sent' # <<>>
         /\ Of(w)' = Of(w) \cup {Len(sent) + 1}
         /\ \A v : v # w => Of(v)' = Of(v)
  <1>1. sent \in Seq(Sent) /\ [what |-> w, text |-> x, ended |-> o] \in Sent
    BY DEF IInv, TypeOK, Sent
  <1> DEFINE r == [what |-> w, text |-> x, ended |-> o]
  <1>2. sent' = Append(sent, r) /\ r.what = w
    BY DEF Send
  <1>3. r \in Sent
    BY <1>1
  <1> HIDE DEF r
  <1>4. /\ sent' \in Seq(Sent)
        /\ Len(sent) \in Nat /\ DOMAIN sent = 1 .. Len(sent)
        /\ DOMAIN sent' = 1 .. Len(sent) + 1
        /\ \A k \in DOMAIN sent : sent'[k] = sent[k]
        /\ sent'[Len(sent) + 1] = r
        /\ sent' # <<>>
    BY <1>1, <1>2, <1>3
  <1>5. \A v : Of(v)' = Of(v) \cup (IF v = w THEN {Len(sent) + 1} ELSE {})
    BY <1>2, <1>4 DEF Of
  <1> QED BY <1>4, <1>5 DEF r

LEMMA StepProbe ==
  ASSUME IInv, Probe
  PROVE  IInv'
  <1> DEFINE x == test.prereqs[probe]
             new == Len(sent) + 1
  <1>1. PICK o \in Outcomes :
          /\ Send("prereq", x, o)
          /\ \/ o = "zero" /\ probe' = probe + 1 /\ UNCHANGED <<pc, verdict>>
             \/ o # "zero" /\ End("SKIPPED_PREREQ") /\ UNCHANGED probe
    BY DEF Probe
  <1>2. /\ UNCHANGED <<inputs, test>> /\ pc = "probe" /\ probe <= Len(test.prereqs)
        /\ verdict = "none" /\ test # NoTest
    <2>1. UNCHANGED <<inputs, test>> /\ pc = "probe" /\ probe <= Len(test.prereqs)
          /\ verdict = "none"
      BY DEF Probe, Probing, IInv, TypeOK
    <2>2. Len(NoTest.prereqs) = 0 /\ probe >= 1
      BY DEF NoTest, IInv, TypeOK
    <2> QED BY <2>1, <2>2 DEF IInv, TypeOK
  <1>3. /\ test \in Test /\ test.prereqs \in Seq(Text) /\ Len(test.prereqs) \in Nat
        /\ probe \in DOMAIN test.prereqs /\ probe \in Nat
    BY <1>2 DEF IInv, TypeOK, Test
  <1>4. x \in Text
    BY <1>3
  <1> HIDE DEF x
  <1>5. /\ sent' \in Seq(Sent) /\ Len(sent) \in Nat /\ DOMAIN sent = 1 .. Len(sent)
        /\ DOMAIN sent' = 1 .. new
        /\ \A k \in DOMAIN sent : sent'[k] = sent[k]
        /\ sent'[new] = [what |-> "prereq", text |-> x, ended |-> o]
        /\ sent' # <<>>
        /\ Of("prereq")' = Of("prereq") \cup {new}
        /\ Of("command")' = Of("command")
        /\ Of("cleanup")' = Of("cleanup")
    BY <1>1, <1>4, SendOne
  <1>6. /\ \A k \in DOMAIN sent : sent[k].what = "prereq"
        /\ AllMet /\ kind \in test.platforms
        /\ \A n \in DOMAIN test.prereqs : n < probe => Met(n, new)
        /\ Of("command") = {} /\ Of("cleanup") = {}
    BY <1>2 DEF IInv, ProbesAreMet, Of
  <1>7. new \notin DOMAIN sent /\ new \in DOMAIN sent'
        /\ \A k \in DOMAIN sent' : k \in DOMAIN sent \/ k = new
    BY <1>5
  <1>8. TypeOK'
    BY <1>1, <1>2, <1>3, <1>5 DEF IInv, TypeOK, End, Graded
  <1>9. InputsOK' /\ TestIsResolved' /\ kind' = kind
    BY <1>1, <1>2, <1>5, TestKept DEF End
  <1>10. SentIsOfTest'
    <2> SUFFICES ASSUME NEW k \in DOMAIN sent'
                 PROVE  /\ sent'[k].what = "prereq"
                        /\ \E n \in DOMAIN test'.prereqs :
                             sent'[k].text = test'.prereqs[n]
      BY DEF SentIsOfTest
    <2>1. CASE k \in DOMAIN sent
      BY <1>2, <1>5, <1>6, <2>1 DEF IInv, SentIsOfTest
    <2>2. CASE k = new
      BY <1>2, <1>3, <1>5, <2>2 DEF x
    <2> QED BY <1>7, <2>1, <2>2
  <1>11. InOrder'
    <2>1. \A j \in Of("prereq")', k \in DOMAIN sent' : k > j => sent'[j].ended = "zero"
      BY <1>5, <1>6, <1>7 DEF AllMet, Of
    <2> QED BY <1>5, <1>6, <2>1 DEF InOrder
  <1>12. \A j \in Of("prereq") : j \in Of("prereq")' /\ sent'[j] = sent[j]
    BY <1>5 DEF Of
  <1>13. ProbesAreMet'
    <2> SUFFICES ASSUME pc' = "probe"
                 PROVE  ProbesAreMet'
      BY DEF ProbesAreMet
    <2>1. o = "zero" /\ probe' = probe + 1
      BY <1>1 DEF End
    <2>2. AllMet'
      BY <1>5, <1>6, <2>1 DEF AllMet, Of
    <2>3. \A k \in DOMAIN sent' : sent'[k].what = "prereq"
      BY <1>5, <1>6, <1>7
    <2>4. Len(sent') = new
      BY <1>5
    <2>5. ASSUME NEW n \in DOMAIN test.prereqs, n < probe', test.prereqs[n] # {}
          PROVE  \E j \in Of("prereq")' : /\ j < Len(sent') + 1
                                          /\ sent'[j].ended = "zero"
                                          /\ sent'[j].text = test.prereqs[n]
      <3>1. CASE n < probe
        <4>1. PICK j \in Of("prereq") : /\ j < new /\ sent[j].ended = "zero"
                                       /\ sent[j].text = test.prereqs[n]
          BY <1>6, <2>5, <3>1 DEF Met
        <4>2. j < Len(sent') + 1
          BY <1>5, <2>4, <4>1 DEF Of
        <4> QED BY <1>12, <4>1, <4>2
      <3>2. CASE n = probe
        BY <1>5, <2>1, <2>4, <3>2 DEF x
      <3> QED BY <1>3, <2>1, <2>5, <3>1, <3>2
    <2>6. \A n \in DOMAIN test'.prereqs : n < probe' => Met(n, Len(sent) + 1)'
      BY <1>2, <2>5 DEF Met
    <2> QED BY <1>2, <1>6, <1>9, <2>2, <2>3, <2>6 DEF ProbesAreMet
  <1>14. GradedHasRun'
    BY <1>1, <1>2, <1>5, <1>6 DEF GradedHasRun, End, Graded
  <1> QED BY <1>8, <1>9, <1>10, <1>11, <1>13, <1>14 DEF IInv

LEMMA StepExecute ==
  ASSUME IInv, Execute
  PROVE  IInv'
  <1> DEFINE new == Len(sent) + 1
  <1>1. PICK o \in Outcomes :
          /\ Send("command", test.command, o)
          /\ \/ o = "err" /\ End("ERROR")
             \/ o # "err" /\ pc' = "cleanup" /\ UNCHANGED verdict
    BY DEF Execute
  <1>2. /\ UNCHANGED <<inputs, test, probe>> /\ pc = "probe"
        /\ probe > Len(test.prereqs) /\ verdict = "none"
    BY DEF Execute, IInv, TypeOK
  <1>3. /\ test \in Test /\ test.command \in Text
        /\ test.prereqs \in Seq(Text) /\ Len(test.prereqs) \in Nat
        /\ probe \in Nat
    BY DEF IInv, TypeOK, Test
  <1>4. /\ \A k \in DOMAIN sent : sent[k].what = "prereq"
        /\ AllMet /\ kind \in test.platforms
        /\ \A n \in DOMAIN test.prereqs : n < probe => Met(n, new)
        /\ Of("command") = {} /\ Of("cleanup") = {}
    BY <1>2 DEF IInv, ProbesAreMet, Of
  <1>5. test # NoTest
    BY <1>4 DEF NoTest
  <1>6. /\ sent' \in Seq(Sent) /\ Len(sent) \in Nat /\ DOMAIN sent = 1 .. Len(sent)
        /\ DOMAIN sent' = 1 .. new
        /\ \A k \in DOMAIN sent : sent'[k] = sent[k]
        /\ sent'[new] = [what |-> "command", text |-> test.command, ended |-> o]
        /\ sent' # <<>>
        /\ Of("command")' = Of("command") \cup {new}
        /\ Of("prereq")' = Of("prereq")
        /\ Of("cleanup")' = Of("cleanup")
    BY <1>1, <1>3, SendOne
  <1>7. \A k \in DOMAIN sent' : k \in DOMAIN sent \/ k = new
    BY <1>6
  <1>8. TypeOK'
    BY <1>1, <1>2, <1>3, <1>6 DEF IInv, TypeOK, End, Graded
  <1>9. InputsOK' /\ TestIsResolved' /\ kind' = kind
    BY <1>1, <1>2, <1>5, TestKept DEF End
  <1>10. SentIsOfTest'
    <2>1. ASSUME NEW k \in DOMAIN sent
          PROVE  sent'[k].what = "prereq" /\ \E n \in DOMAIN test'.prereqs :
                                               sent'[k].text = test'.prereqs[n]
      BY <1>2, <1>4, <1>6 DEF IInv, SentIsOfTest
    <2>2. sent'[new].what = "command" /\ sent'[new].text = test'.command
      BY <1>2, <1>6
    <2> QED BY <1>7, <2>1, <2>2 DEF SentIsOfTest
  <1>11. AllMet'
    BY <1>4, <1>6 DEF AllMet, Of
  <1>12. InOrder'
    <2>1. \A j, k \in Of("command")' : j = k
      BY <1>4, <1>6
    <2> QED BY <1>4, <1>6, <1>11, <2>1 DEF InOrder, AllMet
  <1>13. ProbesAreMet'
    BY <1>1 DEF ProbesAreMet, End
  <1>14. ASSUME NEW n \in DOMAIN test.prereqs, test.prereqs[n] # {}
         PROVE  \E j \in Of("prereq")' : /\ j < new /\ sent'[j].ended = "zero"
                                         /\ sent'[j].text = test.prereqs[n]
    <2>1. n < probe
      BY <1>2, <1>3
    <2>2. PICK j \in Of("prereq") : /\ j < new /\ sent[j].ended = "zero"
                                    /\ sent[j].text = test.prereqs[n]
      BY <1>4, <1>14, <2>1 DEF Met
    <2>3. sent'[j] = sent[j]
      BY <1>6 DEF Of
    <2> QED BY <1>6, <2>2, <2>3
  <1>15. pc' = "cleanup" => HasRun'
    <2> SUFFICES ASSUME pc' = "cleanup" PROVE HasRun'
      OBVIOUS
    <2>1. o # "err"
      BY <1>1 DEF End
    <2>2. new \in Of("command")' /\ sent'[new].text = test'.command
          /\ sent'[new].ended # "err"
      BY <1>2, <1>6, <2>1
    <2>3. kind' \in test'.platforms
      BY <1>2, <1>4, <1>9
    <2>4. \E k \in Of("command")' :
            /\ sent'[k].text = test'.command /\ sent'[k].ended # "err"
            /\ \A n \in DOMAIN test'.prereqs : test'.prereqs[n] # {} =>
                 \E j \in Of("prereq")' : /\ j < k /\ sent'[j].ended = "zero"
                                          /\ sent'[j].text = test'.prereqs[n]
      BY <1>2, <1>14, <2>2
    <2> QED BY <2>3, <2>4 DEF HasRun, Met
  <1>16. GradedHasRun'
    BY <1>1, <1>2, <1>11, <1>15 DEF GradedHasRun, End, Graded
  <1> QED BY <1>8, <1>9, <1>10, <1>12, <1>13, <1>16 DEF IInv

(* A run that took place stays one when something is sent after it. *)
LEMMA RunStays ==
  ASSUME HasRun, UNCHANGED test, UNCHANGED kind, Of("command")' = Of("command"),
         Of("prereq")' = Of("prereq"), \A k \in DOMAIN sent : sent'[k] = sent[k]
  PROVE  HasRun'
  <1>1. kind' \in test'.platforms
    BY DEF HasRun
  <1>2. PICK k \in Of("command") :
          /\ sent[k].text = test.command /\ sent[k].ended # "err"
          /\ \A n \in DOMAIN test.prereqs : Met(n, k)
    BY DEF HasRun
  <1>3. sent'[k] = sent[k] /\ \A j \in Of("prereq") : sent'[j] = sent[j]
    BY DEF Of
  <1>4. \A n \in DOMAIN test.prereqs : test.prereqs[n] # {} =>
          \E j \in Of("prereq") : /\ j < k /\ sent'[j].ended = "zero"
                                  /\ sent'[j].text = test.prereqs[n]
    BY <1>2, <1>3 DEF Met
  <1>5. \E m \in Of("command")' :
          /\ sent'[m].text = test'.command /\ sent'[m].ended # "err"
          /\ \A n \in DOMAIN test'.prereqs : test'.prereqs[n] # {} =>
               \E j \in Of("prereq")' : /\ j < m /\ sent'[j].ended = "zero"
                                        /\ sent'[j].text = test'.prereqs[n]
    BY <1>2, <1>3, <1>4
  <1> QED BY <1>1, <1>5 DEF HasRun, Met

LEMMA StepCleanup ==
  ASSUME IInv, Cleanup
  PROVE  IInv'
  <1> DEFINE new == Len(sent) + 1
  <1>1. /\ UNCHANGED <<inputs, test, probe, verdict>>
        /\ pc = "cleanup" /\ pc' = "grade" /\ verdict = "none"
    BY DEF Cleanup, IInv, TypeOK
  <1>2. HasRun /\ AllMet /\ test # NoTest
    BY <1>1 DEF IInv, GradedHasRun, HasRun, NoTest
  <1>3. kind' = kind
    BY <1>1, InputsKept
  <1>4. CASE UNCHANGED sent
    <2>1. \A w : Of(w)' = Of(w)
      BY <1>4 DEF Of
    <2>2. InOrder' /\ SentIsOfTest' /\ AllMet'
      BY <1>1, <1>2, <1>4, <2>1 DEF IInv, InOrder, SentIsOfTest, AllMet
    <2>3. HasRun'
      BY <1>1, <1>2, <1>3, <1>4, <2>1, RunStays
    <2>4. TypeOK'
      BY <1>1, <1>4 DEF IInv, TypeOK
    <2>5. InputsOK' /\ TestIsResolved'
      BY <1>1, <1>2, TestKept
    <2>6. ProbesAreMet' /\ GradedHasRun'
      BY <1>1, <2>2, <2>3 DEF ProbesAreMet, GradedHasRun, Graded
    <2> QED BY <2>2, <2>4, <2>5, <2>6 DEF IInv
  <1>5. CASE \E o \in Outcomes : Send("cleanup", test.cleanup, o)
    <2>1. PICK o \in Outcomes : Send("cleanup", test.cleanup, o)
      BY <1>5
    <2>2. test.cleanup \in Text
      BY DEF IInv, TypeOK, Test
    <2>3. /\ sent' \in Seq(Sent) /\ Len(sent) \in Nat /\ DOMAIN sent = 1 .. Len(sent)
          /\ DOMAIN sent' = 1 .. new
          /\ \A k \in DOMAIN sent : sent'[k] = sent[k]
          /\ sent'[new] = [what |-> "cleanup", text |-> test.cleanup, ended |-> o]
          /\ Of("cleanup")' = Of("cleanup") \cup {new}
          /\ Of("prereq")' = Of("prereq")
          /\ Of("command")' = Of("command")
      BY <2>1, <2>2, SendOne
    <2>4. \A k \in DOMAIN sent' : k \in DOMAIN sent \/ k = new
      BY <2>3
    <2>5. AllMet'
      BY <1>2, <2>3 DEF AllMet, Of
    <2>6. InOrder'
      <3>1. \E j \in Of("command") : j < new
        BY <1>2, <2>3 DEF HasRun, Of
      <3>2. \A k \in Of("cleanup")' : \E j \in Of("command")' : j < k
        BY <2>3, <3>1 DEF IInv, InOrder
      <3> QED BY <2>3, <2>5, <3>2 DEF IInv, InOrder, AllMet
    <2>7. SentIsOfTest'
      <3>1. ASSUME NEW k \in DOMAIN sent
            PROVE  \/ sent'[k].what = "prereq" /\ \E n \in DOMAIN test'.prereqs :
                                                   sent'[k].text = test'.prereqs[n]
                   \/ sent'[k].what = "command" /\ sent'[k].text = test'.command
                   \/ sent'[k].what = "cleanup" /\ sent'[k].text = test'.cleanup
        BY <1>1, <2>3 DEF IInv, SentIsOfTest
      <3>2. sent'[new].what = "cleanup" /\ sent'[new].text = test'.cleanup
        BY <1>1, <2>3
      <3> QED BY <2>4, <3>1, <3>2 DEF SentIsOfTest
    <2>8. HasRun'
      BY <1>1, <1>2, <1>3, <2>3, RunStays
    <2>9. TypeOK'
      BY <1>1, <2>3 DEF IInv, TypeOK
    <2>10. InputsOK' /\ TestIsResolved'
      BY <1>1, <1>2, TestKept
    <2>11. ProbesAreMet' /\ GradedHasRun'
      BY <1>1, <2>5, <2>8 DEF ProbesAreMet, GradedHasRun, Graded
    <2> QED BY <2>6, <2>7, <2>9, <2>10, <2>11 DEF IInv
  <1> QED BY <1>4, <1>5 DEF Cleanup

LEMMA StepGrade ==
  ASSUME IInv, Grade
  PROVE  IInv'
  <1>1. /\ UNCHANGED <<inputs, test, probe, sent>>
        /\ pc = "grade" /\ pc' = "done" /\ verdict' \in Graded \cup {"ERROR"}
    BY DEF Grade, End
  <1>2. HasRun /\ AllMet /\ test # NoTest
    BY <1>1 DEF IInv, GradedHasRun, HasRun, NoTest
  <1>3. \A w : Of(w)' = Of(w)
    BY <1>1 DEF Of
  <1>4. InOrder' /\ SentIsOfTest' /\ AllMet'
    BY <1>1, <1>2, <1>3 DEF IInv, InOrder, SentIsOfTest, AllMet
  <1>5. kind' = kind
    BY <1>1, InputsKept
  <1>6. HasRun'
    BY <1>1, <1>2, <1>3, <1>5, RunStays
  <1>7. TypeOK'
    BY <1>1 DEF IInv, TypeOK, Graded
  <1>8. InputsOK' /\ TestIsResolved'
    BY <1>1, <1>2, TestKept
  <1>9. ProbesAreMet' /\ GradedHasRun'
    BY <1>1, <1>4, <1>6 DEF ProbesAreMet, GradedHasRun, Graded
  <1> QED BY <1>4, <1>7, <1>8, <1>9 DEF IInv

LEMMA StepStutter ==
  ASSUME IInv, UNCHANGED vars
  PROVE  IInv'
  <1>1. UNCHANGED <<inputs, pc, test, probe, sent, verdict>>
    BY DEF vars
  <1>2. InputsOK' /\ TestIsResolved' /\ kind' = kind
    BY <1>1, InputsKept DEF IInv, TestIsResolved
  <1>3. \A w : Of(w)' = Of(w)
    BY <1>1 DEF Of
  <1>4. \A n, k : Met(n, k)' <=> Met(n, k)
    BY <1>1, <1>3 DEF Met
  <1>5. AllMet' <=> AllMet
    BY <1>1, <1>3 DEF AllMet
  <1>6. HasRun' <=> HasRun
    BY <1>1, <1>2, <1>3, <1>4 DEF HasRun
  <1>7. InOrder' /\ SentIsOfTest' /\ TypeOK'
    BY <1>1, <1>3 DEF IInv, InOrder, SentIsOfTest, TypeOK
  <1>8. ProbesAreMet'
    BY <1>1, <1>2, <1>4, <1>5 DEF IInv, ProbesAreMet
  <1>9. GradedHasRun'
    BY <1>1, <1>3, <1>5, <1>6 DEF IInv, GradedHasRun
  <1> QED BY <1>2, <1>7, <1>8, <1>9 DEF IInv

(* Whatever the tree, the overrides and the plan, a task is in order. *)
THEOREM Invariance == Spec => []IInv
  <1>1. IInv /\ [Next]_vars => IInv'
    BY StepLoad, StepUnresolvable, StepResolve, StepPassOver, StepProbe, StepExecute,
       StepCleanup, StepGrade, StepStutter DEF Next
  <1> QED BY InitIInv, <1>1, PTL DEF Spec

(* A finished task has a verdict, and the next prerequisite is one of its own
   or none: the type invariant. *)
THEOREM TypeCorrect == Spec => []TypeOK
  <1>1. IInv => TypeOK
    BY DEF IInv
  <1> QED BY Invariance, <1>1, PTL

(* A verdict other than ERROR rests on the command's own run after every
   prerequisite (runTechnique, unmetPrereq). *)
THEOREM Executed == Spec => []VerdictNeedsExecution
  <1>1. IInv => VerdictNeedsExecution
    <2> SUFFICES ASSUME IInv PROVE VerdictNeedsExecution
      OBVIOUS
    <2>1. /\ \A j, k \in Of("command") : j = k
          /\ \A j \in Of("prereq"), k \in DOMAIN sent : k > j => sent[j].ended = "zero"
          /\ \A k \in Of("cleanup") : \E j \in Of("command") : j < k
      BY DEF IInv, InOrder
    <2>2. verdict \in Graded =>
            /\ kind \in test.platforms
            /\ \E k \in Of("command") :
                 /\ sent[k].text = test.command /\ sent[k].ended # "err"
                 /\ \A n \in DOMAIN test.prereqs : test.prereqs[n] # {} =>
                      \E j \in Of("prereq") : /\ j < k /\ sent[j].ended = "zero"
                                              /\ sent[j].text = test.prereqs[n]
      BY DEF IInv, GradedHasRun, HasRun, Met
    <2>3. verdict = "SKIPPED_PREREQ" =>
            Of("command") = {} /\ \E j \in Of("prereq") : sent[j].ended # "zero"
      BY DEF IInv, GradedHasRun
    <2> QED BY <2>1, <2>2, <2>3 DEF VerdictNeedsExecution, Of
  <1> QED BY Invariance, <1>1, PTL

(* A test that no override replaces is the upstream test, interpolated. *)
LEMMA Interpolated ==
  ASSUME IInv, test # NoTest, ~Replaces(overrides, AtomicId),
         NEW u, u = UpstreamOf(AtomicId),
         NEW p, p = PinsOf(overrides, AtomicId),
         NEW v, v = Pinned(u.inputs, p)
  PROVE  /\ IsUpstream(u)
         /\ test.command = Interpolate(u.command, v)
         /\ test.cleanup = Interpolate(u.cleanup, v)
         /\ DOMAIN test.prereqs = DOMAIN u.prereqs
         /\ \A n \in DOMAIN u.prereqs :
              test.prereqs[n] = Interpolate(u.prereqs[n], v)
         /\ test.reason = (DOMAIN p # {})
  <1>1. /\ Resolvable(tree, overrides, AtomicId)
        /\ test = Resolve(tree, overrides, AtomicId)
    BY DEF IInv, TestIsResolved
  <1>2. IsUpstream(u) /\ test = Instantiate(u, p)
    BY <1>1, UpstreamType DEF IInv, Resolve
  <1> QED BY <1>2 DEF Instantiate

(* Whatever the words and the placeholders, what an override pins or replaces
   never reaches the target (Resolve, interpolate). *)
THEOREM Substituted == Spec => []SubstitutionsHold
  <1>1. IInv => SubstitutionsHold
    <2> SUFFICES ASSUME IInv, sent # <<>> PROVE SubstitutionsHold
      BY DEF SubstitutionsHold
    <2> DEFINE id == AtomicId
               o == overrides[id]
               u == UpstreamOf(id)
               p == PinsOf(overrides, id)
               v == Pinned(u.inputs, p)
    <2>1. test # NoTest
      BY DEF IInv, TestIsResolved
    <2>2. Acceptable(overrides)
      BY <2>1 DEF IInv, TestIsResolved
    <2>3. CASE Replaces(overrides, id)
      <3>1. test = Substitute(o) /\ id \in DOMAIN overrides /\ o.command # {}
        BY <2>1, <2>3 DEF IInv, TestIsResolved, Resolve, Replaces
      <3>2. /\ DOMAIN test.prereqs = {} /\ test.command = o.command
            /\ test.cleanup = o.cleanup /\ test.reason = o.reason
        BY <3>1 DEF Substitute
      <3>3. test.reason
        BY <2>2, <3>1, <3>2 DEF Acceptable
      <3>4. \A k \in DOMAIN sent : sent[k].text \subseteq o.command \cup o.cleanup
        BY <3>2 DEF IInv, SentIsOfTest
      <3>5. OverrideWins(id)
        BY <3>1, <3>4 DEF OverrideWins, Admitted
      <3> QED BY <3>3, <3>5 DEF SubstitutionsHold
    <2>4. CASE ~Replaces(overrides, id)
      <3>1. /\ IsUpstream(u)
            /\ test.command = Interpolate(u.command, v)
            /\ test.cleanup = Interpolate(u.cleanup, v)
            /\ DOMAIN test.prereqs = DOMAIN u.prereqs
            /\ \A n \in DOMAIN u.prereqs :
                 test.prereqs[n] = Interpolate(u.prereqs[n], v)
            /\ test.reason = (DOMAIN p # {})
        BY <2>1, <2>4, Interpolated
      <3> DEFINE texts == {u.command, u.cleanup}
                            \cup {u.prereqs[n] : n \in DOMAIN u.prereqs}
      <3>2. ASSUME NEW k \in DOMAIN sent
            PROVE  \E x \in texts : sent[k].text = Interpolate(x, v)
        <4> HIDE DEF u, v
        <4>1. CASE \E n \in DOMAIN test.prereqs : sent[k].text = test.prereqs[n]
          BY <3>1, <4>1
        <4>2. CASE sent[k].text = test.command \/ sent[k].text = test.cleanup
          BY <3>1, <4>2
        <4> QED BY <4>1, <4>2 DEF IInv, SentIsOfTest
      <3>3. CASE id \in DOMAIN overrides
        <4>1. o.command = {} /\ p = o.inputs
          BY <2>4, <3>3 DEF Replaces, PinsOf
        <4>2. test.reason
          BY <2>2, <3>1, <3>3, <4>1 DEF Acceptable
        <4> DEFINE S == Admitted(o, u)
        <4>3. S = u.command \cup u.cleanup
                    \cup (UNION {u.prereqs[n] : n \in DOMAIN u.prereqs})
                    \cup (UNION {o.inputs[i] : i \in DOMAIN o.inputs})
                    \cup (UNION {u.inputs[i] : i \in DOMAIN u.inputs \ DOMAIN o.inputs})
          BY <4>1 DEF Admitted
        <4>4. \A x \in texts : x \subseteq S
          <5> HIDE DEF o, u, S
          <5> QED BY <4>3
        <4>5. \A i \in DOMAIN v : v[i] \subseteq S
          <5> HIDE DEF o, u, S, p
          <5>1. v = [i \in DOMAIN u.inputs \cup DOMAIN o.inputs |->
                       IF i \in DOMAIN o.inputs THEN o.inputs[i] ELSE u.inputs[i]]
            BY <4>1 DEF Pinned
          <5> QED BY <4>3, <5>1
        <4> HIDE DEF S, v, texts
        <4>6. \A k \in DOMAIN sent : sent[k].text \subseteq S
          BY <3>2, <4>4, <4>5, InterpolateWords
        <4>7. OverrideWins(id)
          BY <4>6 DEF OverrideWins, S
        <4> QED BY <4>2, <4>7 DEF SubstitutionsHold
      <3>4. CASE id \notin DOMAIN overrides
        <4>1. p = NoPins
          BY <3>4 DEF PinsOf
        <4>2. \A x : Interpolate(x, v) = Interpolate(x, u.inputs)
          BY <3>1, <4>1, NotPinned
        <4> HIDE DEF v, u
        <4>3. \A k \in DOMAIN sent : sent[k].text \in OwnTexts(u)
          BY <3>2, <4>2 DEF OwnTexts
        <4> QED BY <3>4, <4>3 DEF SubstitutionsHold, u
      <3> QED BY <3>3, <3>4
    <2> QED BY <2>3, <2>4
  <1> QED BY Invariance, <1>1, PTL

(* However the defaults refer to each other: the bound of five passes leaves a
   known placeholder exactly to the texts that refer to a tangled input. *)
THEOREM Resolved == Spec => []PlaceholdersAreResolved
  <1>1. IInv => PlaceholdersAreResolved
    <2> SUFFICES ASSUME IInv, test # NoTest, ~Replaces(overrides, AtomicId)
                 PROVE  PlaceholdersAreResolved
      BY DEF PlaceholdersAreResolved
    <2> DEFINE u == UpstreamOf(AtomicId)
               p == PinsOf(overrides, AtomicId)
               v == Pinned(u.inputs, p)
               Good(x, y) == /\ y \cap DOMAIN v # {} <=> x \cap Tangled(v) # {}
                             /\ (x \cap Inputs) \ DOMAIN v \subseteq y
    <2>1. /\ test.command = Interpolate(u.command, v)
          /\ test.cleanup = Interpolate(u.cleanup, v)
          /\ \A n \in DOMAIN u.prereqs :
               test.prereqs[n] = Interpolate(u.prereqs[n], v)
      BY Interpolated
    <2>2. \A x : Good(x, Interpolate(x, v))
      <3> HIDE DEF v
      <3> QED BY FivePasses, UnknownStays
    <2>3. Good(u.command, test.command) /\ Good(u.cleanup, test.cleanup)
          /\ \A n \in DOMAIN u.prereqs : Good(u.prereqs[n], test.prereqs[n])
      <3> HIDE DEF u, v, Good
      <3> QED BY <2>1, <2>2
    <2> QED BY <2>3 DEF PlaceholdersAreResolved
  <1> QED BY Invariance, <1>1, PTL
=============================================================================
