---------------------------- MODULE MCEvaluation ----------------------------
(***************************************************************************)
(* Every kind of record the normalizer tells apart, in batches of up to    *)
(* two, against lists of up to two rules.                                  *)
(***************************************************************************)
EXTENDS Evaluation

Nothing == [top |-> {}, channel |-> "none", id |-> "absent", body |-> {},
            audit |-> {}, output |-> FALSE, decoder |-> FALSE]

MCEvents == {
  Nothing,
  [Nothing EXCEPT !.decoder = TRUE],
  [Nothing EXCEPT !.output = TRUE, !.decoder = TRUE],
  [Nothing EXCEPT !.top = {"Image", "User"}],
  [Nothing EXCEPT !.audit = {"User"}],
  [Nothing EXCEPT !.audit = {"CommandLine"}, !.decoder = TRUE],
  [Nothing EXCEPT !.channel = "win", !.body = {"Image", "CommandLine"}],
  [Nothing EXCEPT !.channel = "win", !.id = "creation", !.body = {"Image"}],
  [Nothing EXCEPT !.channel = "win", !.id = "other", !.body = {"Caller"}],
  [Nothing EXCEPT !.channel = "win", !.id = "other",
                  !.body = {"Image", "CommandLine"}],
  [Nothing EXCEPT !.channel = "sysmon", !.id = "other",
                  !.body = {"Image", "CommandLine"}],
  [Nothing EXCEPT !.channel = "sysmon", !.id = "other"]}

UpTo2(S) == {<<>>} \cup {<<x>> : x \in S} \cup (S \X S)

MCBatches == UpTo2(MCEvents)

MCRules ==
  [file : {"unmapped", "absent", "broken", "unsupported"}, process : {FALSE},
   finds : {{}}]
  \cup
  [file : {"usable"}, process : BOOLEAN,
   finds : {{}, MCEvents, {ev \in MCEvents : ev.channel = "none"},
            {ev \in MCEvents : ev.channel # "none"}}]

MCRuleLists == UpTo2(MCRules)

(* normalizer.go: only genuine process-creation events (Sysmon EventID 1,
   Security 4688) may be tagged high fidelity, and the fields decide only when
   the structured EventID is absent. So a Windows event that says it is
   something else proves nothing to a process_creation rule, unless another
   block of the record does. *)
OnlyCreationIsProof ==
  \A p \in evidence :
    LET ev == events[p[2]]
    IN  rules[p[1]].process /\ ev.channel = "win" /\ ev.id = "other" =>
          Naming \cap ev.top # {} \/ "CommandLine" \in ev.audit

(* main.go, evaluateExpected: a rule that matched is proof of detection
   regardless of what the others did. So once a rule has been evaluated and has
   matched, nothing that a later one in the list turns out to be takes the
   DETECTED away. *)
AMatchIsProof ==
  pc = "returned" /\ (\E i \in 1 .. r - 1 : Proof(i) # {}) => verdict = "DETECTED"
=============================================================================
