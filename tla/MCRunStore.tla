----------------------------- MODULE MCRunStore -----------------------------
(***************************************************************************)
(* RunStore with three processes, and what the repository says of the      *)
(* reports directory that the code does not do.                            *)
(***************************************************************************)
EXTENDS RunStore, TLC

(* Nothing tells one process from another before it starts. *)
Symmetric == Permutations(Procs)

(* replay.go: canary health is inherited from the captured run rather than
   asserted; CHANGELOG.md: such runs are never appended to history.json or
   published. What an inconclusive run collected stays out of both. *)
InconclusiveStaysPrivate ==
  \A p \in Entries(history) \cup ({snapshot} \cap Procs) :
    origin[p] \notin inconclusive
=============================================================================
