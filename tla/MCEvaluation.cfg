SPECIFICATION Spec
CONSTANTS
  Batches <- MCBatches
  RuleLists <- MCRuleLists
INVARIANTS
  TypeOK
  VerdictIsTheStrongest
  EvidenceIsComplete
  LogIsNoProof
CHECK_DEADLOCK FALSE
