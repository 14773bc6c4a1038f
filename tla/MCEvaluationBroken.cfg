SPECIFICATION Spec
CONSTANTS
  Batches <- MCBatches
  RuleLists <- MCRuleLists
INVARIANT AMatchIsProof
CHECK_DEADLOCK FALSE
