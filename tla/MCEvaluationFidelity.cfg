SPECIFICATION Spec
CONSTANTS
  Batches <- MCBatches
  RuleLists <- MCRuleLists
INVARIANT OnlyCreationIsProof
CHECK_DEADLOCK FALSE
