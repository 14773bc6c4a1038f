SPECIFICATION Spec
CONSTANTS
  t1 = t1
  t2 = t2
  run = run
  far = far
  near = near
  other = other
  a = a
  b = b
  c = c
  d = d
  e = e
  f = f
  Techniques = {t1, t2}
  Platforms = {"linux", "windows"}
  Words = {run, far, near, other}
  Inputs = {a, b, c, d, e, f}
  NoId = NoId
  Malformed = Malformed
  Named <- MCNamed
  Trees <- MCTrees
  OverrideFiles <- MCOverrides
INVARIANTS
  TypeOK
  VerdictNeedsExecution
  SubstitutionsHold
  PlaceholdersAreResolved
CHECK_DEADLOCK FALSE
