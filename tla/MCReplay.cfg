SPECIFICATION Spec
CONSTANTS
  t1 = t1
  t2 = t2
  Techniques = {t1, t2}
  e1 = e1
  e2 = e2
  Events = {e1, e2}
  MaxTasks = 3
  Rules <- MCRules
SYMMETRY Symmetric
INVARIANTS
  TypeOK
  ReplayIsFaithful
  ReplayClaimsNothingNew
  DiffOfAReplay
  FiguresAddUp
CHECK_DEADLOCK FALSE
