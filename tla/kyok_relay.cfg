SPECIFICATION Spec
CONSTANTS
  Names = {m1, m2}
  Connections = {c1, c2}
  Nonces = {x1, x2}
  RosterClasses = {}
  Runs = {r1, r2}
  Calls = {k1}
  KyokClasses = {}
  None = None
INVARIANTS
  KyokTypeOK
  NonceAdmitsOnce
  OnlyAdmittedServe
  InUseIsKept
  BindingDiesWithRun
PROPERTIES
  LinkKeepsItsNames
  RelaysForLiveRuns
SYMMETRY MCSymmetry
