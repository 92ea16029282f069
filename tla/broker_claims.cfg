SPECIFICATION Spec
CONSTANTS
  r1 = r1
  r2 = r2
  a1 = a1
  a2 = a2
  p1 = p1
  Runs = {r1, r2}
  Agents = {a1, a2}
  Providers = {p1}
  AgentOf <- MCOneAgent
  Owner <- MCOwner
  Limit <- MCLimitOne
  Unlimited = Unlimited
  Tolerance = 2
  MaxRounds = 1
  MaxBacklog = 0
  Reports = {"RelayEvent"}
  Behaviours = {"decline", "unanswered", "late_report", "early_report", "detach", "fail", "abandon"}
  None = None
INVARIANTS
  HeldIsCounted
PROPERTY AllowanceWithdraws
SYMMETRY MCRunSymmetry
