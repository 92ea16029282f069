SPECIFICATION DispatchSpec
CONSTANTS
  r1 = r1
  a1 = a1
  p1 = p1
  Runs = {r1}
  Agents = {a1}
  Providers = {p1}
  AgentOf <- MCAgentOf
  Owner <- MCOwner
  Limit <- MCLimit
  Unlimited = Unlimited
  Tolerance = Unlimited
  MaxRounds = 1
  MaxBacklog = 0
  MaxCrashes = 0
  Reports = {"RUN_FINISHED"}
  Behaviours = {}
  Failures = {"stall"}
  None = None
INVARIANTS
  FailedHasError
