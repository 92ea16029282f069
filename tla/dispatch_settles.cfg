SPECIFICATION DispatchFairSpec
CONSTANTS
  r1 = r1
  a1 = a1
  p1 = p1
  Runs = {r1}
  Agents = {a1}
  Providers = {p1}
  AgentOf <- MCAgentOf
  Owner <- MCOwner
  Limit <- MCLimit
  Unlimited = Unlimited
  Tolerance = Unlimited
  MaxRounds = 2
  MaxBacklog = 0
  MaxCrashes = 1
  Reports = {"RUN_FINISHED", "INTERRUPT"}
  Behaviours = {"cancel", "refuse", "expire", "abandon", "resume"}
  Failures = {"crash", "stall", "offline", "stale_pause"}
  None = None
INVARIANTS
  ActiveIsTracked
PROPERTIES
  RunsSettle
