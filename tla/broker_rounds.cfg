SPECIFICATION FairSpec
CONSTANTS
  r1 = r1
  r2 = r2
  a1 = a1
  a2 = a2
  p1 = p1
  Runs = {r1, r2}
  Agents = {a1}
  Providers = {p1}
  AgentOf <- MCOneAgent
  Owner <- MCOwner
  Limit <- MCLimitOne
  Unlimited = Unlimited
  Tolerance = Unlimited
  MaxRounds = 2
  MaxBacklog = 0
  Reports = {}
  Behaviours = {"resume", "cancel", "refuse", "expire"}
  None = None
INVARIANTS
  LimitRespected
  RoundsAccountedFor
  NoMissedWakeup
PROPERTY EveryRoundEnds
