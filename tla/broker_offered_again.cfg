SPECIFICATION FairSpec
CONSTANTS
  r1 = r1
  r2 = r2
  a1 = a1
  a2 = a2
  p1 = p1
  Runs = {r1, r2}
  Agents = {a1}
  Providers = {p1}
  AgentOf <- MCOneAgent
  Owner <- MCOwner
  Limit <- MCLimitOne
  Unlimited = Unlimited
  Tolerance = 3
  MaxRounds = 1
  MaxBacklog = 0
  Reports = {}
  Behaviours = {"decline"}
  None = None
PROPERTY WaitingIsOffered
