SPECIFICATION FairSpec
CONSTANTS
  q1 = q1
  q2 = q2
  q3 = q3
  Requests = {q1, q2, q3}
  DoorOf <- MCDoorOf
  Threads = {t1}
  h1 = h1
  p1 = p1
  s1 = s1
  Keys = {h1, p1, s1}
  Callers <- MCCallers
  Resolutions <- MCResolutions
  Provider = p1
  QueueLimit = 1
  MaxAsks = 2
  DoorClasses = {}
  None = None
INVARIANTS
  DoorsTypeOK
  AnswerMeetsItsAsk
  QueueWithinLimit
  TurnsAlternate
  SessionKeyKeepsItsHead
  
PROPERTIES
  ThreadKeepsItsMembers
  CallersAnswered
CHECK_DEADLOCK FALSE
