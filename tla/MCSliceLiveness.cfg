\* One lane under fair scheduling, with stray connections.
SPECIFICATION FairSpec
CONSTANTS
  r1 = r1
  r2 = r2
  a1 = a1
  a2 = a2
  k1 = k1
  x1 = x1
  x2 = x2
  i1 = i1
  i2 = i2
  Runtimes = {r1}
  Agents = {a1}
  Keys = {k1}
  Executions = {x1, x2}
  Inputs = {i1, i2}
  BadInput = BadInput
  None = None
  Operator = Operator
  Requests = {}
  AgentOf <- MCAgentOf
  Attempts <- LaneAttempts
  MaxCredentials = 1
  MaxEffects = 2
  MaxDenied = 2
  MaxExchanges = 2
  MaxStray = 1
  MaxBacklog = 1
PROPERTIES
  LanesKeepMoving
  QueueKeepsMoving
CHECK_DEADLOCK FALSE
