\* Two lanes that share the application and use the same identifiers.
SPECIFICATION Spec
CONSTANTS
  r1 = r1
  r2 = r2
  a1 = a1
  a2 = a2
  k1 = k1
  x1 = x1
  x2 = x2
  i1 = i1
  i2 = i2
  Runtimes = {r1, r2}
  Agents = {a1, a2}
  Keys = {k1}
  Executions = {x1, x2}
  Inputs = {i1, i2}
  BadInput = BadInput
  None = None
  Operator = Operator
  Requests = {}
  AgentOf <- MCAgentOf
  Attempts <- RepeatAttempts
  MaxCredentials = 2
  MaxEffects = 2
  MaxDenied = 1
  MaxExchanges = 1
  MaxStray = 0
  MaxBacklog = 1
INVARIANTS
  ConflictHasItsCause
PROPERTIES
  ConfirmedFenceHolds
  AuthorityDiesWithItsServer
CHECK_DEADLOCK FALSE
