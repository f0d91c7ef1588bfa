\* One lane: retries, timeouts, crash and restart, revocation.
SPECIFICATION Spec
CONSTANTS
  r1 = r1
  r2 = r2
  a1 = a1
  a2 = a2
  k1 = k1
  x1 = x1
  x2 = x2
  i1 = i1
  i2 = i2
  Runtimes = {r1}
  Agents = {a1}
  Keys = {k1}
  Executions = {x1, x2}
  Inputs = {i1, i2}
  BadInput = BadInput
  None = None
  Operator = Operator
  Requests = {}
  AgentOf <- MCAgentOf
  Attempts <- RetryAttempts
  MaxCredentials = 1
  MaxEffects = 2
  MaxDenied = 2
  MaxExchanges = 2
  MaxStray = 0
  MaxBacklog = 1
INVARIANTS
  SuccessMeansPerformed
  RefusedMeansNoEffect
  OneEffectPerAuthority
  RetryGetsTheOriginal
  FileCurrentWhenAccepting
CHECK_DEADLOCK FALSE
