SPECIFICATION AppSpec
CONSTANTS
  Runtimes = {r1}
  Agents = {a1, a2}
  Keys = {k1, k2}
  Executions = {x1, x2}
  Inputs = {i1, i2}
  BadInput = BadInput
  None = None
  Requests <- MCRequests
  MaxCredentials = 2
  MaxEffects = 2
  MaxDenied = 1
INVARIANTS
  LedgerIsSound
PROPERTIES
  RevocationFence
  ImplementsLedger
