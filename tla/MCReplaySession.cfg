SPECIFICATION Spec
CONSTANTS
  MaxDiagnostics = 2
  MaxRecords = 4
  Generations = {1, 2}
  Alphabet = "sessions"
  Records <- MCRecords
  PreflightFailures <- MCFailures
  d1 = d1
  d2 = d2
  d3 = d3
  s1 = s1
  s2 = s2
  t1 = t1
  late = late
  Occurrences = {d1, d2, d3}
  Hashes = {d1, d2, d3}
  Deliveries = {d1, d2, d3}
  Cursors = {d1, d2, d3}
  Subscriptions = {s1, s2}
  Streams = {t1}
  Reasons = {late}
  NoReason = NoReason
  None = None
  MaxPosition = 3
INVARIANTS
  VerdictIsExact
  AssuranceIsEarned
  ReportIsSound
CHECK_DEADLOCK FALSE
