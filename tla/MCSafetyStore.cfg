SPECIFICATION Spec
CONSTANTS
  c1 = c1
  c2 = c2
  g1 = g1
  g2 = g2
  h1 = h1
  h2 = h2
  l1 = l1
  l2 = l2
  s1 = s1
  s2 = s2
  s3 = s3
  None = None
  GrantIds = {g1, g2}
  Hashes = {h1, h2}
  Lineages = {l1, l2}
  SessionIds = {s1, s2, s3}
  Limits = {0, 1, 2}
  Generations = {1, 2}
  Connections = {c1, c2}
  Requests <- MCRequests
SYMMETRY Two
INVARIANTS
  AdmissionsFollowGenerations
  AnswersNameTheFence
PROPERTIES
  StopsAreFinal
  ImplementsLineageGuard
