SPECIFICATION Spec
CONSTANTS
  None = None
  ShownLimit = 1
  ActionOrder <- MCActionOrder
  CoreControlEvents = {"asp.revoked"}
  Present = {"impact", "elicitation", "limits", "risk", "purpose", "ahp", "binding", "wire"}
  FirstRecords <- MCFirstRecords
  Documents <- MCDocuments
  Changes <- MCChanges
  MaxAccepted <- MCMaxAccepted
  MaxChanges <- MCMaxChanges
INVARIANTS
  CoverageMeansPossible
  WorstIsShown
  ImpactNeverStale
  OneAnswerPerRevision
  EditsStayInside
  TaskNeverWidens
  AhpNeverForks
  FreshIsAuthorized
  ClosestIsRendered
  ListingIsOneToOne
  ClaimsAreBacked
CHECK_DEADLOCK FALSE
