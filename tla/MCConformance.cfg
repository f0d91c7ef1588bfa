SPECIFICATION Spec
CONSTANTS
  None = None
  Catalogs <- MCCatalogs
  Subjects <- MCSubjects
  Unreadable = Unreadable
  MaxEdits = 2
INVARIANTS
  ResultsRestOnTimelyAnswers
  PassIsEarned
  NoStragglers
  NoForgedPass
PROPERTIES
  PlansAreRun
  ReportsBindOneCatalog
CONSTRAINT EditsAreOfFew
CHECK_DEADLOCK FALSE
