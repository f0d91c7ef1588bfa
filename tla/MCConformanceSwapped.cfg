SPECIFICATION Spec
CONSTANTS
  None = None
  Catalogs <- SwappedCatalogs
  Subjects <- SwappedSubjects
  Unreadable = Unreadable
  MaxEdits = 2
INVARIANTS
  ReportsAreOfTheirCatalog
CHECK_DEADLOCK FALSE
