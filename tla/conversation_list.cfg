SPECIFICATION Spec
CONSTANTS
  MaxMessages = 3
  History = 1
  PageSize = 1
  MaxFiles = 1
  MaxWire = 2
  Requests = {q1, q2}
CONSTRAINTS NothingWritten
SYMMETRY Symmetry
INVARIANTS
  HistoryReachable
  ShownOnce
