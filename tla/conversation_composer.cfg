SPECIFICATION Spec
CONSTANTS
  MaxMessages = 2
  History = 0
  PageSize = 1
  MaxFiles = 1
  MaxWire = 2
  Requests = {q1, q2}
CONSTRAINTS NoPages FewConcerns
SYMMETRY Symmetry
INVARIANTS
  UploadedOnce
  EditsKeepToTheirMessage
PROPERTIES
  AckedIsShown
