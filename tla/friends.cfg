SPECIFICATION Spec
CONSTANTS
  Users = {ann, bob}
  Ids = {i1, i2, i3}
  NoId = NoId
  Requests = {r1, r2}
  Faults = TRUE
SYMMETRY Symmetry
INVARIANTS
  TypeOK
  BothAsked
  AcceptAheadOfBan
