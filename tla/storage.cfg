SPECIFICATION Spec
CONSTANTS
  Users = {ann, bob}
  Rooms = {m1}
  Files = {f1, f2, f3}
  Requests = {r1, r2}
  Nobody = Nobody
  NoFile = NoFile
SYMMETRY Symmetry
CHECK_DEADLOCK FALSE
INVARIANTS
  RowsHaveFiles
  AvatarsHaveFiles
  NothingOfTheGone
PROPERTIES
  PurgeComplete
