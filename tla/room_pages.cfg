SPECIFICATION Spec
CONSTANTS
  Users = {me, ann, bob}
  Me = me
  MAX_ROOM_PARTICIPANTS = 3
  Searches = {all, some}
  NoSearch = all
  Calls = {c1, c2}
  MaxChanges = 1
  Faults = TRUE
CONSTRAINTS FewChanges Apart OvertakenAlone
SYMMETRY Symmetry
INVARIANTS
  OfferedIsAllowed
  PanelCurrent
  ListCurrent
  BusyOnlyWhileWaiting
PROPERTIES
  OpensItsOwnRoom
