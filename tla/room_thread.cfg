SPECIFICATION Spec
CONSTANTS
  Users = {owner, ann}
  Creator = owner
  MAX_ROOM_PARTICIPANTS = 2
  PlatformStaff = {ann}
  ann = ann
  Tabs = {tab}
  UserOf <- TabUser
  Msgs = {m1, m2}
  NoMsg = NoMsg
  Requests = {r1, r2}
  Ops = {"send", "edit", "reply", "delete"}
  MaxVersion = 2
CONSTRAINTS Apart
SYMMETRY Symmetry
INVARIANTS
  TypeOK
  NothingMissed
  OutsidersSeeNothing
  GoneWithTheRoom
PROPERTIES
  DeletionSticks
