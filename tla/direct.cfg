SPECIFICATION Spec
CONSTANTS
  Users = {ann, bob}
  Senders = {bob}
  Watchers = {ann}
  DmRooms = {d1, d2}
  MaxMessages = 2
  MaxEvents = 2
  Requests = {r1, r2, r3}
SYMMETRY Symmetry
CONSTRAINTS OneKind OneRoom
CHECK_DEADLOCK FALSE
INVARIANTS
  BanStopsNewMessages
  NothingMissed
  ReadStaysRead
  BadgeNotices
