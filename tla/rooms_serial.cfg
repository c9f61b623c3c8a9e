SPECIFICATION Spec
CONSTANTS
  Users = {owner, ann, bob, cat}
  Creator = owner
  Requests = {r1}
  Ops = {"join", "invite", "leave", "delete", "ban", "unban", "addAdmin", "removeAdmin", "promote", "demote", "kick"}
  MAX_ROOM_PARTICIPANTS = 3
  Faults = FALSE
SYMMETRY Symmetry
INVARIANTS
  TypeOK
  BannedStayOut
PROPERTIES
  ImplementsPolicy
