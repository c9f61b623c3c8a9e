SPECIFICATION Spec
CONSTANTS
  Users = {owner, ann, bob}
  Creator = owner
  Requests = {r1, r2}
  Ops = {"join", "invite", "leave", "delete", "ban", "addAdmin", "removeAdmin", "kick"}
  MAX_ROOM_PARTICIPANTS = 3
  Faults = FALSE
SYMMETRY Symmetry
INVARIANTS
  BannedStayOut
