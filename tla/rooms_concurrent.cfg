SPECIFICATION Spec
CONSTANTS
  Users = {owner, ann, bob, cat}
  Creator = owner
  Requests = {r1, r2}
  Ops = {"join", "invite", "leave", "delete", "ban", "addAdmin", "removeAdmin", "kick"}
  MAX_ROOM_PARTICIPANTS = 2
  Faults = TRUE
SYMMETRY Symmetry
INVARIANTS
  OwnerAnchored
  OvershootBounded
PROPERTIES
  OwnerPowers
