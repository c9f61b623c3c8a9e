SPECIFICATION Spec
CONSTANTS
  Users = {ann, bob}
  FirstAdmin = ann
  Roles = {"user", "admin"}
  SessionIds = {s1, s2}
  Requests = {r1, r2}
  TTL = 1
  MaxPassword = 3
SYMMETRY Symmetry
INVARIANTS
  RevocationTakesEffect
  SessionsKnowThePassword
  ResetOnce
PROPERTIES
  RolesByAdmins
