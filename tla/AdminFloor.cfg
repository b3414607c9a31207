SPECIFICATION FloorSpec
CONSTANTS
  adminRole = adminRole
  divisionRole = divisionRole
  adminGrant = adminGrant
  divisionGrant = divisionGrant
  User = {u1, u2}
  Role = {adminRole, divisionRole}
  Grant = {adminGrant, divisionGrant}
  GroupRole = {divisionRole}
  MappedRole = {divisionRole}
  RoleOf <- OneGrantEach
  Request = {r1, r2}
SYMMETRY Symmetry
INVARIANTS
  FloorTypeOK
  FloorHeld
