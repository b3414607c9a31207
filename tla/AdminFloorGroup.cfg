SPECIFICATION FloorSpec
CONSTANTS
  adminRole = adminRole
  divisionRole = divisionRole
  adminGrant = adminGrant
  divisionGrant = divisionGrant
  User = {u1}
  Role = {adminRole, divisionRole}
  Grant = {adminGrant, divisionGrant}
  GroupRole = {divisionRole}
  MappedRole = {}
  RoleOf <- OneGrantEach
  Request = {r1}
SYMMETRY Symmetry
INVARIANT
  NeverWithoutAdmin
