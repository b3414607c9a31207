SPECIFICATION Spec
CONSTANTS
  Person = {p1, p2}
  Request = {r1, r2}
  Api = {a1, a2}
  Normal = {n1}
  System = {b1}
  Role = {Admin}
  Admin = Admin
  None = None
  MaxEvents = 2
INVARIANTS
  TypeOK
  UsesAreAccounts
PROPERTIES
  NoUseAfterEnd
  RolesStillGrantable
  FirstAdmin
CHECK_DEADLOCK FALSE
