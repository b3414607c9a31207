SPECIFICATION Spec
CONSTANTS
  m1 = m1
  r1 = r1
  Member = {u1, u2}
  Mapping = {m1}
  Role = {r1}
  RoleOf <- OnlyRole
  Directions <- EveryDirection
  MaxEvents = 3
INVARIANTS
  TypeOK
  UndisturbedJobSettles
PROPERTIES
  NativeGrantsStand
  Converges
  RunningEnds
