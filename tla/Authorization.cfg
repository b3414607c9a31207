SPECIFICATION Spec
CONSTANTS
  u1 = u1
  u2 = u2
  member = member
  crew = crew
  desk = desk
  d1 = d1
  t1 = t1
  g1 = g1
  g2 = g2
  None = None
  User = {u1, u2}
  Role = {member, crew, desk}
  Division = {d1}
  Team = {t1}
  Grant = {g1, g2}
  InherentOf <- MCInherentOf
  Item <- MCItem
  Tables <- MCTables
  Holdings <- MCHoldings
  Offered <- MCOffered
  Edits <- MCEdits
  MaxChanges = 2
INVARIANTS
  
  GrantsProject
CHECK_DEADLOCK FALSE
