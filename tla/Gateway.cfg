SPECIFICATION Spec
CONSTANTS
  Socket = {s1, s2}
  Session = {i1, i2, i3}
  Nobody = Nobody
  MaxChanges = 1
  MaxTroubles = 2
  HealthyFloor = 2
INVARIANTS
  TypeOK
  

  
CHECK_DEADLOCK FALSE
