SPECIFICATION Spec
CONSTANTS
  User = {u1, u2}
  Discord = {d1, d2}
  Session = {s1, s2}
  Token = {t1, t2}
  Request = {r1, r2}
  None = None
  RequireVerified = TRUE
  MaxStarts = 4
  MaxEvents = 3
SYMMETRY Symmetry
INVARIANTS
  TypeOK
  DoubtEndsSessions
  KeepsSignIn
  ConnectedMeansBoth
PROPERTY
  EndIsFinal
CHECK_DEADLOCK FALSE
