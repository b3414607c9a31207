SPECIFICATION Spec
CONSTANTS
  Task = {t1}
  Group = {g1}
  Role = {}
  User = {u1}
  Connection = {c1}
  File = {f1}
  Sweep = {w1, w2}
  Hourly = {w1}
  None = None
  MaxEvents = 1
INVARIANTS
  TypeOK
  FilesKept
PROPERTIES
  
  AllCollected
