SPECIFICATION Spec
CONSTANTS
  u1 = u1
  p1 = p1
  p2 = p2
  image = image
  None = None
  User = {u1}
  Put = {p1, p2}
  File = {image}
  Bodies <- MCBodies
  Value <- MCValue
  FileTypes <- MCFileTypes
  MaxPuts = 3
  MaxSubmissions = 2
  MaxAnswers = 1
SYMMETRY Symmetry
INVARIANTS
  WholeTemplates
  
CHECK_DEADLOCK FALSE
