SPECIFICATION Spec
CONSTANTS
  User = {u1}
  ClaimReq = {c1}
  DeskReq = {d1, d2}
  DefaultOpenings <- SeedZero
  Deltas <- OneUpOneDown
  MaxOpenings = 1
  MaxSubmissions = 2
SYMMETRY Symmetry
INVARIANTS
  TypeOK
  
  StatusIsDerived
  HasSubmittedMeansLive
  OnlyLastVersionCounts
PROPERTY
  LedgerSpec
