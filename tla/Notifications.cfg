SPECIFICATION FeedSpec
CONSTANTS
  User = {u1, u2}
  Admin = {u1}
  Request = {1, 2}
  Message = {1, 2}
  Pull = {1, 2}
  Task = Task
  None = None
  MaxEvents = 2
  MaxMishaps = 1
INVARIANTS
  OwnFeed

  
  
CHECK_DEADLOCK FALSE
