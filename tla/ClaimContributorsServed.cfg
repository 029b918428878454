SPECIFICATION Spec
CONSTANTS
  Request = {r1, r2, r3}
  User <- Users
  Repo <- Repos
  Granted <- Start
  Menu <- Requests
  NoRequest <- None
  MaxConns = 4
CHECK_DEADLOCK FALSE
INVARIANT ContributorsServed
