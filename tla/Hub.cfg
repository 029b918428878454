SPECIFICATION Spec
CONSTANTS
  Request = {r1, r2, r3}
  Account <- Accounts
  TooLong <- Long
  MaxConns = 2
CHECK_DEADLOCK FALSE
INVARIANTS TypeOK OneAccount LogoutRevokes NeverAlreadyOut WhoLeaks
PROPERTY Answered
