CONSTANTS
  Worker = {w1, w2}
  None = None
  Load = {"register", "login", "refresh", "select", "logout", "everywhere", "reset", "verify", "socket", "invite", "member", "clock"}
  SecondLength = 2
  MaxTime = 6
  MaxRequests = 5
  Backdated = {0, 1}
SPECIFICATION Spec
SYMMETRY Crew
INVARIANTS
  TypeOK
  SignedOutStaysOut
  FamilyStaysSingle
  StaleSocketsWereJoining
  TimesheetPairsNeighbours
PROPERTY
  GrantsWorkOnce
CHECK_DEADLOCK FALSE
