CONSTANTS
  Order = {o1}
  Call = {c1, c2}
  None = None
  Lifecycle <- Lifecycles
  MaxTaps = 1
  MaxFaults = 1
SPECIFICATION Spec
INVARIANTS
  TypeOK
  WrongTicketsAreExplained
  TicketsHaveHappened
PROPERTIES
  ReconnectsReconcile
CHECK_DEADLOCK FALSE
