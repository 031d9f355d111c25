\* Four clients and three descriptors; one child in the machine's
\* life, or four. The server may end for good.
SPECIFICATION FairServerSpec
CONSTANTS
  Clients = {u1, u2, u3, u4}
  Parent = parent
  FdSlots = 3
  ProcLimits = {1, 4}
  Backlog = 2
INVARIANTS
  OneServer
  ServerInv
  LifetimeLimit
PROPERTIES
  EndsOnlyClose
  EndsAtLimit
  Served
CHECK_DEADLOCK FALSE
