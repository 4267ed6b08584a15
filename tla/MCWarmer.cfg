\* One client at a time; two requests and one fault.
SPECIFICATION Spec
CONSTANTS
  t1 = t1
  t2 = t2
  k1 = k1
  k2 = k2
  Tasks = {t1, t2}
  Tokens = {k1, k2}
  TokenList <- SharedToken
  MaxProcesses = 1
  MaxOrders = 2
  MaxFaults = 1
INVARIANTS
  TypeOK
  TokenAlone
PROPERTIES
  NoStragglers
  TasksEnd
CHECK_DEADLOCK FALSE
