\* Small instances of the services and of the Redis cache, one at a time.
INIT MCInit
NEXT MCNext
SYMMETRY Alike
CONSTANTS
  s1 = s1
  s2 = s2
  s3 = s3
  a1 = a1
  e1 = e1
  e2 = e2
  e3 = e3
  d1 = d1
  d2 = d2
  Visitors = {v1, v2}
  Loops = {l1, l2}
  MaxVisits = 3
  MaxSends = 3
  MaxLosses = 1
  Exchanges = {x1, x2}
  Logins = {i1, i2}
  PoolAccounts = {a1}
  RealIds = {s1, s2, s3}
  HashOf <- Hashes
  PoolWidth <- Widths
  PoolCallers = {c1, c2}
  MaxBlocks = 3
  Clients = {r1, r2, r3}
  RpmLimits = {0, 1, 2}
  LastMinute = 1
  MaxRequests = 4
  MaxOutages = 1
  Admins = {u1, u2}
  Schedules <- WarmSchedules
  MaxHours = 3
  Callers = {c1, c2, c3}
  SlotLimit = 1
  MaxExpiries = 1
  MaxFaults = 2
  Calls = {k1, k2}
  Sessions = {e1, e2, e3}
  Devices = {d1, d2}
  NoId = NoId
  IdLimit <- OneOfEach
  MaxTurns = 1
  MaxMisses = 1
INVARIANTS
  LoopAlone
  SendsCounted
  LoginOnce
  PanicExplained
  RepairClean
  AnswerWhole
  RpmExplained
  ClassifiedRight
  CapsTight
  SlotsBounded
  KeyMortal
  AdmissionsRaced
CHECK_DEADLOCK FALSE
