CONSTANTS
  a1 = a1
  a2 = a2
  s1 = s1
  s2 = s2
  d1 = d1
  d2 = d2
  Requests = {r1, r2}
  Accounts = {a1, a2}
  Sessions = {s1, s2}
  Devices = {d1, d2}
  NoAccount = NoAccount
  NoSession = NoSession
  DeviceOf <- MCDeviceOf
  MaxSessions <- OneSession
  DeviceQuota <- OneDeviceToday
  SessionQuota <- OneSessionToday
  MaxRounds = 2
  MaxArrivals = 3
  MaxUpsets = 2
SPECIFICATION Spec
INVARIANT LiveBounded
INVARIANT DayBounded
INVARIANT ServiceCounted
PROPERTY AdmissionFalls
CHECK_DEADLOCK FALSE
