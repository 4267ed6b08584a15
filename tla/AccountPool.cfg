CONSTANTS
  Requests = {r1, r2}
  Accounts = {a1, a2}
  NoAccount = NoAccount
  Kinds = {"burst", "billing", "fiveHour", "sevenDay"}
  AdminMay = {"disable", "edit"}
SPECIFICATION FairSpec
INVARIANT SnapshotNeverLimited
PROPERTY QuietStaysDisabled
PROPERTY QuarantineEnds
CHECK_DEADLOCK FALSE
