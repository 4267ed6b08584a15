CONSTANTS
  r1 = r1
  r2 = r2
  a1 = a1
  a2 = a2
  Responses = {r1, r2}
  Accounts = {a1, a2}
  Readers = {c1}
  NoAccount = NoAccount
  AccountOf <- MCAccountOf
  ChannelCap = 1
  BatchSize = 2
SPECIFICATION FairSpec
INVARIANT RecordedOnce
INVARIANT CostExplained
PROPERTY RecordsSettle
