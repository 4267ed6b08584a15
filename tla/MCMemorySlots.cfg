CONSTANTS
  a1 = a1
  a2 = a2
  t1 = t1
  Requests = {r1, r2, r3}
  Accounts = {a1, a2}
  Tokens = {t1}
  NoToken = NoToken
  NoAccount = NoAccount
  Max <- MCMax
SPECIFICATION FairSpec
INVARIANT Accounting
PROPERTY LimitsImplemented
PROPERTY SlotsDrain
