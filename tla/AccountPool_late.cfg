CONSTANTS
  Requests = {r1, r2}
  Accounts = {a1}
  NoAccount = NoAccount
  Kinds = {"burst", "billing", "fiveHour", "sevenDay"}
  AdminMay = {}
SPECIFICATION Spec
PROPERTY DisabledUntilEnabled
