CONSTANTS
  a1 = a1
  a2 = a2
  a3 = a3
  Requests = {r1}
  Accounts = {a1, a2, a3}
  NoAccount = NoAccount
  Kinds = {"burst", "billing", "fiveHour"}
  AdminMay = {"disable"}
  Policies <- MCPolicies
  MaxSwitches = 1
  MaxRetries = 1
  MaxWaits = 1
  WritesFail = TRUE
SPECIFICATION FairLoopSpec
INVARIANT AttemptIsSwitches
INVARIANT PolicyRespected
INVARIANT ForwardsBounded
INVARIANT LastAnswerKept
PROPERTY RequestsEnd
PROPERTY WorkFalls
