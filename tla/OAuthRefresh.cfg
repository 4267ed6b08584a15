CONSTANTS
  Callers = {c1, c2}
  NoCaller = NoCaller
  MaxPolls = 2
  MaxIssued = 2
  MaxEdits = 1
SPECIFICATION FairSpec
INVARIANT OneInside
INVARIANT CredentialsKept
INVARIANT ErrorExplained
PROPERTY AnswersFresh
PROPERTY CallsEnd
