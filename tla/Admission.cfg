SPECIFICATION Spec
CONSTANTS
  None = None
  Session = {s1, s2}
  Key = {key}
  Account = {account}
  World = {"home"}
  Team = {"red", "blue"}
  Room = {"red", "other"}
  Claim <- MCClaim
  AccountTtl = 2
  AccountTimeout = 1
  MatchTtl = 1
  MatchTimeout = 1
  Cap = 1
  MaxTime = 3
  MaxChanges = 1
INVARIANTS IInv AnswerIsRecent TeamIsRecent
SYMMETRY Sessions
