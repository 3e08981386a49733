CONSTANTS
  web = web
  guest = guest
  default = default
  r1 = r1
  r2 = r2
  r3 = r3
  cond = cond
  dict = dict
  Source <- MCSource
  Default = default
  NameRank <- MCNameRank
  Rules = {r1, r2, r3}
  RulesOf <- MCRulesOf
  Refs = {cond, dict}
  SetNeeds <- MCSetNeeds
  Needs <- MCNeeds
  Conditions = {cond}
  Carried = {cond}
  ElementNeeds <- MCElementNeeds
  Enabled = {web, r1, r2, r3}
  MaxSuffix = 2
  MaxEdits = 2
  MaxFaults = 1
  MaxTrouble = 2
  MaxRuns = 2
SPECIFICATION Spec
INVARIANTS TypeOK OneCopyPerSet OwnSetsComplete IncompleteIsReported
PROPERTIES StrangersUntouched NoTrafficChange
CHECK_DEADLOCK FALSE
