CONSTANTS
  None = None
  check = check
  other = other
  red = red
  blue = blue
  plain = plain
  ghsa = ghsa
  Callers = {check, other}
  Packages = {red, blue}
  Advisories = {plain, ghsa}
  Ghsa = {ghsa}
  IncludeGhsa = FALSE
  Asks <- MCAsks
  Details = {check, other}
  MaxBatch = 1
  MaxAttempts = 2
  MaxDetailPages = 2
  Concurrency = 2
  Worlds <- MCWorlds
  MaxChanges = 1
  MaxExpiries = 1
SPECIFICATION Spec
INVARIANTS
  CleanMeansTold
  RecordsExplainIds
  AskedWhileOpen
PROPERTIES
  CallsEnd
