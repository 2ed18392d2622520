CONSTANTS
  None = None
  Garbled = Garbled
  out = out
  top = top
  sub = sub
  leaf = leaf
  vendor = vendor
  serde = serde
  tokio = tokio
  Dirs <- MCDirs
  Parent <- MCParent
  Versions = {1, 9, 10}
  TextOrder <- MCTextOrder
  Paths <- MCPaths
  Trees <- MCTrees
  Edits <- MCEdits
  Runs <- MCRuns
  MaxEdits = 1
  Unsent = Unsent
  Unset = Unset
  Served <- SomeServed
  Missing = Missing
  Scans <- SomeScans
  MaxAnnotations = 2
  MaxRows = 3
  SummaryLimit = 20
  SummaryMargin = 1
  Papers <- MCPapers
  MaxHops = 2
  NewVersion = "9"
  Manuscripts <- MCManuscripts
  MaxDepth = 2
SPECIFICATION MCSpec
INVARIANTS
  DiscoveryAgrees ReadersAgree MembersAgree LookupIsFaithful EverySurfaceTells
  ReadingIsFaithful JsonScanIsHonest
