CONSTANTS
  None = None
  Several = Several
  Inherit = Inherit
  app = app
  lib = lib
  x = x
  y = y
  z = z
  top = top
  sub = sub
  inner = inner
  side = side
  skipped = skipped
  MaxWalkDepth = 8
  MaxSearch = 4
  ScanDepth = 2
  Versions = {1, 2}
  Dirs <- TreeDirs
  Subdirs <- TreeSubdirs
  Skipped = {skipped}
  NameOrder <- TreeNames
  Layouts = {}
  Inputs = {}
  Scopes = {skipped}
  Projects <- LinkedProjects
SPECIFICATION MCSpec
INVARIANTS
  MembersKeepTheirEdges
