CONSTANTS
  p1 = p1
  left = left
  pad = pad
  public = public
  mirror = mirror
  jsr = None
  internal = internal
  bucket = bucket
  p2 = p2
  None = None
  Proc = {p1, p2}
  Name = {left, pad}
  Root = {public, mirror}
  Alias = {internal}
  Slot = {bucket}
  SlotOf <- OneSlot
  DefaultRoot = public
  DefaultJsr = public
  Config <- AgeConfig
  Manifests <- AgeManifests
  MaxItems = 2
  Concurrency = 1
  MaxAttempts = 1
  MemTTL = 2
  DiskTTL = 1
  MaxClock = 3
  MaxCrashes = 1
SPECIFICATION FairSpec
INVARIANTS
  TypeOK
  AnswersOwnQuestion
  BoundedStaleness
PROPERTIES
  ImplementsService
