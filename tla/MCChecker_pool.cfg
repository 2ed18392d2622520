CONSTANTS
  p1 = p1
  left = left
  pad = pad
  public = public
  mirror = mirror
  jsr = jsr
  internal = internal
  bucket = bucket
  p2 = p2
  None = None
  Proc = {p1}
  Name = {left, pad}
  Root = {public, mirror, jsr}
  Alias = {internal}
  Slot = {bucket}
  SlotOf <- OneSlot
  DefaultRoot = public
  DefaultJsr = jsr
  Config <- PoolConfig
  Manifests <- PoolManifests
  MaxItems = 6
  Concurrency = 2
  MaxAttempts = 3
  MemTTL = 2
  DiskTTL = 1
  MaxClock = 2
  MaxCrashes = 1
SPECIFICATION FairSpec
INVARIANTS
  EveryItemAnswered
  OneRequestPerPackage
PROPERTIES
  EveryRunFinishes
