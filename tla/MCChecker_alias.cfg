CONSTANTS
  p1 = p1
  left = left
  pad = pad
  public = public
  mirror = mirror
  jsr = jsr
  internal = internal
  bucket = bucket
  p2 = p2
  None = None
  Proc = {p1, p2}
  Name = {left, pad}
  Root = {public, mirror, jsr}
  Alias = {internal}
  Slot = {bucket}
  SlotOf <- OneSlot
  DefaultRoot = public
  DefaultJsr = jsr
  Config <- AliasConfig
  Manifests <- AliasManifests
  MaxItems = 2
  Concurrency = 1
  MaxAttempts = 1
  MemTTL = 2
  DiskTTL = 1
  MaxClock = 0
  MaxCrashes = 0
SPECIFICATION Spec
INVARIANTS
  AnswersOwnQuestion
