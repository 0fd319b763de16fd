SPECIFICATION Spec
CONSTANTS
  i1 = i1  i2 = i2  h1 = h1  h2 = h2  l1 = l1  l2 = l2  u1 = u1  u2 = u2  None = None
  Incident <- TwoIncidents
  At <- Instants
  Cooldown = 2
  MaxTries = 2
  Handler <- TwoHandlers
  Loop <- TwoLoops
  Uuid <- TwoRows
INVARIANTS TypeOK CooldownKept DoneIsRecorded
PROPERTIES QueueDrains ImplementsUploadQueue
CONSTRAINT Bounded
CHECK_DEADLOCK FALSE
