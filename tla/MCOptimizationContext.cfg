SPECIFICATION Spec
CONSTANTS
  a = a
  b = b
  v1 = v1
  v2 = v2
  Refused = Refused
  None = None
  Unlimited = Unlimited
  Unsupported = Unsupported
  NoEntry = NoEntry
  NoProfile = NoProfile
  Workers = {a, b}
  Variants = {v1, v2}
  Capabilities <- MCCapabilities
  Answering <- MCAnswering
  Readings <- MCReadings
  EntryLife = 2
  StoredVariants = {v1}
  MaxFaults = 1
INVARIANT ContextsAreBuilt
PROPERTY RunningWorkersBecomeUsable
